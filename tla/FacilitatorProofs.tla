-------------------------- MODULE FacilitatorProofs --------------------------
(***************************************************************************)
(* The theorems about the facilitator (Facilitator.tla): a payment buys    *)
(* once, whoever holds a tier or premium paid for it, and an agent's daily *)
(* limit holds up to what is in flight, for any number of request slots.   *)
(* What requests carry is summed over their set (Total); facts about the   *)
(* sums are proved by induction over the sets of requests.                 *)
(***************************************************************************)
EXTENDS Facilitator, Integers, FiniteSetTheorems, WellFoundedInduction, TLAPS

-----------------------------------------------------------------------------
(* Sums over the requests *)

(* g gives every set of requests what f adds up to over it. *)
Additive(g, f, set) ==
  /\ g \in [SUBSET set -> Nat]
  /\ g[{}] = 0
  /\ \A s \in SUBSET set : \A r \in s : g[s] = f[r] + g[s \ {r}]

Total(f) == (CHOOSE g \in [SUBSET Requests -> Nat] : Additive(g, f, Requests))[Requests]

LEMMA LeastNumber ==
  ASSUME NEW T \in SUBSET Nat, T # {}
  PROVE  \E n \in T : \A m \in T : n <= m
<1>1. PICK n \in T : \A m \in T : ~(<<m, n>> \in OpToRel(<, Nat))
  BY NatLessThanWellFounded, WFMin
<1>2. \A m \in T : <<m, n>> \in OpToRel(<, Nat) <=> m < n
  BY Zenon DEF OpToRel
<1>3. \A m \in T : ~(m < n)
  BY <1>1, <1>2, Zenon
<1>4. \A m \in T : m \in Nat
  OBVIOUS
<1> QED
  BY <1>3, <1>4

(* Induction over the sets of requests: the family is named by a set of sets. *)
LEMMA RequestsInduction ==
  ASSUME NEW C, {} \in C,
         \A s \in SUBSET Requests : \A r \in Requests \ s : s \in C => s \cup {r} \in C
  PROVE  \A s \in SUBSET Requests : s \in C
<1> SUFFICES ASSUME NEW u \in SUBSET Requests, u \notin C PROVE FALSE
  OBVIOUS
<1> DEFINE T == {Cardinality(s) : s \in (SUBSET Requests) \ C}
<1>1. \A s \in SUBSET Requests : IsFiniteSet(s) /\ Cardinality(s) \in Nat
  BY RequestsAssumption, FS_Subset, FS_CardinalityType
<1>2. T \in SUBSET Nat /\ T # {}
  BY <1>1
<1>3. PICK n \in T : \A m \in T : n <= m
  BY <1>2, LeastNumber
<1>4. PICK s \in (SUBSET Requests) \ C : Cardinality(s) = n
  BY <1>3
<1>5. PICK r : r \in s
  BY <1>4
<1>6. Cardinality(s \ {r}) = Cardinality(s) - 1
  BY <1>1, <1>4, <1>5, FS_RemoveElement
<1>7. s \ {r} \in C
  <2>1. s \ {r} \in SUBSET Requests
    BY <1>4
  <2>2. s \ {r} \notin C => Cardinality(s \ {r}) \in T
    BY <2>1
  <2>3. Cardinality(s) \in Nat
    BY <1>1, <1>4
  <2> QED
    BY <2>2, <2>3, <1>3, <1>4, <1>6
<1>8. s = (s \ {r}) \cup {r} /\ r \in Requests \ (s \ {r}) /\ s \ {r} \in SUBSET Requests
  BY <1>4, <1>5
<1> QED
  BY <1>4, <1>7, <1>8

LEMMA AdditiveExists ==
  ASSUME NEW f \in [Requests -> Nat]
  PROVE  \E g \in [SUBSET Requests -> Nat] : Additive(g, f, Requests)
<1> DEFINE C == {s \in SUBSET Requests : \E g \in [SUBSET s -> Nat] : Additive(g, f, s)}
<1>1. {} \in C
  <2> DEFINE g == [s \in SUBSET {} |-> 0]
  <2>1. g \in [SUBSET {} -> Nat] /\ Additive(g, f, {})
    BY DEF Additive
  <2> HIDE DEF g
  <2> QED
    BY <2>1
<1>2. ASSUME NEW s \in SUBSET Requests, NEW r \in Requests \ s, s \in C
      PROVE  s \cup {r} \in C
  <2>1. PICK g \in [SUBSET s -> Nat] : Additive(g, f, s)
    BY <1>2
  <2> DEFINE h == [u \in SUBSET (s \cup {r}) |-> IF r \in u THEN f[r] + g[u \ {r}] ELSE g[u]]
  <2>2. \A u \in SUBSET (s \cup {r}) :
          /\ r \in u => u \ {r} \in SUBSET s
          /\ r \notin u => u \in SUBSET s
    OBVIOUS
  <2>3. h \in [SUBSET (s \cup {r}) -> Nat]
    BY <2>2
  <2>4. h[{}] = 0
    BY <2>1 DEF Additive
  <2>5. ASSUME NEW u \in SUBSET (s \cup {r}), NEW x \in u
        PROVE  h[u] = f[x] + h[u \ {x}]
    <3>1. u \ {x} \in SUBSET (s \cup {r})
      OBVIOUS
    <3>2. CASE x = r
      BY <3>1, <3>2
    <3>3. CASE x # r /\ r \notin u
      <4>1. g[u] = f[x] + g[u \ {x}]
        BY <3>3, <2>1, <2>2, <2>5 DEF Additive
      <4> QED
        BY <4>1, <3>1, <3>3
    <3>4. CASE x # r /\ r \in u
      <4>1. g[u \ {r}] = f[x] + g[(u \ {r}) \ {x}]
        <5>1. u \ {r} \in SUBSET s /\ x \in u \ {r}
          BY <3>4, <2>2, <2>5
        <5> QED
          BY <5>1, <2>1 DEF Additive
      <4>2. h[u] = f[r] + g[u \ {r}] /\ h[u \ {x}] = f[r] + g[(u \ {x}) \ {r}]
        BY <3>1, <3>4
      <4>3. (u \ {x}) \ {r} = (u \ {r}) \ {x} /\ (u \ {r}) \ {x} \in SUBSET s
        BY <2>2, <3>1
      <4>4. f[r] \in Nat /\ f[x] \in Nat /\ g[(u \ {r}) \ {x}] \in Nat
        BY <2>1, <4>3
      <4>5. PICK k \in Nat : k = g[(u \ {r}) \ {x}]
        BY <4>4, <4>3
      <4>6. h[u] = f[r] + (f[x] + k) /\ h[u \ {x}] = f[r] + k
        BY <4>1, <4>2, <4>3, <4>5
      <4> HIDE DEF h
      <4> QED
        BY <4>4, <4>5, <4>6
    <3> QED
      BY <3>2, <3>3, <3>4
  <2> HIDE DEF h
  <2>6. Additive(h, f, s \cup {r})
    BY <2>3, <2>4, <2>5 DEF Additive
  <2> QED
    BY <2>3, <2>6
<1>3. \A s \in SUBSET Requests : s \in C
  <2> HIDE DEF C
  <2> QED
    BY <1>1, <1>2, RequestsInduction
<1> QED
  BY <1>3

(* Total(f) is what some additive function says of all requests. *)
LEMMA TotalAdds ==
  ASSUME NEW f \in [Requests -> Nat]
  PROVE  \E g \in [SUBSET Requests -> Nat] : Additive(g, f, Requests) /\ Total(f) = g[Requests]
<1> DEFINE g == CHOOSE g \in [SUBSET Requests -> Nat] : Additive(g, f, Requests)
<1>1. g \in [SUBSET Requests -> Nat] /\ Additive(g, f, Requests)
  BY AdditiveExists
<1>2. Total(f) = g[Requests]
  BY DEF Total
<1> HIDE DEF g
<1> QED
  BY <1>1, <1>2

LEMMA TotalType ==
  ASSUME NEW f \in [Requests -> Nat]
  PROVE  Total(f) \in Nat
BY TotalAdds

(* When one request's share changes, the total changes by as much. *)
LEMMA TotalChanges ==
  ASSUME NEW f \in [Requests -> Nat], NEW h \in [Requests -> Nat], NEW r \in Requests,
         \A x \in Requests \ {r} : f[x] = h[x]
  PROVE  Total(h) + f[r] = Total(f) + h[r]
<1>1. PICK F \in [SUBSET Requests -> Nat] : Additive(F, f, Requests) /\ Total(f) = F[Requests]
  BY TotalAdds
<1>2. PICK H \in [SUBSET Requests -> Nat] : Additive(H, h, Requests) /\ Total(h) = H[Requests]
  BY TotalAdds
<1> DEFINE C == {s \in SUBSET Requests : IF r \in s THEN H[s] + f[r] = F[s] + h[r] ELSE H[s] = F[s]}
<1>3. {} \in C
  BY <1>1, <1>2 DEF Additive
<1>4. ASSUME NEW s \in SUBSET Requests, NEW x \in Requests \ s, s \in C
      PROVE  s \cup {x} \in C
  <2>1. s \cup {x} \in SUBSET Requests /\ x \in s \cup {x} /\ (s \cup {x}) \ {x} = s
    OBVIOUS
  <2>2. H[s \cup {x}] = h[x] + H[s] /\ F[s \cup {x}] = f[x] + F[s]
    <3>1. H[s \cup {x}] = h[x] + H[(s \cup {x}) \ {x}]
      BY <2>1, <1>2 DEF Additive
    <3>2. F[s \cup {x}] = f[x] + F[(s \cup {x}) \ {x}]
      BY <2>1, <1>1 DEF Additive
    <3> QED
      BY <2>1, <3>1, <3>2
  <2>3. /\ H[s] \in Nat /\ F[s] \in Nat /\ h[x] \in Nat /\ f[x] \in Nat /\ h[r] \in Nat /\ f[r] \in Nat
        /\ IF r \in s THEN H[s] + f[r] = F[s] + h[r] ELSE H[s] = F[s]
    BY <1>4
  <2>4. CASE x = r
    <3>1. H[s] = F[s]
      BY <2>3, <2>4
    <3>2. H[s \cup {x}] + f[r] = F[s \cup {x}] + h[r]
      BY <3>1, <2>2, <2>3, <2>4
    <3> QED
      BY <3>2, <2>1, <2>4
  <2>5. CASE x # r
    <3>1. h[x] = f[x]
      BY <2>5
    <3>2. IF r \in s THEN H[s \cup {x}] + f[r] = F[s \cup {x}] + h[r] ELSE H[s \cup {x}] = F[s \cup {x}]
      BY <3>1, <2>2, <2>3
    <3> QED
      BY <3>2, <2>1, <2>5
  <2> QED
    BY <2>4, <2>5
<1>5. Requests \in C
  <2> HIDE DEF C
  <2> QED
    BY <1>3, <1>4, RequestsInduction
<1> QED
  BY <1>1, <1>2, <1>5

(* A total grows with its shares. *)
LEMMA TotalMonotonic ==
  ASSUME NEW f \in [Requests -> Nat], NEW h \in [Requests -> Nat],
         \A x \in Requests : f[x] <= h[x]
  PROVE  Total(f) <= Total(h)
<1>1. PICK F \in [SUBSET Requests -> Nat] : Additive(F, f, Requests) /\ Total(f) = F[Requests]
  BY TotalAdds
<1>2. PICK H \in [SUBSET Requests -> Nat] : Additive(H, h, Requests) /\ Total(h) = H[Requests]
  BY TotalAdds
<1> DEFINE C == {s \in SUBSET Requests : F[s] <= H[s]}
<1>3. {} \in C
  BY <1>1, <1>2 DEF Additive
<1>4. ASSUME NEW s \in SUBSET Requests, NEW x \in Requests \ s, s \in C
      PROVE  s \cup {x} \in C
  <2>1. s \cup {x} \in SUBSET Requests /\ x \in s \cup {x} /\ (s \cup {x}) \ {x} = s
    OBVIOUS
  <2>2. H[s \cup {x}] = h[x] + H[s] /\ F[s \cup {x}] = f[x] + F[s]
    BY ZenonT(20), <2>1, <1>1, <1>2 DEF Additive
  <2>3. /\ H[s] \in Nat /\ F[s] \in Nat /\ h[x] \in Nat /\ f[x] \in Nat
        /\ F[s] <= H[s] /\ f[x] <= h[x]
    BY <1>4
  <2>4. F[s \cup {x}] <= H[s \cup {x}]
    BY <2>2, <2>3
  <2> QED
    BY <2>1, <2>4
<1>5. Requests \in C
  <2> HIDE DEF C
  <2> QED
    BY <1>3, <1>4, RequestsInduction
<1> QED
  BY <1>1, <1>2, <1>5

(* A total is at most one request's share and the bound for each other. *)
LEMMA TotalBound ==
  ASSUME NEW f \in [Requests -> Nat], NEW m \in Nat, NEW r \in Requests,
         \A x \in Requests \ {r} : f[x] <= m
  PROVE  Total(f) <= f[r] + (Cardinality(Requests) - 1) * m
<1>1. PICK F \in [SUBSET Requests -> Nat] : Additive(F, f, Requests) /\ Total(f) = F[Requests]
  BY TotalAdds
<1>2. \A s \in SUBSET Requests : IsFiniteSet(s) /\ Cardinality(s) \in Nat
  BY RequestsAssumption, FS_Subset, FS_CardinalityType
<1> DEFINE C == {s \in SUBSET Requests :
                   IF r \in s THEN F[s] + m <= f[r] + Cardinality(s) * m ELSE F[s] <= Cardinality(s) * m}
<1>3. {} \in C
  <2>1. F[{}] = 0 /\ Cardinality({}) = 0
    BY <1>1, FS_EmptySet DEF Additive
  <2> QED
    BY <2>1
<1>4. ASSUME NEW s \in SUBSET Requests, NEW x \in Requests \ s, s \in C
      PROVE  s \cup {x} \in C
  <2>1. s \cup {x} \in SUBSET Requests /\ x \in s \cup {x} /\ (s \cup {x}) \ {x} = s
    OBVIOUS
  <2>2. F[s \cup {x}] = f[x] + F[s]
    BY ZenonT(20), <2>1, <1>1 DEF Additive
  <2>3. Cardinality(s \cup {x}) = Cardinality(s) + 1
    BY <1>2, FS_AddElement
  <2>4. PICK n \in Nat, k \in Nat, l \in Nat : n = Cardinality(s) /\ k = F[s] /\ l = f[x]
    BY <1>2
  <2>5. (n + 1) * m = n * m + m /\ n * m \in Nat
    BY <2>4
  <2>6. f[r] \in Nat /\ IF r \in s THEN k + m <= f[r] + n * m ELSE k <= n * m
    BY <1>4, <2>4
  <2>7. CASE x = r
    <3>1. l + k + m <= f[r] + (n * m + m)
      BY <2>4, <2>5, <2>6, <2>7
    <3>2. F[s \cup {x}] + m <= f[r] + Cardinality(s \cup {x}) * m
      BY <3>1, <2>2, <2>3, <2>4, <2>5
    <3> QED
      BY <3>2, <2>1, <2>7
  <2>8. CASE x # r
    <3>1. l <= m
      BY <2>4, <2>8
    <3>2. IF r \in s THEN l + k + m <= f[r] + (n * m + m) ELSE l + k <= n * m + m
      BY <3>1, <2>4, <2>5, <2>6
    <3>3. IF r \in s THEN F[s \cup {x}] + m <= f[r] + Cardinality(s \cup {x}) * m
          ELSE F[s \cup {x}] <= Cardinality(s \cup {x}) * m
      BY <3>2, <2>2, <2>3, <2>4, <2>5
    <3> QED
      BY <3>3, <2>1, <2>8
  <2> QED
    BY <2>7, <2>8
<1>5. Requests \in C
  <2> HIDE DEF C
  <2> QED
    BY <1>3, <1>4, RequestsInduction
<1>6. PICK n \in Nat : n = Cardinality(Requests)
  BY <1>2
<1>7. F[Requests] + m <= f[r] + n * m /\ F[Requests] \in Nat /\ f[r] \in Nat
  BY <1>5, <1>6
<1>8. (n - 1) * m = n * m - m /\ n * m \in Nat
  BY <1>6
<1> QED
  BY <1>1, <1>6, <1>7, <1>8

-----------------------------------------------------------------------------
(* The inductive invariant *)

BoughtTypes ==
  /\ bought \in [Purposes \X Payments -> Nat]
  /\ lapses \in [Purposes \X Payments -> Nat]

(* A purchase under way: what was checked of its payment still holds. *)
BuyingOK(v) ==
  /\ v.pc \in {"consume", "read", "record"}
  /\ {"pc", "purpose", "payment", "holder", "tier"} \subseteq DOMAIN v
  /\ v.payment \in Payments
  /\ \/ /\ v.purpose = "authz"
        /\ v.holder \in Nullifiers /\ v.tier \in Sold
        /\ Worth[v.payment] >= AccessFee[v.tier]
        /\ OwnershipRequired => v.holder \in SignsFor[v.payment]
        /\ v.pc = "record" => v.existing \in Tiers
     \/ /\ v.purpose = "premium"
        /\ v.pc # "read"
        /\ v.holder = Payer[v.payment]
        /\ FEE_REQUIRED => v.payment \in mined /\ Worth[v.payment] >= PremiumFee

SettlingOK(v) ==
  /\ v.pc \in {"withdraw", "answer", "forward"}
  /\ v.agent \in Agents
  /\ v.amount \in Nat /\ v.amount <= MaxPerTx

RequestsOK ==
  /\ DOMAIN req = Requests
  /\ \A r \in Requests : req[r] = Idle \/ BuyingOK(req[r]) \/ SettlingOK(req[r])

(* v has consumed the key and has not recorded what it bought. *)
Claims(v, key) == v.pc \in {"read", "record"} /\ <<v.purpose, v.payment>> = key

Claimants(q, key) == {r \in Requests : Claims(q[r], key)}

Counted(key) == FEE_REQUIRED \/ key[1] = "authz"

(* A key is consumed once for all that was bought with it and is being bought, *)
(* and once more for every lapse: the strengthening of PaymentBuysOnce.        *)
ClaimsOK ==
  \A key \in Purposes \X Payments :
    Counted(key) =>
      bought[key] + Cardinality(Claimants(req, key)) <= lapses[key] + (IF key \in consumed THEN 1 ELSE 0)

(* What request v is about to count for agent a, if it is at one of these points. *)
Share(v, points, a) == IF v.pc \in points /\ v.agent = a THEN v.amount ELSE 0

Shares(q, points, a) == [r \in Requests |-> Share(q[r], points, a)]

(* What the daily limit does not hold: payments whose answer was lost, and  *)
(* those of the UTXO branch.                                                *)
Beyond(record) == record.lost + record.forwarded

Answering == {"answer"}

Flying == {"withdraw", "answer"}

(* What was spent is counted, lost, forwarded to the UTXO branch, or about to   *)
(* be counted; and, for the requests that the limit holds, what is counted      *)
(* or may be is within the limit and what the other requests were let through   *)
(* with: the strengthening of DailyLimitUpToFlight.                             *)
AccountOK ==
  \A a \in Agents :
    /\ agent[a].spent <= agent[a].dailySpent + Beyond(agent[a]) + Total(Shares(req, Answering, a))
    /\ agent[a].dailySpent + Total(Shares(req, Flying, a))
         <= MaxPerDay + (Cardinality(Requests) - 1) * MaxPerTx

IInv ==
  /\ TypeOK
  /\ BoughtTypes
  /\ RequestsOK
  /\ ClaimsOK
  /\ TierWasPaid
  /\ AccountOK

-----------------------------------------------------------------------------
(* One request moves *)

LEMMA PrimedTotals ==
  ASSUME NEW points, NEW a
  PROVE  Total(Shares(req, points, a))' = Total(Shares(req', points, a))
BY DEF Total, Additive, Shares, Share

LEMMA PrimedClaimants ==
  ASSUME NEW key
  PROVE  Cardinality(Claimants(req, key))' = Cardinality(Claimants(req', key))
BY DEF Claimants, Claims

LEMMA SharesType ==
  ASSUME RequestsOK, NEW points \in {Answering, Flying}, NEW a
  PROVE  Shares(req, points, a) \in [Requests -> Nat]
<1>1. ASSUME NEW r \in Requests PROVE Share(req[r], points, a) \in Nat
  <2>1. req[r] = Idle \/ BuyingOK(req[r]) \/ SettlingOK(req[r])
    BY DEF RequestsOK
  <2>2. points \subseteq {"withdraw", "answer"}
    BY DEF Answering, Flying
  <2> QED
    BY <2>1, <2>2 DEF Share, BuyingOK, SettlingOK, Idle
<1> QED
  BY <1>1 DEF Shares

LEMMA PrimedShares ==
  ASSUME RequestsOK', NEW points \in {Answering, Flying}, NEW a
  PROVE  Shares(req', points, a) \in [Requests -> Nat]
<1>1. ASSUME NEW r \in Requests PROVE Share(req'[r], points, a) \in Nat
  <2>1. req'[r] = Idle \/ BuyingOK(req[r])' \/ SettlingOK(req[r])'
    BY DEF RequestsOK, Idle
  <2>2. points \subseteq {"withdraw", "answer"}
    BY DEF Answering, Flying
  <2> QED
    BY <2>1, <2>2 DEF Share, BuyingOK, SettlingOK, Idle
<1> QED
  BY <1>1 DEF Shares

LEMMA ClaimantsType ==
  ASSUME NEW q, NEW key
  PROVE  IsFiniteSet(Claimants(q, key)) /\ Cardinality(Claimants(q, key)) \in Nat
<1>1. Claimants(q, key) \in SUBSET Requests
  BY DEF Claimants
<1> QED
  BY <1>1, RequestsAssumption, FS_Subset, FS_CardinalityType

LEMMA ClaimantsGrow ==
  ASSUME RequestsOK, NEW r \in Requests, NEW v, req' = [req EXCEPT ![r] = v], NEW key, Claims(v, key)
  PROVE  Claimants(req', key) = Claimants(req, key) \cup {r}
<1>1. \A x \in Requests : req'[x] = IF x = r THEN v ELSE req[x]
  BY DEF RequestsOK
<1> QED
  BY <1>1 DEF Claimants

LEMMA ClaimantsLeave ==
  ASSUME RequestsOK, NEW r \in Requests, NEW v, req' = [req EXCEPT ![r] = v], NEW key, ~Claims(v, key)
  PROVE  Claimants(req', key) = Claimants(req, key) \ {r}
<1>1. \A x \in Requests : req'[x] = IF x = r THEN v ELSE req[x]
  BY DEF RequestsOK
<1> QED
  BY <1>1 DEF Claimants

(* A request that makes no new claim leaves the keys as they are. *)
LEMMA ClaimsShrink ==
  ASSUME IInv, NEW r \in Requests, NEW v, req' = [req EXCEPT ![r] = v],
         \A key \in Purposes \X Payments : Counted(key) /\ Claims(v, key) => Claims(req[r], key),
         UNCHANGED <<bought, lapses, consumed>>
  PROVE  ClaimsOK'
<1>1. ASSUME NEW key \in Purposes \X Payments, Counted(key)
      PROVE  bought[key] + Cardinality(Claimants(req', key)) <= lapses[key] + (IF key \in consumed THEN 1 ELSE 0)
  <2>1. Claimants(req', key) \in SUBSET Claimants(req, key)
    <3>1. \A x \in Requests : req'[x] = IF x = r THEN v ELSE req[x]
      BY DEF IInv, RequestsOK
    <3> QED
      BY <1>1, <3>1 DEF Claimants
  <2>2. Cardinality(Claimants(req', key)) <= Cardinality(Claimants(req, key))
    BY <2>1, ClaimantsType, FS_Subset
  <2>3. bought[key] \in Nat /\ lapses[key] \in Nat
    BY DEF IInv, BoughtTypes
  <2>4. bought[key] + Cardinality(Claimants(req, key)) <= lapses[key] + (IF key \in consumed THEN 1 ELSE 0)
    BY <1>1 DEF IInv, ClaimsOK
  <2> QED
    BY <2>2, <2>3, <2>4, ClaimantsType
<1> QED
  BY <1>1, PrimedClaimants DEF ClaimsOK, Counted

(* A step of one request keeps the accounts if what it adds to an agent's     *)
(* spending it counts, loses or is about to count, and if it counts no more   *)
(* than it was let through with.                                              *)
LEMMA AccountsMove ==
  ASSUME IInv, RequestsOK', TypeOK', NEW r \in Requests, NEW v, req' = [req EXCEPT ![r] = v],
         \A a \in Agents :
           /\ agent'[a].spent + agent[a].dailySpent + Beyond(agent[a]) + Share(req[r], Answering, a)
                <= agent[a].spent + agent'[a].dailySpent + Beyond(agent'[a]) + Share(v, Answering, a)
           /\ agent'[a].dailySpent + Share(v, Flying, a) <= agent[a].dailySpent + Share(req[r], Flying, a)
  PROVE  AccountOK'
<1> SUFFICES ASSUME NEW a \in Agents
             PROVE  /\ agent'[a].spent <= agent'[a].dailySpent + Beyond(agent'[a])
                                            + Total(Shares(req', Answering, a))
                    /\ agent'[a].dailySpent + Total(Shares(req', Flying, a))
                         <= MaxPerDay + (Cardinality(Requests) - 1) * MaxPerTx
  BY PrimedTotals DEF AccountOK
<1>1. PICK x1 \in Nat, x2 \in Nat, x3 \in Nat, y1 \in Nat, y2 \in Nat, y3 \in Nat :
        /\ x1 = agent[a].spent /\ x2 = agent[a].dailySpent /\ x3 = Beyond(agent[a])
        /\ y1 = agent'[a].spent /\ y2 = agent'[a].dailySpent /\ y3 = Beyond(agent'[a])
  <2>1. /\ agent[a].spent \in Nat /\ agent[a].dailySpent \in Nat
        /\ agent[a].lost \in Nat /\ agent[a].forwarded \in Nat
    BY DEF IInv, TypeOK
  <2>2. /\ agent'[a].spent \in Nat /\ agent'[a].dailySpent \in Nat
        /\ agent'[a].lost \in Nat /\ agent'[a].forwarded \in Nat
    BY DEF TypeOK
  <2>3. Beyond(agent[a]) \in Nat /\ Beyond(agent'[a]) \in Nat
    BY <2>1, <2>2 DEF Beyond
  <2> QED
    BY <2>1, <2>2, <2>3
<1>2. PICK s1 \in Nat, s2 \in Nat, t1 \in Nat, t2 \in Nat :
        /\ s1 = Total(Shares(req, Answering, a)) /\ s2 = Total(Shares(req, Flying, a))
        /\ t1 = Total(Shares(req', Answering, a)) /\ t2 = Total(Shares(req', Flying, a))
  <2>1. \A points \in {Answering, Flying} : Shares(req, points, a) \in [Requests -> Nat]
    BY SharesType DEF IInv
  <2>2. \A points \in {Answering, Flying} : Shares(req', points, a) \in [Requests -> Nat]
    BY PrimedShares
  <2> QED
    BY <2>1, <2>2, TotalType
<1>3. PICK o1 \in Nat, o2 \in Nat, n1 \in Nat, n2 \in Nat :
        /\ o1 = Share(req[r], Answering, a) /\ o2 = Share(req[r], Flying, a)
        /\ n1 = Share(v, Answering, a) /\ n2 = Share(v, Flying, a)
  <2>1. \A points \in {Answering, Flying} : Share(req[r], points, a) \in Nat
    BY SharesType DEF IInv, Shares
  <2>2. \A points \in {Answering, Flying} : Share(req'[r], points, a) \in Nat
    BY PrimedShares DEF Shares
  <2>3. req'[r] = v
    BY DEF IInv, RequestsOK
  <2> QED
    BY <2>1, <2>2, <2>3
<1>4. t1 + o1 = s1 + n1 /\ t2 + o2 = s2 + n2
  <2>1. RequestsOK
    BY DEF IInv
  <2>2. ASSUME NEW points \in {Answering, Flying}
        PROVE  Total(Shares(req', points, a)) + Share(req[r], points, a)
                 = Total(Shares(req, points, a)) + Share(v, points, a)
    <3>1. Shares(req, points, a) \in [Requests -> Nat] /\ Shares(req', points, a) \in [Requests -> Nat]
      BY <2>1, SharesType, PrimedShares
    <3>2. /\ Shares(req, points, a)[r] = Share(req[r], points, a)
          /\ Shares(req', points, a)[r] = Share(v, points, a)
          /\ \A x \in Requests \ {r} : Shares(req, points, a)[x] = Shares(req', points, a)[x]
      BY <2>1 DEF Shares, RequestsOK
    <3> QED
      BY <3>1, <3>2, TotalChanges
  <2>3. /\ Total(Shares(req', Answering, a)) + Share(req[r], Answering, a)
             = Total(Shares(req, Answering, a)) + Share(v, Answering, a)
        /\ Total(Shares(req', Flying, a)) + Share(req[r], Flying, a)
             = Total(Shares(req, Flying, a)) + Share(v, Flying, a)
    BY <2>2
  <2> QED
    BY <2>3, <1>2, <1>3
<1>5. x1 <= x2 + x3 + s1 /\ x2 + s2 <= MaxPerDay + (Cardinality(Requests) - 1) * MaxPerTx
  BY <1>1, <1>2 DEF IInv, AccountOK
<1>6. y1 + x2 + x3 + o1 <= x1 + y2 + y3 + n1 /\ y2 + n2 <= x2 + o2
  BY <1>1, <1>3
<1>7. y1 <= y2 + y3 + t1 /\ y2 + t2 <= x2 + s2
  BY <1>4, <1>5, <1>6
<1>8. PICK limit \in Int : limit = MaxPerDay + (Cardinality(Requests) - 1) * MaxPerTx
  <2>1. Cardinality(Requests) \in Nat
    BY RequestsAssumption, FS_CardinalityType
  <2> QED
    BY <2>1, AmountsAssumption
<1>9. y2 + t2 <= limit
  BY <1>5, <1>7, <1>8
<1> QED
  BY <1>1, <1>2, <1>7, <1>8, <1>9

(* A step of one request that is neither before nor after it at a settlement. *)
LEMMA AccountsStay ==
  ASSUME IInv, RequestsOK', TypeOK', NEW r \in Requests, NEW v, req' = [req EXCEPT ![r] = v],
         req[r].pc \notin Flying, v.pc \notin Flying, agent' = agent
  PROVE  AccountOK'
<1>1. \A a \in Agents, points \in {Answering, Flying} :
        Share(req[r], points, a) = 0 /\ Share(v, points, a) = 0
  BY DEF Share, Answering, Flying
<1>2. \A a \in Agents : /\ agent[a].spent \in Nat /\ agent[a].dailySpent \in Nat /\ Beyond(agent[a]) \in Nat
  BY DEF IInv, TypeOK, Beyond
<1>3. \A a \in Agents :
        /\ agent'[a].spent + agent[a].dailySpent + Beyond(agent[a]) + Share(req[r], Answering, a)
             <= agent[a].spent + agent'[a].dailySpent + Beyond(agent'[a]) + Share(v, Answering, a)
        /\ agent'[a].dailySpent + Share(v, Flying, a) <= agent[a].dailySpent + Share(req[r], Flying, a)
  BY <1>1, <1>2
<1> QED
  BY <1>3, AccountsMove

LEMMA RequestsMove ==
  ASSUME RequestsOK, NEW r \in Requests, NEW v, req' = [req EXCEPT ![r] = v], mined' = mined,
         v = Idle \/ BuyingOK(v) \/ SettlingOK(v)
  PROVE  RequestsOK'
<1>1. \A x \in Requests : req'[x] = IF x = r THEN v ELSE req[x]
  BY DEF RequestsOK
<1>2. DOMAIN req' = Requests
  BY DEF RequestsOK
<1>3. ASSUME NEW x \in Requests PROVE (req[x] = Idle \/ BuyingOK(req[x]) \/ SettlingOK(req[x]))'
  <2>1. CASE x = r
    BY <2>1, <1>1 DEF BuyingOK, SettlingOK, Idle
  <2>2. CASE x # r
    BY <2>2, <1>1 DEF RequestsOK, BuyingOK, SettlingOK, Idle
  <2> QED
    BY <2>1, <2>2
<1> QED
  BY <1>2, <1>3 DEF RequestsOK

-----------------------------------------------------------------------------
(* Initially *)

LEMMA InitIInv == Init => IInv
<1> SUFFICES ASSUME Init PROVE IInv
  OBVIOUS
<1>1. \A r \in Requests : req[r] = Idle
  BY DEF Init
<1>2. TypeOK
  <2>1. \A n \in Nullifiers : tier[n] \in Tiers
    BY DEF Init, Tiers
  <2> QED
    BY <1>1, <2>1, BoundsAssumption DEF Init, TypeOK, NoAgent, Idle
<1>3. BoughtTypes /\ RequestsOK /\ TierWasPaid
  BY <1>1 DEF Init, BoughtTypes, RequestsOK, TierWasPaid, Sold
<1>4. ClaimsOK
  <2>1. ASSUME NEW key \in Purposes \X Payments PROVE bought[key] + Cardinality(Claimants(req, key)) = 0
    <3>1. Claimants(req, key) = {}
      BY <1>1 DEF Claimants, Claims, Idle
    <3>2. Cardinality(Claimants(req, key)) = 0
      BY <3>1, FS_EmptySet
    <3>3. bought[key] = 0
      BY DEF Init
    <3> QED
      BY <3>2, <3>3
  <2> QED
    BY <2>1 DEF ClaimsOK, Init
<1>5. AccountOK
  <2> SUFFICES ASSUME NEW a \in Agents
               PROVE  /\ agent[a].spent <= agent[a].dailySpent + Beyond(agent[a]) + Total(Shares(req, Answering, a))
                      /\ agent[a].dailySpent + Total(Shares(req, Flying, a))
                           <= MaxPerDay + (Cardinality(Requests) - 1) * MaxPerTx
    BY DEF AccountOK
  <2>1. agent[a].spent = 0 /\ agent[a].dailySpent = 0 /\ Beyond(agent[a]) = 0
    BY DEF Init, NoAgent, Beyond
  <2>2. PICK r : r \in Requests
    BY RequestsAssumption
  <2>3. \A points \in {Answering, Flying} :
          /\ Shares(req, points, a) \in [Requests -> Nat]
          /\ \A x \in Requests : Shares(req, points, a)[x] = 0
    BY <1>1 DEF Shares, Share, Idle, Answering, Flying
  <2>4. PICK m \in Nat, n \in Nat : m = MaxPerTx /\ n = Cardinality(Requests) - 1
    <3>1. Cardinality(Requests) \in Nat /\ Cardinality(Requests) # 0
      BY RequestsAssumption, FS_CardinalityType, FS_EmptySet
    <3> QED
      BY <3>1, AmountsAssumption
  <2>5. Total(Shares(req, Answering, a)) \in Nat
    BY <2>3, TotalType
  <2>6. Total(Shares(req, Flying, a)) <= 0 + n * m /\ Total(Shares(req, Flying, a)) \in Nat
    <3>1. Shares(req, Flying, a) \in [Requests -> Nat] /\ \A x \in Requests : Shares(req, Flying, a)[x] = 0
      BY <2>3
    <3> QED
      BY <3>1, <2>2, <2>4, TotalBound, TotalType
  <2>7. n * m \in Nat /\ MaxPerDay \in Nat
    BY AmountsAssumption
  <2> QED
    BY <2>1, <2>4, <2>5, <2>6, <2>7
<1> QED
  BY <1>2, <1>3, <1>4, <1>5 DEF IInv

-----------------------------------------------------------------------------
(* A purchase *)

LEMMA IdleRequest ==
  ASSUME RequestsOK, NEW r \in Requests, req[r].pc = "idle"
  PROVE  req[r] = Idle
BY DEF RequestsOK, BuyingOK, SettlingOK

LEMMA BuyingRequest ==
  ASSUME RequestsOK, NEW r \in Requests, req[r].pc \in {"consume", "read", "record"}
  PROVE  BuyingOK(req[r])
BY DEF RequestsOK, SettlingOK, Idle

(* What holds of the rest of the state when the store stays as it is.         *)
LEMMA RestKeeps ==
  ASSUME IInv, RequestsOK', UNCHANGED <<store, history, lapsed>>,
         faults' \in 0 .. MaxFaults,
         agent' \in [Agents -> [registered : BOOLEAN, dailySpent : Nat, dayOver : BOOLEAN, spent : Nat, lost : Nat, forwarded : Nat]]
  PROVE  TypeOK' /\ BoughtTypes' /\ TierWasPaid'
<1>1. BoughtTypes' /\ TierWasPaid'
  BY DEF IInv, BoughtTypes, TierWasPaid, store, history
<1>2. \A r \in Requests : req'[r].pc \in {"consume", "read", "record"} => req'[r].payment \in Payments
  BY DEF RequestsOK, BuyingOK, SettlingOK, Idle
<1> QED
  BY <1>1, <1>2 DEF IInv, TypeOK, store

(* A request goes on with a purchase, or ends one, and records nothing.       *)
LEMMA PurchaseEnds ==
  ASSUME IInv, NEW r \in Requests, NEW v, req' = [req EXCEPT ![r] = v],
         req[r].pc \notin Flying,
         \/ v = Idle
         \/ BuyingOK(v)
         \/ SettlingOK(v) /\ v.pc = "forward",
         \A key \in Purposes \X Payments : Counted(key) /\ Claims(v, key) => Claims(req[r], key),
         UNCHANGED <<store, agent, history, lapsed>>, faults' \in 0 .. MaxFaults
  PROVE  IInv'
<1>1. RequestsOK'
  BY RequestsMove DEF IInv, store
<1>2. ClaimsOK'
  BY ClaimsShrink DEF store, history
<1>3. TypeOK' /\ BoughtTypes' /\ TierWasPaid'
  BY <1>1, RestKeeps DEF IInv, TypeOK
<1>4. AccountOK'
  <2>1. v.pc \notin Flying
    BY DEF Flying, Idle, BuyingOK
  <2> QED
    BY <1>1, <1>3, <2>1, AccountsStay
<1> QED
  BY <1>1, <1>2, <1>3, <1>4 DEF IInv

LEMMA PurchaseMoves ==
  ASSUME IInv, NEW r \in Requests, NEW v, req' = [req EXCEPT ![r] = v],
         req[r].pc \notin Flying,
         \/ v = Idle
         \/ BuyingOK(v)
         \/ SettlingOK(v) /\ v.pc = "forward",
         \A key \in Purposes \X Payments : Counted(key) /\ Claims(v, key) => Claims(req[r], key),
         UNCHANGED <<store, agent, history, lapsed, faults>>
  PROVE  IInv'
<1>1. faults' \in 0 .. MaxFaults /\ UNCHANGED <<store, agent, history, lapsed>>
  BY DEF IInv, TypeOK
<1> QED
  BY <1>1, PurchaseEnds

LEMMA AuthorizeKeeps ==
  ASSUME IInv, NEW r \in Requests, NEW p \in Payments, NEW n \in Nullifiers, NEW t \in Sold,
         Authorize(r, p, n, t)
  PROVE  IInv'
<1>1. PICK v : /\ v = [pc |-> "consume", purpose |-> "authz", payment |-> p, holder |-> n, tier |-> t]
               /\ req' = [req EXCEPT ![r] = v]
  BY DEF Authorize
<1>2. BuyingOK(v)
  BY <1>1 DEF BuyingOK, Authorize, PaysFor
<1>3. req[r].pc \notin Flying /\ ~(v.pc \in {"read", "record"})
  BY <1>1 DEF Authorize, Flying
<1> QED
  BY <1>1, <1>2, <1>3, PurchaseMoves DEF Authorize, Claims

LEMMA UpgradeKeeps ==
  ASSUME IInv, NEW r \in Requests, NEW p \in Payments, Upgrade(r, p)
  PROVE  IInv'
<1>1. PICK v : /\ v = [pc |-> IF FEE_REQUIRED THEN "consume" ELSE "record", purpose |-> "premium",
                       payment |-> p, holder |-> Payer[p], tier |-> "none"]
               /\ req' = [req EXCEPT ![r] = v]
  BY DEF Upgrade
<1>2. BuyingOK(v)
  BY <1>1 DEF BuyingOK, Upgrade
<1>3. req[r].pc \notin Flying
  BY DEF Upgrade, Flying
<1>4. \A key \in Purposes \X Payments : ~(Counted(key) /\ Claims(v, key))
  BY <1>1 DEF Counted, Claims
<1> QED
  BY <1>1, <1>2, <1>3, <1>4, PurchaseMoves DEF Upgrade

(* The first to find the key free takes it, and no other until it lapses.     *)
LEMMA ConsumeKeeps ==
  ASSUME IInv, NEW r \in Requests, Consume(r)
  PROVE  IInv'
<1>1. BuyingOK(req[r]) /\ req[r].pc = "consume" /\ req[r].pc \notin Flying
  BY BuyingRequest DEF IInv, Consume, Flying
<1>2. CASE ~Fresh(Key(r))
  <2>1. req' = [req EXCEPT ![r] = Idle] /\ UNCHANGED <<store, agent, history, lapsed, faults>>
    BY <1>2 DEF Consume, store
  <2>2. \A key : ~Claims(Idle, key)
    BY DEF Claims, Idle
  <2> QED
    BY <1>1, <2>1, <2>2, PurchaseMoves
<1>3. CASE Fresh(Key(r))
  <2>1. PICK v : /\ v = [req[r] EXCEPT !.pc = IF req[r].purpose = "authz" THEN "read" ELSE "record"]
                 /\ req' = [req EXCEPT ![r] = v]
    BY <1>3 DEF Consume
  <2>2. /\ v.purpose = req[r].purpose /\ v.payment = req[r].payment
        /\ v.holder = req[r].holder /\ v.tier = req[r].tier
        /\ v.pc = (IF req[r].purpose = "authz" THEN "read" ELSE "record")
        /\ {"pc", "purpose", "payment", "holder", "tier"} \subseteq DOMAIN v
    BY <1>1, <2>1 DEF BuyingOK
  <2>3. BuyingOK(v)
    BY <1>1, <2>2 DEF BuyingOK
  <2>4. UNCHANGED <<mined, tier, premium, agent, history, lapsed, faults>>
    BY DEF Consume
  <2>5. RequestsOK'
    BY <2>1, <2>3, <2>4, RequestsMove DEF IInv
  <2>6. Key(r) \in Purposes \X Payments /\ consumed' = consumed \cup {Key(r)} /\ Key(r) \notin consumed
    <3>1. req[r].purpose \in Purposes /\ req[r].payment \in Payments
      BY <1>1 DEF BuyingOK, Purposes
    <3> QED
      BY <3>1, <1>3 DEF Consume, Key, Fresh
  <2>7. TypeOK'
    BY <2>4, <2>5, <2>6 DEF IInv, TypeOK, RequestsOK, BuyingOK, SettlingOK, Idle, history
  <2>8. BoughtTypes' /\ TierWasPaid'
    BY <2>4 DEF IInv, BoughtTypes, TierWasPaid, history
  <2>9. AccountOK'
    <3>1. v.pc \notin Flying
      BY <2>2 DEF Flying
    <3> QED
      BY <1>1, <2>1, <2>4, <2>5, <2>7, <3>1, AccountsStay
  <2>10. ASSUME NEW key \in Purposes \X Payments, Counted(key)
         PROVE  bought[key] + Cardinality(Claimants(req', key)) <= lapses[key] + (IF key \in consumed' THEN 1 ELSE 0)
    <3>1. bought[key] \in Nat /\ lapses[key] \in Nat /\ Cardinality(Claimants(req, key)) \in Nat
          /\ IsFiniteSet(Claimants(req, key))
      BY ClaimantsType DEF IInv, BoughtTypes
    <3>2. bought[key] + Cardinality(Claimants(req, key)) <= lapses[key] + (IF key \in consumed THEN 1 ELSE 0)
      BY <2>10 DEF IInv, ClaimsOK
    <3>3. CASE key = Key(r)
      <4>1. Claimants(req', key) = Claimants(req, key) \cup {r}
        <5>1. Claims(v, key)
          BY <2>2, <3>3 DEF Claims, Key
        <5>2. req' = [req EXCEPT ![r] = v]
          BY <2>1
        <5> QED
          BY <5>1, <5>2, ClaimantsGrow DEF IInv
      <4>2. Cardinality(Claimants(req', key)) \in {Cardinality(Claimants(req, key)), Cardinality(Claimants(req, key)) + 1}
        BY <4>1, <3>1, FS_AddElement
      <4> QED
        BY <4>2, <3>1, <3>2, <3>3, <2>6
    <3>4. CASE key # Key(r)
      <4>1. Claimants(req', key) = Claimants(req, key)
        <5>1. ~Claims(v, key) /\ r \notin Claimants(req, key)
          BY <2>2, <3>4, <1>1 DEF Claims, Key, Claimants
        <5>2. Claimants(req', key) = Claimants(req, key) \ {r}
          BY <5>1, <2>1, ClaimantsLeave DEF IInv
        <5> QED
          BY <5>1, <5>2
      <4> QED
        BY <4>1, <3>2, <3>4, <2>6
    <3> QED
      BY <3>3, <3>4
  <2>11. ClaimsOK'
    BY <2>4, <2>10, PrimedClaimants DEF ClaimsOK, Counted, history
  <2> QED
    BY <2>5, <2>7, <2>8, <2>9, <2>11 DEF IInv
<1> QED
  BY <1>2, <1>3

LEMMA ReadKeeps ==
  ASSUME IInv, NEW r \in Requests, Read(r)
  PROVE  IInv'
<1>1. BuyingOK(req[r]) /\ req[r].pc = "read" /\ req[r].pc \notin Flying
  BY BuyingRequest DEF IInv, Read, Flying
<1>2. PICK v : /\ v = [pc |-> "record", purpose |-> "authz", payment |-> req[r].payment,
                       holder |-> req[r].holder, tier |-> req[r].tier, existing |-> tier[req[r].holder]]
               /\ req' = [req EXCEPT ![r] = v]
  BY DEF Read
<1>3. req[r].purpose = "authz" /\ req[r].holder \in Nullifiers
  BY <1>1 DEF BuyingOK
<1>4. tier[req[r].holder] \in Tiers
  BY <1>3 DEF IInv, TypeOK
<1>5. BuyingOK(v)
  BY <1>1, <1>2, <1>3, <1>4 DEF BuyingOK
<1>6. \A key : Claims(v, key) => Claims(req[r], key)
  BY <1>1, <1>2, <1>3 DEF Claims
<1> QED
  BY <1>1, <1>2, <1>5, <1>6, PurchaseMoves DEF Read

(* What is recorded was claimed before.                                       *)
LEMMA RecordKeeps ==
  ASSUME IInv, NEW r \in Requests, Record(r)
  PROVE  IInv'
<1> DEFINE v == req[r]  mine == <<req[r].purpose, req[r].payment>>
<1>1. BuyingOK(v) /\ v.pc = "record" /\ v.pc \notin Flying
  BY BuyingRequest DEF IInv, Record, Flying
<1>2. /\ req' = [req EXCEPT ![r] = Idle]
      /\ bought' = [bought EXCEPT ![mine] = @ + 1]
      /\ grants' = grants \cup {[payment |-> v.payment, holder |-> v.holder, tier |-> v.tier]}
      /\ UNCHANGED <<mined, consumed, agent, lapses, lapsed, faults>>
  BY DEF Record
<1>3. RequestsOK'
  BY <1>2, RequestsMove DEF IInv
<1>4. /\ v.purpose \in Purposes /\ mine \in Purposes \X Payments
      /\ v.purpose = "authz" => v.holder \in Nullifiers /\ v.tier \in Sold
      /\ v.purpose = "premium" => v.holder \in Users
  BY <1>1, PaymentsAssumption DEF BuyingOK, Purposes, Users
<1>5. tier' \in [Nullifiers -> Tiers] /\ premium' \subseteq Users
  <2>1. CASE v.purpose = "premium"
    BY <2>1, <1>4 DEF Record, IInv, TypeOK
  <2>2. CASE v.purpose # "premium"
    BY <2>2, <1>4 DEF Record, IInv, TypeOK, Tiers, Purposes
  <2> QED
    BY <2>1, <2>2
<1>6. TypeOK'
  BY <1>2, <1>3, <1>5 DEF IInv, TypeOK, RequestsOK, BuyingOK, SettlingOK, Idle
<1>7. bought' \in [Purposes \X Payments -> Nat] /\ BoughtTypes'
  BY <1>2, <1>4 DEF IInv, BoughtTypes
<1>8. AccountOK'
  BY <1>1, <1>2, <1>3, <1>6, AccountsStay DEF Idle, Flying
<1>9. TierWasPaid'
  <2>1. ASSUME NEW n \in Nullifiers, tier'[n] \in Sold
        PROVE  \E g \in grants' : /\ g.holder = n /\ g.tier = tier'[n]
                                  /\ Worth[g.payment] >= AccessFee[tier'[n]]
                                  /\ OwnershipRequired => n \in SignsFor[g.payment]
    <3>1. CASE tier'[n] = tier[n]
      <4>1. PICK g \in grants : /\ g.holder = n /\ g.tier = tier[n]
                                /\ Worth[g.payment] >= AccessFee[tier[n]]
                                /\ OwnershipRequired => n \in SignsFor[g.payment]
        BY <2>1, <3>1 DEF IInv, TierWasPaid
      <4> QED
        BY <4>1, <3>1, <1>2
    <3>2. CASE tier'[n] # tier[n]
      <4>1. v.purpose # "premium" /\ n = v.holder /\ tier'[n] = v.tier
        BY <3>2 DEF Record, IInv, TypeOK
      <4>2. /\ Worth[v.payment] >= AccessFee[v.tier]
            /\ OwnershipRequired => v.holder \in SignsFor[v.payment]
        BY <4>1, <1>1 DEF BuyingOK
      <4>3. PICK g : g = [payment |-> v.payment, holder |-> v.holder, tier |-> v.tier]
        OBVIOUS
      <4>4. g \in grants' /\ g.payment = v.payment /\ g.holder = v.holder /\ g.tier = v.tier
        BY <4>3, <1>2
      <4> QED
        BY <4>1, <4>2, <4>4
    <3> QED
      BY <3>1, <3>2
  <2>2. ASSUME NEW user \in premium', FEE_REQUIRED
        PROVE  \E p \in mined' : Payer[p] = user /\ Worth[p] >= PremiumFee
    <3>1. CASE user \in premium
      BY <3>1, <2>2, <1>2 DEF IInv, TierWasPaid
    <3>2. CASE user \notin premium
      <4>1. v.purpose = "premium" /\ user = v.holder
        BY <3>2, <2>2 DEF Record
      <4>2. v.payment \in mined /\ Worth[v.payment] >= PremiumFee /\ user = Payer[v.payment]
        BY <4>1, <1>1, <2>2 DEF BuyingOK
      <4> QED
        BY <4>2, <1>2
    <3> QED
      BY <3>1, <3>2
  <2> QED
    BY <2>1, <2>2 DEF TierWasPaid
<1>10. ASSUME NEW key \in Purposes \X Payments, Counted(key)
       PROVE  bought'[key] + Cardinality(Claimants(req', key)) <= lapses[key] + (IF key \in consumed THEN 1 ELSE 0)
  <2>1. /\ bought[key] \in Nat /\ lapses[key] \in Nat /\ Cardinality(Claimants(req, key)) \in Nat
        /\ IsFiniteSet(Claimants(req, key))
    BY ClaimantsType DEF IInv, BoughtTypes
  <2>2. bought[key] + Cardinality(Claimants(req, key)) <= lapses[key] + (IF key \in consumed THEN 1 ELSE 0)
    BY <1>10 DEF IInv, ClaimsOK
  <2>3. Claimants(req', key) = Claimants(req, key) \ {r}
    <3>1. ~Claims(Idle, key)
      BY DEF Claims, Idle
    <3> QED
      BY <3>1, <1>2, ClaimantsLeave DEF IInv
  <2>4. CASE key = mine
    <3>1. r \in Claimants(req, key)
      BY <2>4, <1>1 DEF Claimants, Claims
    <3>2. Cardinality(Claimants(req, key) \ {r}) = Cardinality(Claimants(req, key)) - 1
      BY <2>1, <3>1, FS_RemoveElement
    <3>3. bought'[key] = bought[key] + 1
      BY <2>4, <1>2 DEF IInv, BoughtTypes
    <3> QED
      BY <2>1, <2>2, <2>3, <3>2, <3>3
  <2>5. CASE key # mine
    <3>1. r \notin Claimants(req, key)
      BY <2>5 DEF Claimants, Claims
    <3>2. Claimants(req', key) = Claimants(req, key)
      BY <2>3, <3>1
    <3>3. bought'[key] = bought[key]
      BY <2>5, <1>2 DEF IInv, BoughtTypes
    <3> QED
      BY <2>2, <3>2, <3>3
  <2> QED
    BY <2>4, <2>5
<1>11. ClaimsOK'
  BY <1>2, <1>10, PrimedClaimants DEF ClaimsOK, Counted
<1> QED
  BY <1>3, <1>6, <1>7, <1>8, <1>9, <1>11 DEF IInv

-----------------------------------------------------------------------------
(* Time *)

(* A lapsed key may be consumed once more, and that is counted.               *)
LEMMA LapseKeeps ==
  ASSUME IInv, Lapse
  PROVE  IInv'
<1>1. UNCHANGED <<mined, agent, req, bought, grants, faults>>
  BY DEF Lapse, LapseConsumed, LapseTier, LapsePremium, history
<1>2. lapsed' \in 0 .. MaxLapses
  BY BoundsAssumption DEF Lapse, IInv, TypeOK
<1>3. RequestsOK' /\ AccountOK'
  <2>1. RequestsOK'
    BY <1>1 DEF IInv, RequestsOK, BuyingOK, SettlingOK, Idle
  <2>2. AccountOK'
    BY <1>1, PrimedTotals DEF IInv, AccountOK
  <2> QED
    BY <2>1, <2>2
<1>4. CASE \E key \in consumed : LapseConsumed(key)
  <2>1. PICK lost \in consumed : LapseConsumed(lost)
    BY <1>4
  <2>2. /\ consumed' = consumed \ {lost} /\ lapses' = [lapses EXCEPT ![lost] = @ + 1]
        /\ UNCHANGED <<tier, premium>>
    BY <2>1 DEF LapseConsumed
  <2>3. lost \in Purposes \X Payments
    BY <2>1 DEF IInv, TypeOK
  <2>4. lapses' \in [Purposes \X Payments -> Nat] /\ BoughtTypes'
    BY <1>1, <2>2, <2>3 DEF IInv, BoughtTypes
  <2>5. TypeOK' /\ TierWasPaid'
    BY <1>1, <1>2, <2>2 DEF IInv, TypeOK, TierWasPaid
  <2>6. ASSUME NEW key \in Purposes \X Payments, Counted(key)
        PROVE  bought[key] + Cardinality(Claimants(req, key)) <= lapses'[key] + (IF key \in consumed' THEN 1 ELSE 0)
    <3>1. bought[key] \in Nat /\ lapses[key] \in Nat /\ Cardinality(Claimants(req, key)) \in Nat
      BY ClaimantsType DEF IInv, BoughtTypes
    <3>2. bought[key] + Cardinality(Claimants(req, key)) <= lapses[key] + (IF key \in consumed THEN 1 ELSE 0)
      BY <2>6 DEF IInv, ClaimsOK
    <3>3. CASE key = lost
      <4>1. lapses'[key] = lapses[key] + 1
        BY <3>3, <2>2 DEF IInv, BoughtTypes
      <4> QED
        BY <4>1, <3>1, <3>2, <3>3, <2>2
    <3>4. CASE key # lost
      <4>1. lapses'[key] = lapses[key]
        BY <3>4, <2>2 DEF IInv, BoughtTypes
      <4> QED
        BY <4>1, <3>2, <3>4, <2>2
    <3> QED
      BY <3>3, <3>4
  <2>7. ClaimsOK'
    BY <1>1, <2>6, PrimedClaimants DEF ClaimsOK, Counted
  <2> QED
    BY <1>3, <2>4, <2>5, <2>7 DEF IInv
<1>5. CASE \E n \in Nullifiers : LapseTier(n)
  <2>1. PICK n \in Nullifiers : LapseTier(n)
    BY <1>5
  <2>2. /\ tier' = [tier EXCEPT ![n] = "none"]
        /\ UNCHANGED <<consumed, premium, lapses>>
    BY <2>1 DEF LapseTier, history
  <2>3. tier' \in [Nullifiers -> Tiers] /\ \A m \in Nullifiers : tier'[m] \in Sold => tier'[m] = tier[m]
    BY <2>2 DEF IInv, TypeOK, Tiers, Sold
  <2>4. TypeOK' /\ BoughtTypes' /\ TierWasPaid'
    BY <1>1, <1>2, <2>2, <2>3 DEF IInv, TypeOK, BoughtTypes, TierWasPaid
  <2>5. ClaimsOK'
    BY <1>1, <2>2, PrimedClaimants DEF IInv, ClaimsOK, Counted
  <2> QED
    BY <1>3, <2>4, <2>5 DEF IInv
<1>6. CASE \E user \in Users : LapsePremium(user)
  <2>1. UNCHANGED <<consumed, tier, lapses>> /\ premium' \subseteq premium
    BY <1>6 DEF LapsePremium, history
  <2>2. TypeOK' /\ BoughtTypes' /\ TierWasPaid'
    BY <1>1, <1>2, <2>1 DEF IInv, TypeOK, BoughtTypes, TierWasPaid
  <2>3. ClaimsOK'
    BY <1>1, <2>1, PrimedClaimants DEF IInv, ClaimsOK, Counted
  <2> QED
    BY <1>3, <2>2, <2>3 DEF IInv
<1> QED
  BY <1>4, <1>5, <1>6 DEF Lapse

-----------------------------------------------------------------------------
(* Agents *)

AgentRecord == [registered : BOOLEAN, dailySpent : Nat, dayOver : BOOLEAN, spent : Nat, lost : Nat, forwarded : Nat]

(* A record that replaces an agent's counts no more, and forgets what was     *)
(* spent or leaves it as it is.                                               *)
Succeeds(new, old) ==
  /\ new \in AgentRecord
  /\ new.dailySpent <= old.dailySpent
  /\ \/ new.spent = 0
     \/ new.spent = old.spent /\ Beyond(new) = Beyond(old) /\ new.dailySpent = old.dailySpent

LEMMA NewAgentRecord == NewAgent \in AgentRecord /\ NewAgent.dailySpent = 0 /\ NewAgent.spent = 0
<1>1. NoAgent \in AgentRecord /\ NoAgent.dailySpent = 0 /\ NoAgent.spent = 0
  BY DEF NoAgent, AgentRecord
<1> QED
  BY <1>1 DEF NewAgent, AgentRecord

LEMMA RolledSucceeds ==
  ASSUME NEW old \in AgentRecord
  PROVE  Succeeds(Rolled(old), old)
<1>1. CASE old.dayOver
  <2>1. Rolled(old) = NewAgent
    BY <1>1 DEF Rolled
  <2>2. 0 <= old.dailySpent
    BY DEF AgentRecord
  <2> QED
    BY <2>1, <2>2, NewAgentRecord DEF Succeeds
<1>2. CASE ~old.dayOver
  <2>1. Rolled(old) = old /\ old.dailySpent \in Nat
    BY <1>2 DEF Rolled, AgentRecord
  <2> QED
    BY <2>1 DEF Succeeds
<1> QED
  BY <1>1, <1>2

LEMMA AgentMoves ==
  ASSUME IInv, NEW a \in Agents, NEW new, Succeeds(new, agent[a]), agent' = [agent EXCEPT ![a] = new],
         UNCHANGED <<store, req, history, lapsed, faults>>
  PROVE  IInv'
<1>1. RequestsOK'
  BY DEF IInv, RequestsOK, BuyingOK, SettlingOK, Idle, store
<1>2. agent' \in [Agents -> AgentRecord]
  BY DEF IInv, TypeOK, Succeeds, AgentRecord
<1>3. TypeOK' /\ BoughtTypes' /\ TierWasPaid'
  BY <1>1, <1>2, RestKeeps DEF IInv, TypeOK, AgentRecord
<1>4. ClaimsOK'
  BY PrimedClaimants DEF IInv, ClaimsOK, Counted, store, history
<1>5. ASSUME NEW b \in Agents
      PROVE  /\ agent'[b].spent <= agent'[b].dailySpent + Beyond(agent'[b]) + Total(Shares(req, Answering, b))
             /\ agent'[b].dailySpent + Total(Shares(req, Flying, b))
                  <= MaxPerDay + (Cardinality(Requests) - 1) * MaxPerTx
  <2>1. /\ agent[b].spent <= agent[b].dailySpent + Beyond(agent[b]) + Total(Shares(req, Answering, b))
        /\ agent[b].dailySpent + Total(Shares(req, Flying, b))
             <= MaxPerDay + (Cardinality(Requests) - 1) * MaxPerTx
    BY DEF IInv, AccountOK
  <2>2. CASE b # a
    BY <2>1, <2>2 DEF IInv, TypeOK
  <2>3. CASE b = a
    <3>1. agent'[b] = new
      BY <2>3 DEF IInv, TypeOK
    <3>2. /\ new.dailySpent \in Nat /\ new.spent \in Nat /\ Beyond(new) \in Nat
          /\ agent[b].dailySpent \in Nat /\ agent[b].spent \in Nat /\ Beyond(agent[b]) \in Nat
      BY <2>3 DEF Succeeds, AgentRecord, IInv, TypeOK, Beyond
    <3>3. Total(Shares(req, Answering, b)) \in Nat /\ Total(Shares(req, Flying, b)) \in Nat
      <4>1. Shares(req, Answering, b) \in [Requests -> Nat] /\ Shares(req, Flying, b) \in [Requests -> Nat]
        BY SharesType DEF IInv
      <4> QED
        BY <4>1, TotalType
    <3>4. PICK limit \in Int : limit = MaxPerDay + (Cardinality(Requests) - 1) * MaxPerTx
      <4>1. Cardinality(Requests) \in Nat
        BY RequestsAssumption, FS_CardinalityType
      <4> QED
        BY <4>1, AmountsAssumption
    <3>5. new.spent <= new.dailySpent + Beyond(new) + Total(Shares(req, Answering, b))
      BY <2>1, <2>3, <3>2, <3>3 DEF Succeeds
    <3>6. new.dailySpent + Total(Shares(req, Flying, b)) <= limit
      BY <2>1, <2>3, <3>2, <3>3, <3>4 DEF Succeeds
    <3> QED
      BY <3>1, <3>4, <3>5, <3>6
  <2> QED
    BY <2>2, <2>3
<1>6. AccountOK'
  BY <1>5, PrimedTotals DEF AccountOK
<1> QED
  BY <1>1, <1>3, <1>4, <1>6 DEF IInv

LEMMA AgentKeeps ==
  ASSUME IInv, NEW a \in Agents, RegisterAgent(a) \/ Look(a) \/ DayOver(a)
  PROVE  IInv'
<1>1. agent[a] \in AgentRecord
  BY DEF IInv, TypeOK, AgentRecord
<1>2. CASE RegisterAgent(a)
  <2>1. Succeeds(NewAgent, agent[a])
    <3>1. 0 <= agent[a].dailySpent
      BY <1>1 DEF AgentRecord
    <3> QED
      BY <3>1, NewAgentRecord DEF Succeeds
  <2> QED
    BY <2>1, <1>2, AgentMoves DEF RegisterAgent
<1>3. CASE Look(a)
  <2>1. agent' = [agent EXCEPT ![a] = Rolled(agent[a])]
    BY <1>3 DEF Look
  <2> QED
    BY <2>1, <1>1, <1>3, RolledSucceeds, AgentMoves DEF Look
<1>4. CASE DayOver(a)
  <2>1. PICK new : new = [agent[a] EXCEPT !.dayOver = TRUE]
    OBVIOUS
  <2>2. Succeeds(new, agent[a])
    <3>1. /\ new \in AgentRecord /\ new.spent = agent[a].spent /\ Beyond(new) = Beyond(agent[a])
          /\ new.dailySpent = agent[a].dailySpent /\ new.dailySpent \in Nat
      BY <1>1, <2>1 DEF AgentRecord, Beyond
    <3> QED
      BY <3>1 DEF Succeeds
  <2>3. agent' = [agent EXCEPT ![a] = new]
    BY <1>4, <2>1 DEF DayOver
  <2>4. UNCHANGED <<store, req, history, lapsed, faults>>
    BY <1>4 DEF DayOver
  <2> QED
    BY <2>2, <2>3, <2>4, AgentMoves
<1> QED
  BY <1>2, <1>3, <1>4

-----------------------------------------------------------------------------
(* A settlement *)

(* The limit is looked at when the request is let through; the others that    *)
(* are on their way are at most all other requests.                           *)
LEMMA SettleKeeps ==
  ASSUME IInv, NEW r \in Requests, NEW n \in Nullifiers, NEW payee \in Payees, NEW a \in Agents,
         NEW amount \in Amounts, Settle(r, n, payee, a, amount)
  PROVE  IInv'
<1>1. PICK new, v :
        /\ new = Rolled(agent[a]) /\ agent' = [agent EXCEPT ![a] = new]
        /\ v.pc = "withdraw" /\ v.agent = a /\ v.amount = amount
        /\ req' = [req EXCEPT ![r] = v]
  <2> DEFINE w == [pc |-> "withdraw", nullifier |-> n, agent |-> a, amount |-> amount,
                   quoted |-> EffectiveTier(ProviderTier[payee], tier[n])]
  <2>1. w.pc = "withdraw" /\ w.agent = a /\ w.amount = amount
    OBVIOUS
  <2>2. req' = [req EXCEPT ![r] = w] /\ agent' = [agent EXCEPT ![a] = Rolled(agent[a])]
    BY DEF Settle
  <2> HIDE DEF w
  <2> QED
    BY <2>1, <2>2
<1>2. amount \in Nat /\ amount <= MaxPerTx /\ new.dailySpent + amount <= MaxPerDay
  BY <1>1, AmountsAssumption DEF Settle, WithinLimits
<1>3. req[r] = Idle /\ UNCHANGED <<store, history, lapsed, faults>>
  BY IdleRequest DEF IInv, Settle
<1>4. SettlingOK(v)
  BY <1>1, <1>2 DEF SettlingOK
<1>5. RequestsOK'
  BY <1>1, <1>3, <1>4, RequestsMove DEF IInv, store
<1>6. Succeeds(new, agent[a])
  BY <1>1, RolledSucceeds DEF IInv, TypeOK, AgentRecord
<1>7. agent' \in [Agents -> AgentRecord]
  BY <1>1, <1>6 DEF IInv, TypeOK, Succeeds, AgentRecord
<1>8. TypeOK' /\ BoughtTypes' /\ TierWasPaid'
  BY <1>3, <1>5, <1>7, RestKeeps DEF IInv, TypeOK, AgentRecord
<1>9. ClaimsOK'
  <2>1. \A key : ~Claims(v, key)
    BY <1>1 DEF Claims
  <2> QED
    BY <1>1, <1>3, <2>1, ClaimsShrink DEF store, history
<1>10. ASSUME NEW b \in Agents
       PROVE  /\ agent'[b].spent <= agent'[b].dailySpent + Beyond(agent'[b]) + Total(Shares(req', Answering, b))
              /\ agent'[b].dailySpent + Total(Shares(req', Flying, b))
                   <= MaxPerDay + (Cardinality(Requests) - 1) * MaxPerTx
  <2>1. /\ agent[b].spent <= agent[b].dailySpent + Beyond(agent[b]) + Total(Shares(req, Answering, b))
        /\ agent[b].dailySpent + Total(Shares(req, Flying, b))
             <= MaxPerDay + (Cardinality(Requests) - 1) * MaxPerTx
    BY DEF IInv, AccountOK
  <2>2. \A x \in Requests : req'[x] = IF x = r THEN v ELSE req[x]
    BY <1>1 DEF IInv, RequestsOK
  <2>3. Shares(req', Answering, b) = Shares(req, Answering, b)
    BY <2>2, <1>1, <1>3 DEF Shares, Share, Answering, Idle
  <2>4. CASE b # a
    <3>1. agent'[b] = agent[b]
      BY <2>4, <1>1 DEF IInv, TypeOK
    <3>2. Shares(req', Flying, b) = Shares(req, Flying, b)
      BY <2>2, <2>4, <1>1, <1>3 DEF Shares, Share, Flying, Idle
    <3> QED
      BY <2>1, <2>3, <3>1, <3>2
  <2>5. CASE b = a
    <3>1. agent'[b] = new
      BY <2>5, <1>1 DEF IInv, TypeOK
    <3>2. /\ new.dailySpent \in Nat /\ new.spent \in Nat /\ Beyond(new) \in Nat
          /\ agent[b].dailySpent \in Nat /\ agent[b].spent \in Nat /\ Beyond(agent[b]) \in Nat
      BY <2>5, <1>6 DEF Succeeds, AgentRecord, IInv, TypeOK, Beyond
    <3>3. Total(Shares(req, Answering, b)) \in Nat
      <4>1. Shares(req, Answering, b) \in [Requests -> Nat]
        BY SharesType DEF IInv
      <4> QED
        BY <4>1, TotalType
    <3>4. new.spent <= new.dailySpent + Beyond(new) + Total(Shares(req, Answering, b))
      BY <2>1, <2>5, <1>6, <3>2, <3>3 DEF Succeeds
    <3>5. /\ Shares(req', Flying, b) \in [Requests -> Nat]
          /\ Shares(req', Flying, b)[r] = amount
      BY <2>2, <2>5, <1>1, <1>5, PrimedShares DEF Shares, Share, Flying
    <3>6. ASSUME NEW x \in Requests PROVE Shares(req', Flying, b)[x] <= MaxPerTx
      <4>1. req'[x] = Idle \/ BuyingOK(req[x])' \/ SettlingOK(req[x])'
        BY <1>5 DEF RequestsOK, Idle
      <4> QED
        BY <4>1, AmountsAssumption DEF Shares, Share, Flying, BuyingOK, SettlingOK, Idle
    <3>7. PICK others \in Int : others = (Cardinality(Requests) - 1) * MaxPerTx
      <4>1. Cardinality(Requests) \in Nat
        BY RequestsAssumption, FS_CardinalityType
      <4> QED
        BY <4>1, AmountsAssumption
    <3>8. Total(Shares(req', Flying, b)) <= amount + others /\ Total(Shares(req', Flying, b)) \in Nat
      <4>1. MaxPerTx \in Nat
        BY AmountsAssumption
      <4> QED
        BY <4>1, <3>5, <3>6, <3>7, TotalBound, TotalType
    <3>9. new.dailySpent + Total(Shares(req', Flying, b)) <= MaxPerDay + others
      BY <1>2, <3>2, <3>8, AmountsAssumption
    <3> QED
      BY <2>3, <3>1, <3>4, <3>7, <3>9
  <2> QED
    BY <2>4, <2>5
<1>11. AccountOK'
  BY <1>10, PrimedTotals DEF AccountOK
<1> QED
  BY <1>5, <1>8, <1>9, <1>11 DEF IInv

(* A settling request goes on or ends: its amount is spent, counted or lost.  *)
LEMMA SettlingMoves ==
  ASSUME IInv, NEW r \in Requests, NEW v, req' = [req EXCEPT ![r] = v],
         SettlingOK(req[r]), v = Idle \/ SettlingOK(v),
         NEW new, agent' = [agent EXCEPT ![req[r].agent] = new], new \in AgentRecord,
         LET a == req[r].agent  old == agent[a] IN
           /\ new.spent + old.dailySpent + Beyond(old) + Share(req[r], Answering, a)
                <= old.spent + new.dailySpent + Beyond(new) + Share(v, Answering, a)
           /\ new.dailySpent + Share(v, Flying, a) <= old.dailySpent + Share(req[r], Flying, a),
         v # Idle => v.agent = req[r].agent,
         UNCHANGED <<store, history, lapsed>>, faults' \in 0 .. MaxFaults
  PROVE  IInv'
<1>1. RequestsOK'
  BY RequestsMove DEF IInv, store
<1>2. req[r].agent \in Agents
  BY DEF SettlingOK
<1>3. agent' \in [Agents -> AgentRecord]
  BY <1>2 DEF IInv, TypeOK, AgentRecord
<1>4. TypeOK' /\ BoughtTypes' /\ TierWasPaid'
  BY <1>1, <1>3, RestKeeps DEF AgentRecord
<1>5. ClaimsOK'
  <2>1. \A key : ~Claims(v, key)
    BY DEF Claims, Idle, SettlingOK
  <2> QED
    BY <2>1, ClaimsShrink DEF store, history
<1>6. ASSUME NEW b \in Agents
      PROVE  /\ agent'[b].spent + agent[b].dailySpent + Beyond(agent[b]) + Share(req[r], Answering, b)
                  <= agent[b].spent + agent'[b].dailySpent + Beyond(agent'[b]) + Share(v, Answering, b)
             /\ agent'[b].dailySpent + Share(v, Flying, b) <= agent[b].dailySpent + Share(req[r], Flying, b)
  <2>1. CASE b = req[r].agent
    <3>1. agent'[b] = new
      BY <2>1, <1>2 DEF IInv, TypeOK
    <3> QED
      BY <2>1, <3>1
  <2>2. CASE b # req[r].agent
    <3>1. agent'[b] = agent[b]
      BY <2>2, <1>2 DEF IInv, TypeOK
    <3>2. Share(req[r], Answering, b) = 0 /\ Share(req[r], Flying, b) = 0
      BY <2>2 DEF Share
    <3>3. Share(v, Answering, b) = 0 /\ Share(v, Flying, b) = 0
      BY <2>2 DEF Share, Idle, Answering, Flying
    <3>4. agent[b].spent \in Nat /\ agent[b].dailySpent \in Nat /\ Beyond(agent[b]) \in Nat
      BY DEF IInv, TypeOK, Beyond
    <3> QED
      BY <3>1, <3>2, <3>3, <3>4
  <2> QED
    BY <2>1, <2>2
<1>7. AccountOK'
  BY <1>1, <1>4, <1>6, AccountsMove
<1> QED
  BY <1>1, <1>4, <1>5, <1>7 DEF IInv

LEMMA SettlingRequest ==
  ASSUME RequestsOK, NEW r \in Requests, req[r].pc \in {"withdraw", "answer", "forward"}
  PROVE  SettlingOK(req[r])
BY DEF RequestsOK, BuyingOK, Idle

LEMMA WithdrawKeeps ==
  ASSUME IInv, NEW r \in Requests, Withdraw(r)
  PROVE  IInv'
<1>1. SettlingOK(req[r]) /\ req[r].pc = "withdraw"
  BY SettlingRequest DEF IInv, Withdraw
<1>2. PICK a, old, m : a = req[r].agent /\ old = agent[a] /\ m = req[r].amount
  OBVIOUS
<1>3. a \in Agents /\ m \in Nat /\ m <= MaxPerTx /\ old \in AgentRecord
  BY <1>1, <1>2 DEF SettlingOK, IInv, TypeOK, AgentRecord
<1>4. PICK v : /\ v = [pc |-> "answer", agent |-> req[r].agent, amount |-> req[r].amount,
                       quoted |-> req[r].quoted, charged |-> ChargedTier(r)]
               /\ req' = [req EXCEPT ![r] = v]
  BY DEF Withdraw
<1>5. v.pc = "answer" /\ v.agent = a /\ v.amount = m
  BY <1>2, <1>4
<1>6. PICK new : new = [old EXCEPT !.spent = @ + m]
  OBVIOUS
<1>7. /\ new \in AgentRecord /\ new.spent = old.spent + m
      /\ new.dailySpent = old.dailySpent /\ Beyond(new) = Beyond(old)
  BY <1>3, <1>6 DEF AgentRecord, Beyond
<1>8. agent' = [agent EXCEPT ![req[r].agent] = new]
  BY <1>2, <1>6 DEF Withdraw
<1>9. /\ Share(req[r], Answering, a) = 0 /\ Share(req[r], Flying, a) = m
      /\ Share(v, Answering, a) = m /\ Share(v, Flying, a) = m
  BY <1>1, <1>2, <1>5 DEF Share, Answering, Flying
<1>10. old.spent \in Nat /\ old.dailySpent \in Nat /\ Beyond(old) \in Nat
  BY <1>3 DEF AgentRecord, Beyond
<1>11. /\ new.spent + old.dailySpent + Beyond(old) + Share(req[r], Answering, a)
             <= old.spent + new.dailySpent + Beyond(new) + Share(v, Answering, a)
       /\ new.dailySpent + Share(v, Flying, a) <= old.dailySpent + Share(req[r], Flying, a)
  BY <1>3, <1>7, <1>9, <1>10
<1>12. SettlingOK(v) /\ v.agent = req[r].agent /\ req' = [req EXCEPT ![r] = v]
  BY <1>2, <1>3, <1>4, <1>5 DEF SettlingOK
<1>13. UNCHANGED <<store, history, lapsed>> /\ faults' \in 0 .. MaxFaults
  BY DEF Withdraw, IInv, TypeOK
<1> QED
  BY <1>1, <1>2, <1>7, <1>8, <1>11, <1>12, <1>13, SettlingMoves

(* What the end of a settlement of m leaves of the account old.               *)
Settled(new, old, m, pc) ==
  \/ /\ pc \in {"withdraw", "forward"}
     /\ new.spent = old.spent /\ new.dailySpent = old.dailySpent /\ Beyond(new) = Beyond(old)
  \/ /\ pc \in {"withdraw", "forward"}
     /\ new.spent = old.spent + m /\ new.dailySpent = old.dailySpent /\ Beyond(new) = Beyond(old) + m
  \/ /\ pc = "answer"
     /\ new.spent = old.spent /\ new.dailySpent = old.dailySpent + m /\ Beyond(new) = Beyond(old)
  \/ /\ pc = "answer"
     /\ new.spent = old.spent /\ new.dailySpent = old.dailySpent /\ Beyond(new) = Beyond(old) + m

(* A settlement ends, and what it spent is counted, lost or forwarded.        *)
LEMMA SettlementEnds ==
  ASSUME IInv, NEW r \in Requests, SettlingOK(req[r]), req' = [req EXCEPT ![r] = Idle],
         NEW a, a = req[r].agent, NEW old, old = agent[a], NEW m, m = req[r].amount,
         NEW new, agent' = [agent EXCEPT ![a] = new], new \in AgentRecord,
         Settled(new, old, m, req[r].pc),
         UNCHANGED <<store, history, lapsed>>, faults' \in 0 .. MaxFaults
  PROVE  IInv'
<1>1. a \in Agents /\ m \in Nat /\ old \in AgentRecord
  BY DEF SettlingOK, IInv, TypeOK, AgentRecord
<1>2. old.spent \in Nat /\ old.dailySpent \in Nat /\ Beyond(old) \in Nat
  BY <1>1 DEF AgentRecord, Beyond
<1>3. /\ Share(req[r], Answering, a) = IF req[r].pc = "answer" THEN m ELSE 0
      /\ Share(req[r], Flying, a) = IF req[r].pc = "forward" THEN 0 ELSE m
      /\ Share(Idle, Answering, a) = 0 /\ Share(Idle, Flying, a) = 0
  BY DEF Share, Answering, Flying, Idle, SettlingOK
<1>4. /\ new.spent + old.dailySpent + Beyond(old) + Share(req[r], Answering, a)
            <= old.spent + new.dailySpent + Beyond(new) + Share(Idle, Answering, a)
      /\ new.dailySpent + Share(Idle, Flying, a) <= old.dailySpent + Share(req[r], Flying, a)
  BY <1>1, <1>2, <1>3 DEF Settled
<1> QED
  BY <1>4, SettlingMoves

LEMMA ForwardingAdds ==
  ASSUME NEW old \in AgentRecord, NEW m \in Nat, NEW new, new = Forwarding(old, m)
  PROVE  /\ new \in AgentRecord /\ new.spent = old.spent + m
         /\ new.dailySpent = old.dailySpent /\ Beyond(new) = Beyond(old) + m
<1>1. PICK mid : mid = [old EXCEPT !.spent = @ + m]
  OBVIOUS
<1>2. /\ mid \in AgentRecord /\ mid.spent = old.spent + m /\ mid.dailySpent = old.dailySpent
      /\ mid.lost = old.lost /\ mid.forwarded = old.forwarded
  BY <1>1 DEF AgentRecord
<1>3. new = [mid EXCEPT !.forwarded = @ + m]
  BY <1>1 DEF Forwarding
<1>4. /\ new \in AgentRecord /\ new.spent = mid.spent /\ new.dailySpent = mid.dailySpent
      /\ new.lost = mid.lost /\ new.forwarded = mid.forwarded + m
  BY <1>2, <1>3 DEF AgentRecord
<1>5. old.lost \in Nat /\ old.forwarded \in Nat
  BY DEF AgentRecord
<1> QED
  BY <1>2, <1>4, <1>5 DEF Beyond

LEMMA SettleUtxoKeeps ==
  ASSUME IInv, NEW r \in Requests, NEW n \in Nullifiers, NEW a \in Agents, NEW amount \in Amounts,
         SettleUtxo(r, n, a, amount)
  PROVE  IInv'
<1>1. PICK v : v = [pc |-> "forward", agent |-> a, amount |-> amount] /\ req' = [req EXCEPT ![r] = v]
  BY DEF SettleUtxo
<1>2. SettlingOK(v) /\ v.pc = "forward"
  BY <1>1, AmountsAssumption DEF SettlingOK, SettleUtxo
<1>3. req[r].pc \notin Flying /\ UNCHANGED <<store, agent, history, lapsed, faults>>
  BY DEF SettleUtxo, Flying
<1>4. \A key : ~Claims(v, key)
  BY <1>2 DEF Claims
<1> QED
  BY <1>1, <1>2, <1>3, <1>4, PurchaseMoves

(* What goes through the UTXO branch is beyond the limit, and said to be.     *)
LEMMA ForwardKeeps ==
  ASSUME IInv, NEW r \in Requests, req[r].pc = "forward", req' = [req EXCEPT ![r] = Idle],
         agent' = [agent EXCEPT ![req[r].agent] = Forwarding(@, req[r].amount)],
         UNCHANGED <<store, history, lapsed>>, faults' \in 0 .. MaxFaults
  PROVE  IInv'
<1>1. SettlingOK(req[r])
  BY SettlingRequest DEF IInv
<1>2. PICK a, old, m : a = req[r].agent /\ old = agent[a] /\ m = req[r].amount
  OBVIOUS
<1> DEFINE new == Forwarding(old, m)
<1>3. a \in Agents /\ m \in Nat /\ old \in AgentRecord
  BY <1>1, <1>2 DEF SettlingOK, IInv, TypeOK, AgentRecord
<1>4. agent' = [agent EXCEPT ![a] = new]
  BY <1>2, Zenon
<1>5. new \in AgentRecord /\ Settled(new, old, m, req[r].pc)
  <2>1. PICK f : f = Forwarding(old, m)
    OBVIOUS
  <2>2. /\ f \in AgentRecord /\ f.spent = old.spent + m
        /\ f.dailySpent = old.dailySpent /\ Beyond(f) = Beyond(old) + m
    BY <2>1, <1>3, ForwardingAdds
  <2> QED
    BY <2>1, <2>2 DEF Settled
<1> HIDE DEF new
<1> QED
  BY <1>1, <1>2, <1>4, <1>5, SettlementEnds

LEMMA RefusedKeeps ==
  ASSUME IInv, NEW r \in Requests, WithdrawRefused(r)
  PROVE  IInv'
<1>1. SettlingOK(req[r]) /\ req[r].pc \in {"withdraw", "forward"} /\ req' = [req EXCEPT ![r] = Idle]
  BY SettlingRequest DEF IInv, WithdrawRefused
<1>2. PICK a, old : a = req[r].agent /\ old = agent[a]
  OBVIOUS
<1>3. a \in Agents /\ old \in AgentRecord
  BY <1>1, <1>2 DEF SettlingOK, IInv, TypeOK, AgentRecord
<1>4. agent' = [agent EXCEPT ![a] = old]
  BY <1>2, <1>3 DEF WithdrawRefused, IInv, TypeOK
<1>5. UNCHANGED <<store, history, lapsed>> /\ faults' \in 0 .. MaxFaults
  BY DEF WithdrawRefused, IInv, TypeOK
<1>6. Settled(old, old, req[r].amount, req[r].pc)
  BY <1>1 DEF Settled
<1> QED
  BY <1>1, <1>2, <1>3, <1>4, <1>5, <1>6, SettlementEnds

LEMMA AnswerKeeps ==
  ASSUME IInv, NEW r \in Requests, Answer(r)
  PROVE  IInv'
<1>1. SettlingOK(req[r]) /\ req[r].pc = "answer" /\ req' = [req EXCEPT ![r] = Idle]
  BY SettlingRequest DEF IInv, Answer
<1>2. PICK a, old, m : a = req[r].agent /\ old = agent[a] /\ m = req[r].amount
  OBVIOUS
<1>3. a \in Agents /\ m \in Nat /\ old \in AgentRecord
  BY <1>1, <1>2 DEF SettlingOK, IInv, TypeOK, AgentRecord
<1>4. PICK new : new = [old EXCEPT !.dailySpent = @ + m]
  OBVIOUS
<1>5. /\ new \in AgentRecord /\ new.spent = old.spent
      /\ new.dailySpent = old.dailySpent + m /\ Beyond(new) = Beyond(old)
  BY <1>3, <1>4 DEF AgentRecord, Beyond
<1>6. agent' = [agent EXCEPT ![a] = new]
  BY <1>2, <1>4 DEF Answer
<1>7. UNCHANGED <<store, history, lapsed>> /\ faults' \in 0 .. MaxFaults
  BY DEF Answer, IInv, TypeOK
<1>8. Settled(new, old, m, req[r].pc)
  BY <1>1, <1>5 DEF Settled
<1> QED
  BY <1>1, <1>2, <1>5, <1>6, <1>7, <1>8, SettlementEnds

-----------------------------------------------------------------------------
(* Faults *)

(* A request that dies leaves its claim unused, and a settlement that may     *)
(* have landed is lost.                                                       *)
LEMMA DieKeeps ==
  ASSUME IInv, NEW r \in Requests, Die(r)
  PROVE  IInv'
<1>1. /\ req[r].pc # "idle" /\ req' = [req EXCEPT ![r] = Idle]
      /\ UNCHANGED <<store, history, lapsed>>
  BY DEF Die
<1>2. faults' \in 0 .. MaxFaults
  BY BoundsAssumption DEF Die, IInv, TypeOK
<1>3. BuyingOK(req[r]) \/ SettlingOK(req[r])
  BY <1>1 DEF IInv, RequestsOK, Idle
<1>4. CASE BuyingOK(req[r])
  <2>1. req[r].pc \notin Flying /\ agent' = agent
    BY <1>4 DEF Die, BuyingOK, Flying
  <2>2. \A key : ~Claims(Idle, key)
    BY DEF Claims, Idle
  <2>3. UNCHANGED <<store, agent, history, lapsed>>
    BY <1>1, <2>1
  <2> QED
    BY <1>1, <1>2, <2>1, <2>2, <2>3, PurchaseEnds
<1>5. CASE SettlingOK(req[r])
  <2>1. PICK a, old, m : a = req[r].agent /\ old = agent[a] /\ m = req[r].amount
    OBVIOUS
  <2>2. a \in Agents /\ m \in Nat /\ old \in AgentRecord
    BY <1>5, <2>1 DEF SettlingOK, IInv, TypeOK, AgentRecord
  <2>3. CASE req[r].pc \in {"withdraw", "forward"} /\ agent' = agent
    <3>1. agent' = [agent EXCEPT ![a] = old]
      BY <2>1, <2>2, <2>3 DEF IInv, TypeOK
    <3>2. Settled(old, old, m, req[r].pc)
      BY <2>3 DEF Settled
    <3> QED
      BY <1>1, <1>2, <1>5, <2>1, <2>2, <3>1, <3>2, SettlementEnds
  <2>4. CASE /\ req[r].pc = "withdraw"
             /\ agent' = [agent EXCEPT ![req[r].agent].spent = @ + req[r].amount,
                                       ![req[r].agent].lost = @ + req[r].amount]
    <3>1. PICK mid : mid = [old EXCEPT !.spent = @ + m]
      OBVIOUS
    <3>2. /\ mid \in AgentRecord /\ mid.spent = old.spent + m
          /\ mid.dailySpent = old.dailySpent /\ mid.lost = old.lost /\ mid.forwarded = old.forwarded
      BY <2>2, <3>1 DEF AgentRecord, Beyond
    <3>3. PICK new : new = [mid EXCEPT !.lost = @ + m]
      OBVIOUS
    <3>4. /\ new \in AgentRecord /\ new.spent = mid.spent
          /\ new.dailySpent = mid.dailySpent /\ Beyond(new) = Beyond(old) + m
      BY <2>2, <3>2, <3>3 DEF AgentRecord, Beyond
    <3>5. PICK between : between = [agent EXCEPT ![a] = mid]
      OBVIOUS
    <3>6. between = [agent EXCEPT ![a].spent = @ + m] /\ between[a] = mid
      BY <2>1, <2>2, <3>1, <3>5 DEF IInv, TypeOK
    <3>7. agent' = [between EXCEPT ![a].lost = @ + m]
      BY <2>1, <2>4, <3>6
    <3>8. agent' = [agent EXCEPT ![a] = new]
      BY <2>2, <3>3, <3>5, <3>6, <3>7 DEF IInv, TypeOK
    <3>9. Settled(new, old, m, req[r].pc)
      BY <2>4, <3>2, <3>4 DEF Settled
    <3> QED
      BY <1>1, <1>2, <1>5, <2>1, <2>2, <3>4, <3>8, <3>9, SettlementEnds
  <2>5. CASE /\ req[r].pc = "answer"
             /\ agent' = [agent EXCEPT ![req[r].agent].lost = @ + req[r].amount]
    <3>1. PICK new : new = [old EXCEPT !.lost = @ + m]
      OBVIOUS
    <3>2. /\ new \in AgentRecord /\ new.spent = old.spent
          /\ new.dailySpent = old.dailySpent /\ Beyond(new) = Beyond(old) + m
      BY <2>2, <3>1 DEF AgentRecord, Beyond
    <3>3. agent' = [agent EXCEPT ![a] = new]
      BY <2>1, <2>5, <3>1
    <3>4. Settled(new, old, m, req[r].pc)
      BY <2>5, <3>2 DEF Settled
    <3> QED
      BY <1>1, <1>2, <1>5, <2>1, <2>2, <3>2, <3>3, <3>4, SettlementEnds
  <2>6. CASE /\ req[r].pc = "forward"
             /\ agent' = [agent EXCEPT ![req[r].agent] = Forwarding(@, req[r].amount)]
    BY <1>1, <1>2, <2>6, ForwardKeeps
  <2> QED
    BY <1>5, <2>3, <2>4, <2>5, <2>6 DEF Die, SettlingOK
<1> QED
  BY <1>3, <1>4, <1>5

(* With no request in flight nothing is claimed and nothing about to be       *)
(* counted.                                                                   *)
LEMMA RestartKeeps ==
  ASSUME IInv, Restart
  PROVE  IInv'
<1>1. /\ req' = [r \in Requests |-> Idle] /\ agent' = [a \in Agents |-> NoAgent]
      /\ UNCHANGED <<store, history, lapsed>>
  BY DEF Restart
<1>2. RequestsOK'
  BY <1>1 DEF RequestsOK, Idle
<1>3. faults' \in 0 .. MaxFaults
  BY BoundsAssumption DEF Restart, IInv, TypeOK
<1>4. agent' \in [Agents -> AgentRecord]
  BY <1>1 DEF NoAgent, AgentRecord
<1>5. TypeOK' /\ BoughtTypes' /\ TierWasPaid'
  BY <1>1, <1>2, <1>3, <1>4, RestKeeps DEF AgentRecord
<1>6. ASSUME NEW key \in Purposes \X Payments, Counted(key)
      PROVE  bought[key] + Cardinality(Claimants(req', key)) <= lapses[key] + (IF key \in consumed THEN 1 ELSE 0)
  <2>1. Claimants(req', key) = {}
    BY <1>1 DEF Claimants, Claims, Idle
  <2>2. Cardinality(Claimants(req', key)) = 0
    BY <2>1, FS_EmptySet
  <2>3. bought[key] \in Nat /\ lapses[key] \in Nat /\ Cardinality(Claimants(req, key)) \in Nat
    BY ClaimantsType DEF IInv, BoughtTypes
  <2>4. bought[key] + Cardinality(Claimants(req, key)) <= lapses[key] + (IF key \in consumed THEN 1 ELSE 0)
    BY <1>6 DEF IInv, ClaimsOK
  <2> QED
    BY <2>2, <2>3, <2>4
<1>7. ClaimsOK'
  BY <1>1, <1>6, PrimedClaimants DEF ClaimsOK, Counted, store, history
<1>8. ASSUME NEW a \in Agents
      PROVE  /\ agent'[a].spent <= agent'[a].dailySpent + Beyond(agent'[a]) + Total(Shares(req', Answering, a))
             /\ agent'[a].dailySpent + Total(Shares(req', Flying, a))
                  <= MaxPerDay + (Cardinality(Requests) - 1) * MaxPerTx
  <2>1. agent'[a].spent = 0 /\ agent'[a].dailySpent = 0 /\ Beyond(agent'[a]) = 0
    BY <1>1 DEF NoAgent, Beyond
  <2>2. PICK r : r \in Requests
    BY RequestsAssumption
  <2>3. \A points \in {Answering, Flying} :
          /\ Shares(req', points, a) \in [Requests -> Nat]
          /\ \A x \in Requests : Shares(req', points, a)[x] = 0
    BY <1>1 DEF Shares, Share, Idle, Answering, Flying
  <2>4. PICK m \in Nat, n \in Nat : m = MaxPerTx /\ n = Cardinality(Requests) - 1
    <3>1. Cardinality(Requests) \in Nat /\ Cardinality(Requests) # 0
      BY RequestsAssumption, FS_CardinalityType, FS_EmptySet
    <3> QED
      BY <3>1, AmountsAssumption
  <2>5. Total(Shares(req', Answering, a)) \in Nat
    BY <2>3, TotalType
  <2>6. Total(Shares(req', Flying, a)) <= 0 + n * m /\ Total(Shares(req', Flying, a)) \in Nat
    <3>1. Shares(req', Flying, a) \in [Requests -> Nat] /\ \A x \in Requests : Shares(req', Flying, a)[x] = 0
      BY <2>3
    <3> QED
      BY <3>1, <2>2, <2>4, TotalBound, TotalType
  <2>7. n * m \in Nat /\ MaxPerDay \in Nat
    BY AmountsAssumption
  <2> QED
    BY <2>1, <2>4, <2>5, <2>6, <2>7
<1>9. AccountOK'
  BY <1>8, PrimedTotals DEF AccountOK
<1> QED
  BY <1>2, <1>5, <1>7, <1>9 DEF IInv

(* What was checked of a payment stays true: a receipt is not taken back.     *)
LEMMA MinedKeeps ==
  ASSUME IInv, NEW p \in Payments, PaymentMined(p)
  PROVE  IInv'
<1>1. mined' = mined \cup {p} /\ UNCHANGED <<consumed, tier, premium, agent, req, history, lapsed, faults>>
  BY DEF PaymentMined
<1>2. RequestsOK'
  <2>1. ASSUME NEW r \in Requests PROVE (req[r] = Idle \/ BuyingOK(req[r]) \/ SettlingOK(req[r]))'
    <3>1. CASE req[r] = Idle
      BY <1>1, <3>1 DEF Idle
    <3>2. CASE BuyingOK(req[r])
      BY <1>1, <3>2 DEF BuyingOK
    <3>3. CASE SettlingOK(req[r])
      BY <1>1, <3>3 DEF SettlingOK
    <3> QED
      BY <3>1, <3>2, <3>3 DEF IInv, RequestsOK
  <2> QED
    BY <1>1, <2>1 DEF IInv, RequestsOK
<1>3. TypeOK' /\ BoughtTypes' /\ TierWasPaid'
  BY <1>1 DEF IInv, TypeOK, BoughtTypes, TierWasPaid, history
<1>4. ClaimsOK'
  BY <1>1, PrimedClaimants DEF IInv, ClaimsOK, Counted, history
<1>5. AccountOK'
  BY <1>1, PrimedTotals DEF IInv, AccountOK
<1> QED
  BY <1>2, <1>3, <1>4, <1>5 DEF IInv

-----------------------------------------------------------------------------
(* Theorems *)

LEMMA NextIInv == IInv /\ [Next]_vars => IInv'
<1> SUFFICES ASSUME IInv, [Next]_vars PROVE IInv'
  OBVIOUS
<1>1. CASE UNCHANGED vars
  <2>1. RequestsOK' /\ TypeOK' /\ BoughtTypes' /\ TierWasPaid'
    BY <1>1 DEF IInv, RequestsOK, BuyingOK, SettlingOK, Idle, TypeOK, BoughtTypes, TierWasPaid,
                vars, store, history
  <2>2. ClaimsOK'
    BY <1>1, PrimedClaimants DEF IInv, ClaimsOK, Counted, vars, store, history
  <2>3. AccountOK'
    BY <1>1, PrimedTotals DEF IInv, AccountOK, vars
  <2> QED
    BY <2>1, <2>2, <2>3 DEF IInv
<1>2. CASE \E p \in Payments : PaymentMined(p)
  BY <1>2, MinedKeeps
<1>3. CASE \E r \in Requests : Buying(r)
  BY <1>3, AuthorizeKeeps, UpgradeKeeps, ConsumeKeeps, ReadKeeps, RecordKeeps DEF Buying
<1>4. CASE \E r \in Requests : Settling(r)
  <2>1. ASSUME NEW r \in Requests, Forward(r) PROVE IInv'
    <3>1. UNCHANGED <<store, history, lapsed>> /\ faults' \in 0 .. MaxFaults
      BY <2>1 DEF Forward, IInv, TypeOK
    <3> QED
      BY <2>1, <3>1, ForwardKeeps DEF Forward
  <2> QED
    BY <1>4, <2>1, SettleKeeps, SettleUtxoKeeps, WithdrawKeeps, RefusedKeeps, AnswerKeeps DEF Settling
<1>5. CASE \E r \in Requests : Die(r)
  BY <1>5, DieKeeps
<1>6. CASE \E a \in Agents : RegisterAgent(a) \/ Look(a) \/ DayOver(a)
  BY <1>6, AgentKeeps
<1>7. CASE Lapse
  BY <1>7, LapseKeeps
<1>8. CASE Restart
  BY <1>8, RestartKeeps
<1> QED
  BY <1>1, <1>2, <1>3, <1>4, <1>5, <1>6, <1>7, <1>8 DEF Next

(* The inductive invariant holds: a consumed key stands for everything that   *)
(* was or is being bought with it, and what an agent has spent is counted,    *)
(* lost, forwarded through the UTXO branch (which counts nothing), or carried *)
(* by a request that is still to count it.                                    *)
THEOREM Invariance == Spec => []IInv
BY InitIInv, NextIInv, PTL DEF Spec

(* What the store holds, the agents' accounts and the requests in flight have *)
(* their types.                                                               *)
THEOREM TypeCorrect == Spec => []TypeOK
<1>1. IInv => TypeOK
  BY DEF IInv
<1> QED
  BY <1>1, Invariance, PTL

(* A payment buys one authorisation and one premium, and once more for each   *)
(* lapse of its key, however requests interleave, die, or are retried after   *)
(* a restart: SET NX decides (tryConsumeTxHash).                              *)
THEOREM BuysOnce == Spec => []PaymentBuysOnce
<1>1. IInv => PaymentBuysOnce
  <2> SUFFICES ASSUME IInv, NEW key \in Purposes \X Payments, Counted(key)
               PROVE  bought[key] <= 1 + lapses[key]
    BY DEF PaymentBuysOnce, Counted
  <2>1. bought[key] + Cardinality(Claimants(req, key)) <= lapses[key] + (IF key \in consumed THEN 1 ELSE 0)
    BY DEF IInv, ClaimsOK
  <2>2. bought[key] \in Nat /\ lapses[key] \in Nat /\ Cardinality(Claimants(req, key)) \in Nat
    BY ClaimantsType DEF IInv, BoughtTypes
  <2> QED
    BY <2>1, <2>2
<1> QED
  BY <1>1, Invariance, PTL

(* Whoever holds a tier without a contract, or premium, has it from a mined   *)
(* payment of its price, and a nullifier from one its payer signed over to    *)
(* it: the checks made before the awaits of authorize and upgrade still hold  *)
(* of what is recorded after them.                                            *)
THEOREM PaidTiers == Spec => []TierWasPaid
<1>1. IInv => TierWasPaid
  BY DEF IInv
<1> QED
  BY <1>1, Invariance, PTL

(* An agent overspends its daily limit by no more than the other requests'    *)
(* amounts, the settlements whose answer was lost and what went through the   *)
(* UTXO branch, for any number of request slots and any limits.               *)
THEOREM DailyLimit == Spec => []DailyLimitUpToFlight
<1>1. IInv => DailyLimitUpToFlight
  <2> SUFFICES ASSUME IInv, NEW a \in Agents
               PROVE  agent[a].spent <= MaxPerDay + (Cardinality(Requests) - 1) * MaxPerTx
                                          + agent[a].lost + agent[a].forwarded
    BY DEF DailyLimitUpToFlight
  <2>1. /\ agent[a].spent <= agent[a].dailySpent + Beyond(agent[a]) + Total(Shares(req, Answering, a))
        /\ agent[a].dailySpent + Total(Shares(req, Flying, a))
             <= MaxPerDay + (Cardinality(Requests) - 1) * MaxPerTx
    BY DEF IInv, AccountOK
  <2>2. Shares(req, Answering, a) \in [Requests -> Nat] /\ Shares(req, Flying, a) \in [Requests -> Nat]
    BY SharesType DEF IInv
  <2>3. \A x \in Requests : Shares(req, Answering, a)[x] <= Shares(req, Flying, a)[x]
    <3>1. \A x \in Requests : Shares(req, Flying, a)[x] \in Nat
      BY <2>2
    <3> QED
      BY <3>1 DEF Shares, Share, Answering, Flying
  <2>4. Total(Shares(req, Answering, a)) <= Total(Shares(req, Flying, a))
    BY <2>2, <2>3, TotalMonotonic
  <2>5. Total(Shares(req, Answering, a)) \in Nat /\ Total(Shares(req, Flying, a)) \in Nat
    BY <2>2, TotalType
  <2>6. PICK limit \in Int : limit = MaxPerDay + (Cardinality(Requests) - 1) * MaxPerTx
    <3>1. Cardinality(Requests) \in Nat
      BY RequestsAssumption, FS_CardinalityType
    <3> QED
      BY <3>1, AmountsAssumption
  <2>7. /\ agent[a].spent \in Nat /\ agent[a].dailySpent \in Nat
        /\ agent[a].lost \in Nat /\ agent[a].forwarded \in Nat
    BY DEF IInv, TypeOK
  <2>8. Beyond(agent[a]) = agent[a].lost + agent[a].forwarded
    BY DEF Beyond
  <2> QED
    BY <2>1, <2>4, <2>5, <2>6, <2>7, <2>8
<1> QED
  BY <1>1, Invariance, PTL
=============================================================================
