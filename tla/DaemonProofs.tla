----------------------------- MODULE DaemonProofs -----------------------------
(***************************************************************************)
(* Proofs about the two daemons of scripts/: the threshold postman, for    *)
(* any set of signers, any threshold and any screening, whatever the nodes *)
(* show; and the forwarding engine, for any addresses and wirings.         *)
(*                                                                         *)
(* The postman.  A signature on a proposal, wherever a copy of it lies     *)
(* (on the bus, in a daemon, in a transaction), was made by its signer     *)
(* for that nonce and those decisions; so all who signed what the contract *)
(* accepts have screened the same deposits.                                *)
(*                                                                         *)
(* The engine.  The daemon goes on from its file and its memory only       *)
(* grows, so the memory knows all the file knows.  An address that is      *)
(* registered stays so; every scan watches the addresses that were watched *)
(* when a transfer to them was mined.                                      *)
(***************************************************************************)
EXTENDS ThresholdPostman, ForwardingEngine, FiniteSetTheorems, SequenceTheorems, TLAPS

-----------------------------------------------------------------------------
(* The threshold postman *)

Att(s, n, k) == [signer |-> s, nonce |-> n, newRoot |-> Root(k), events |-> k]

(* All of signers signed the decisions k at nonce n. *)
AllSigned(signers, n, k) == \A s \in signers : Att(s, n, k) \in signed

BusOK ==
  \A n \in Nonces :
    /\ bus[n].newRoot = Root(bus[n].decisionDigest)
    /\ AllSigned(bus[n].signatures, n, bus[n].decisionDigest)

(* A daemon in a tick holds the decisions of its own screening. *)
TickOK ==
  \A s \in Signers :
    tick[s].pc # "idle" =>
      /\ tick[s].proposal.newRoot = Root(tick[s].events)
      /\ tick[s].proposal.decisionDigest = tick[s].events
      /\ AllSigned(tick[s].proposal.signatures, tick[s].nonce, tick[s].events)

TxsOK ==
  \A tx \in txs :
    \E k \in Decisions : tx.newRoot = Root(k) /\ AllSigned(tx.signers, tx.nonce, k)

(* The accepted root has a quorum behind it. *)
LatestOK ==
  IF nonce = 0
  THEN latestRoot = {}
  ELSE \E k \in Decisions, Q \in SUBSET Signers :
         /\ Cardinality(Q) >= THRESHOLD
         /\ latestRoot = Root(k)
         /\ AllSigned(Q, nonce - 1, k)

IInv ==
  /\ TypeOK
  /\ BusOK
  /\ TickOK
  /\ TxsOK
  /\ LatestOK

-----------------------------------------------------------------------------
LEMMA RootType == ASSUME NEW k \in Decisions PROVE Root(k) \in SUBSET Clean
BY DEF Root

(* Init satisfies the invariant. *)
LEMMA InitIInv == Init => IInv
<1> SUFFICES ASSUME Init PROVE IInv
  OBVIOUS
<1> USE BoundsAssumption, CleanAssumption
<1>1. Root({}) = {}
  BY DEF Root
<1>2. NoProposal \in Proposal
  BY DEF NoProposal, Proposal, Decisions
<1>3. 0 \in Nonces
  BY DEF Nonces
<1>4. TypeOK
  BY <1>2, <1>3 DEF Init, TypeOK, Idle, Decisions, Deposits
<1>5. TxsOK
  BY DEF Init, TxsOK
<1>6. BusOK
  BY <1>1 DEF Init, BusOK, NoProposal, AllSigned
<1>7. TickOK /\ LatestOK
  BY DEF Init, TickOK, LatestOK, Idle
<1> QED
  BY <1>4, <1>5, <1>6, <1>7 DEF IInv

(* A node shows one more deposit, or anything else. *)
LEMMA ShowIInv ==
  ASSUME IInv, NEW s \in Signers, See(s) \/ Lag(s)
  PROVE  IInv'
<1> USE BoundsAssumption
<1> USE DEF IInv
<1>1. PICK events \in Decisions : seen' = [seen EXCEPT ![s] = events]
  <2>1. seen[s] \in Decisions
    BY DEF TypeOK
  <2> QED
    BY <2>1 DEF See, Lag, Decisions
<1>2. UNCHANGED <<nonce, latestRoot, bus, tick, txs, signed>>
  BY DEF See, Lag
<1>3. faults' \in 0 .. MaxFaults
  BY DEF TypeOK, See, Lag
<1>4. TypeOK'
  BY <1>1, <1>2, <1>3 DEF TypeOK
<1>5. BusOK' /\ TickOK' /\ TxsOK' /\ LatestOK'
  BY <1>2 DEF BusOK, TickOK, TxsOK, LatestOK, AllSigned
<1> QED
  BY <1>4, <1>5

(* Steps 1 to 5 of a tick. *)
LEMMA StartIInv ==
  ASSUME IInv, NEW s \in Signers, Start(s)
  PROVE  IInv'
<1> USE BoundsAssumption
<1> USE DEF IInv
<1> DEFINE P == Loaded(s)
<1>1. nonce \in Nonces /\ seen[s] \in Decisions
  BY DEF TypeOK, Start, Nonces
<1>2. P \in Proposal
  BY <1>1, RootType DEF TypeOK, Loaded, Proposal
<1>3. P.newRoot = Root(seen[s]) /\ P.decisionDigest = seen[s]
  BY DEF Start, Diverged
<1>4. AllSigned(P.signatures, nonce, seen[s])
  <2>1. CASE bus[nonce] = NoProposal
    BY <2>1 DEF Loaded, AllSigned
  <2>2. CASE bus[nonce] # NoProposal
    BY <1>1, <1>3, <2>2 DEF BusOK, Loaded
  <2> QED
    BY <2>1, <2>2
<1> DEFINE T == [pc |-> IF s \in P.signatures THEN "submit" ELSE "sign",
                 nonce |-> nonce, events |-> seen[s], proposal |-> P]
<1>5. /\ tick' = [tick EXCEPT ![s] = T]
      /\ UNCHANGED <<seen, nonce, latestRoot, bus, txs, signed, faults>>
  BY DEF Start
<1>6. T \in [pc : {"idle", "sign", "submit"}, nonce : Nonces, events : Decisions, proposal : Proposal]
  BY <1>1, <1>2
<1>7. T.nonce = nonce /\ T.events = seen[s] /\ T.proposal = P
  OBVIOUS
<1> HIDE DEF P, T
<1>8. TypeOK'
  BY <1>5, <1>6 DEF TypeOK
<1>9. TickOK'
  <2> SUFFICES ASSUME NEW t \in Signers, tick'[t].pc # "idle"
               PROVE  /\ tick'[t].proposal.newRoot = Root(tick'[t].events)
                      /\ tick'[t].proposal.decisionDigest = tick'[t].events
                      /\ AllSigned(tick'[t].proposal.signatures, tick'[t].nonce, tick'[t].events)
    BY <1>5 DEF TickOK, AllSigned
  <2>1. CASE t = s
    <3>1. tick'[t] = T
      BY <1>5, <2>1 DEF TypeOK
    <3> QED
      BY <1>3, <1>4, <1>7, <2>1, <3>1
  <2>2. CASE t # s
    <3>1. tick'[t] = tick[t]
      BY <1>5, <2>2 DEF TypeOK
    <3> QED
      BY <3>1 DEF TickOK
  <2> QED
    BY <2>1, <2>2
<1>10. BusOK' /\ TxsOK' /\ LatestOK'
  BY <1>5 DEF BusOK, TxsOK, LatestOK, AllSigned
<1> QED
  BY <1>8, <1>9, <1>10

(* Step 6: the signature. *)
LEMMA SignIInv ==
  ASSUME IInv, NEW s \in Signers, Sign(s)
  PROVE  IInv'
<1> USE BoundsAssumption
<1> USE DEF IInv
<1> DEFINE n == tick[s].nonce
           k == tick[s].events
           P == [tick[s].proposal EXCEPT !.signatures = @ \cup {s}]
           A == Att(s, n, k)
           T == IF Leads(s, P.signatures)
                THEN [tick[s] EXCEPT !.pc = "submit", !.proposal = P]
                ELSE Idle
<1>1. /\ tick[s].pc = "sign"
      /\ signed' = signed \cup {A}
      /\ bus' = [bus EXCEPT ![n] = P]
      /\ tick' = [tick EXCEPT ![s] = T]
      /\ UNCHANGED <<seen, nonce, latestRoot, txs, faults>>
  BY DEF Sign, Att
<1>2. /\ n \in Nonces /\ k \in Decisions
      /\ tick[s].proposal \in Proposal
  BY DEF TypeOK
<1>3. /\ tick[s].proposal.newRoot = Root(k)
      /\ tick[s].proposal.decisionDigest = k
      /\ AllSigned(tick[s].proposal.signatures, n, k)
  BY <1>1 DEF TickOK
<1>4. /\ P \in Proposal
      /\ P.newRoot = Root(k)
      /\ P.decisionDigest = k
      /\ P.signatures = tick[s].proposal.signatures \cup {s}
  BY <1>2, <1>3 DEF Proposal
<1>5. /\ A \in Attestation
      /\ A.signer = s /\ A.nonce = n /\ A.newRoot = Root(k) /\ A.events = k
  BY <1>2, RootType DEF Att, Attestation
<1>6. NoProposal \in Proposal /\ 0 \in Nonces /\ {} \in Decisions
  BY DEF NoProposal, Proposal, Decisions, Nonces
<1>7. /\ T \in [pc : {"idle", "sign", "submit"}, nonce : Nonces,
                events : Decisions, proposal : Proposal]
      /\ T.pc # "idle" => T.nonce = n /\ T.events = k /\ T.proposal = P
  <2>1. tick[s] \in [pc : {"idle", "sign", "submit"}, nonce : Nonces,
                     events : Decisions, proposal : Proposal]
    BY DEF TypeOK
  <2> HIDE DEF P
  <2> QED
    BY <1>4, <1>6, <2>1 DEF Idle
<1>8. /\ signed \subseteq signed'
      /\ \A t \in P.signatures : Att(t, n, k) \in signed'
  BY <1>1, <1>3, <1>4 DEF AllSigned
<1> HIDE DEF n, k, P, A, T
<1>9. TypeOK'
  BY <1>1, <1>2, <1>4, <1>5, <1>7 DEF TypeOK
<1>10. BusOK'
  <2> SUFFICES ASSUME NEW m \in Nonces
               PROVE  /\ bus'[m].newRoot = Root(bus'[m].decisionDigest)
                      /\ \A t \in bus'[m].signatures : Att(t, m, bus'[m].decisionDigest) \in signed'
    BY DEF BusOK, AllSigned
  <2>1. CASE m = n
    <3>1. bus'[m] = P
      BY <1>1, <1>2, <2>1 DEF TypeOK
    <3> QED
      BY <1>4, <1>8, <2>1, <3>1
  <2>2. CASE m # n
    <3>1. bus'[m] = bus[m]
      BY <1>1, <2>2 DEF TypeOK
    <3> QED
      BY <1>8, <3>1 DEF BusOK, AllSigned
  <2> QED
    BY <2>1, <2>2
<1>11. TickOK'
  <2> SUFFICES ASSUME NEW t \in Signers, tick'[t].pc # "idle"
               PROVE  /\ tick'[t].proposal.newRoot = Root(tick'[t].events)
                      /\ tick'[t].proposal.decisionDigest = tick'[t].events
                      /\ \A u \in tick'[t].proposal.signatures :
                           Att(u, tick'[t].nonce, tick'[t].events) \in signed'
    BY <1>1 DEF TickOK, AllSigned
  <2>1. CASE t = s
    <3>1. tick'[t] = T
      BY <1>1, <2>1 DEF TypeOK
    <3>2. T.nonce = n /\ T.events = k /\ T.proposal = P
      BY <1>7, <3>1
    <3> QED
      BY <1>3, <1>4, <1>8, <2>1, <3>1, <3>2
  <2>2. CASE t # s
    <3>1. tick'[t] = tick[t]
      BY <1>1, <2>2 DEF TypeOK
    <3> QED
      BY <1>8, <3>1 DEF TickOK, AllSigned
  <2> QED
    BY <2>1, <2>2
<1>12. TxsOK'
  BY <1>1, <1>8 DEF TxsOK, AllSigned
<1>13. LatestOK'
  BY <1>1, <1>8 DEF LatestOK, AllSigned
<1> QED
  BY <1>9, <1>10, <1>11, <1>12, <1>13

(* Step 7: the transaction. *)
LEMMA SubmitIInv ==
  ASSUME IInv, NEW s \in Signers, Submit(s)
  PROVE  IInv'
<1> USE BoundsAssumption
<1> USE DEF IInv
<1> DEFINE tx == [nonce |-> tick[s].nonce, newRoot |-> Root(tick[s].events),
                  signers |-> tick[s].proposal.signatures]
<1>1. /\ tick[s].pc = "submit"
      /\ txs' = txs \cup {tx}
      /\ tick' = [tick EXCEPT ![s] = Idle]
      /\ UNCHANGED <<seen, nonce, latestRoot, bus, signed, faults>>
  BY DEF Submit
<1>2. tick[s].nonce \in Nonces /\ tick[s].events \in Decisions /\ tick[s].proposal \in Proposal
  BY DEF TypeOK
<1>3. tx \in Tx
  BY <1>2, RootType DEF Tx, Proposal
<1>4. tx.newRoot = Root(tick[s].events) /\ AllSigned(tx.signers, tx.nonce, tick[s].events)
  BY <1>1 DEF TickOK
<1> HIDE DEF tx
<1>5. Idle \in [pc : {"idle", "sign", "submit"}, nonce : Nonces,
                events : Decisions, proposal : Proposal]
  BY DEF Idle, NoProposal, Proposal, Decisions, Nonces
<1>6. TypeOK'
  BY <1>1, <1>3, <1>5 DEF TypeOK
<1>7. TxsOK'
  BY <1>1, <1>2, <1>4 DEF TxsOK, AllSigned
<1>8. TickOK'
  <2>1. \A t \in Signers : tick'[t].pc # "idle" => tick'[t] = tick[t]
    BY <1>1 DEF TypeOK, Idle
  <2> QED
    BY <1>1, <2>1 DEF TickOK, AllSigned
<1>9. BusOK' /\ LatestOK'
  BY <1>1 DEF BusOK, LatestOK, AllSigned
<1> QED
  BY <1>6, <1>7, <1>8, <1>9

(* A tick that throws. *)
LEMMA ThrowIInv ==
  ASSUME IInv, NEW s \in Signers, Throw(s)
  PROVE  IInv'
<1> USE BoundsAssumption
<1> USE DEF IInv
<1>1. /\ tick' = [tick EXCEPT ![s] = Idle]
      /\ UNCHANGED <<seen, nonce, latestRoot, bus, txs, signed>>
  BY DEF Throw
<1>2. Idle \in [pc : {"idle", "sign", "submit"}, nonce : Nonces,
                events : Decisions, proposal : Proposal]
  BY DEF Idle, NoProposal, Proposal, Decisions, Nonces
<1>3. TypeOK'
  BY <1>1, <1>2 DEF TypeOK, Throw
<1>4. TickOK'
  <2>1. \A t \in Signers : tick'[t].pc # "idle" => tick'[t] = tick[t]
    BY <1>1 DEF TypeOK, Idle
  <2> QED
    BY <1>1, <2>1 DEF TickOK, AllSigned
<1>5. BusOK' /\ TxsOK' /\ LatestOK'
  BY <1>1 DEF BusOK, TxsOK, LatestOK, AllSigned
<1> QED
  BY <1>3, <1>4, <1>5

(* What an accepted transaction shows: it is for the nonce of now, and a    *)
(* quorum signed its root for the same decisions.                           *)
LEMMA Accepted ==
  ASSUME IInv, NEW tx \in txs, Quorum(tx)
  PROVE  /\ tx.nonce = nonce
         /\ nonce \in Nonces
         /\ tx.signers \in SUBSET Signers
         /\ Cardinality(tx.signers) >= THRESHOLD
         /\ \E k \in Decisions : tx.newRoot = Root(k) /\ AllSigned(tx.signers, nonce, k)
<1> USE DEF IInv
<1>1. tx \in Tx
  BY DEF TypeOK
<1>2. tx.signers \in SUBSET Signers /\ tx.nonce \in Nonces
  BY <1>1 DEF Tx
<1>3. Cardinality(tx.signers) >= THRESHOLD
  BY DEF Quorum
<1>4. PICK s \in tx.signers : TRUE
  BY <1>3, ThresholdAssumption, FS_EmptySet
<1>5. tx.nonce = nonce
  BY <1>4 DEF Quorum, Recovers
<1> QED
  BY <1>2, <1>3, <1>5 DEF TxsOK

(* updateRoot *)
LEMMA UpdateRootIInv ==
  ASSUME IInv, NEW tx \in txs, UpdateRoot(tx)
  PROVE  IInv'
<1> USE BoundsAssumption
<1> USE DEF IInv
<1>1. txs' = txs \ {tx} /\ UNCHANGED <<seen, bus, tick, signed, faults>>
  BY DEF UpdateRoot
<1>2. /\ nonce \in 0 .. MaxNonce
      /\ \/ nonce' = nonce /\ latestRoot' = latestRoot
         \/ nonce' = nonce + 1 /\ latestRoot' = tx.newRoot /\ Quorum(tx)
  BY DEF UpdateRoot, TypeOK
<1>3. nonce' \in 0 .. MaxNonce /\ latestRoot' \subseteq Clean
  <2>1. CASE nonce' = nonce /\ latestRoot' = latestRoot
    BY <1>2, <2>1 DEF TypeOK
  <2>2. CASE nonce' = nonce + 1 /\ latestRoot' = tx.newRoot /\ Quorum(tx)
    <3>1. nonce \in Nonces
      BY <2>2, Accepted
    <3>2. tx.newRoot \subseteq Clean
      BY DEF TypeOK, Tx
    <3> QED
      BY <1>2, <2>2, <3>1, <3>2 DEF Nonces
  <2> QED
    BY <1>2, <2>1, <2>2
<1>4. TypeOK'
  BY <1>1, <1>3 DEF TypeOK
<1>5. BusOK' /\ TickOK' /\ TxsOK'
  BY <1>1 DEF BusOK, TickOK, TxsOK, AllSigned
<1>6. LatestOK'
  <2>1. CASE nonce' = nonce /\ latestRoot' = latestRoot
    BY <1>1, <2>1 DEF LatestOK, AllSigned
  <2>2. CASE nonce' = nonce + 1 /\ latestRoot' = tx.newRoot /\ Quorum(tx)
    <3>1. PICK k \in Decisions : tx.newRoot = Root(k) /\ AllSigned(tx.signers, nonce, k)
      BY <2>2, Accepted
    <3>2. nonce' # 0 /\ nonce' - 1 = nonce
      BY <1>2, <2>2
    <3>3. \A s \in tx.signers : Att(s, nonce' - 1, k) \in signed'
      BY <1>1, <3>1, <3>2 DEF AllSigned
    <3>4. tx.signers \in SUBSET Signers /\ Cardinality(tx.signers) >= THRESHOLD
      BY <2>2, Accepted
    <3>5. latestRoot' = Root(k)
      BY <2>2, <3>1
    <3> QED
      BY <3>2, <3>3, <3>4, <3>5 DEF LatestOK, AllSigned
  <2> QED
    BY <1>2, <2>1, <2>2
<1> QED
  BY <1>4, <1>5, <1>6

LEMMA StutterIInv == IInv /\ UNCHANGED vars => IInv'
BY DEF IInv, vars, TypeOK, BusOK, TickOK, TxsOK, LatestOK, AllSigned

(* Every step keeps the invariant. *)
LEMMA NextIInv == IInv /\ [Next]_vars => IInv'
<1> SUFFICES ASSUME IInv, [Next]_vars PROVE IInv'
  OBVIOUS
<1>1. ASSUME NEW s \in Signers, See(s) \/ Lag(s) PROVE IInv'
  BY <1>1, ShowIInv
<1>2. ASSUME NEW s \in Signers, Start(s) PROVE IInv'
  BY <1>2, StartIInv
<1>3. ASSUME NEW s \in Signers, Sign(s) PROVE IInv'
  BY <1>3, SignIInv
<1>4. ASSUME NEW s \in Signers, Submit(s) PROVE IInv'
  BY <1>4, SubmitIInv
<1>5. ASSUME NEW s \in Signers, Throw(s) PROVE IInv'
  BY <1>5, ThrowIInv
<1>6. ASSUME NEW tx \in txs, UpdateRoot(tx) PROVE IInv'
  BY <1>6, UpdateRootIInv
<1>7. CASE UNCHANGED vars
  BY <1>7, StutterIInv
<1> QED
  BY <1>1, <1>2, <1>3, <1>4, <1>5, <1>6, <1>7 DEF Next, Tick

(* The invariant holds in every reachable state. *)
THEOREM Invariant == Spec => []IInv
BY InitIInv, NextIInv, PTL DEF Spec

(* Types, and the nonce within its bound: no signature serves a second      *)
(* root.                                                                    *)
THEOREM TypeCorrect == Spec => []TypeOK
<1>1. IInv => TypeOK
  BY DEF IInv
<1> QED
  BY <1>1, Invariant, PTL

(* The root changes with the nonce only, by an accepted transaction. *)
LEMMA RootChanges ==
  ASSUME IInv, [Next]_vars
  PROVE  \/ nonce' = nonce /\ latestRoot' = latestRoot
         \/ /\ signed' = signed
            /\ \E tx \in txs : Quorum(tx) /\ latestRoot' = tx.newRoot
BY DEF Next, Tick, See, Lag, Start, Sign, Submit, Throw, UpdateRoot, vars

(* Every accepted root was computed from the same decisions by a threshold  *)
(* of signers, for any screening and whatever the nodes show: though the    *)
(* contract sees roots only.                                                *)
THEOREM OneDecision == Spec => OneDecisionPerRoot
<1> DEFINE Decided(k) == {s \in Signers :
              [signer |-> s, nonce |-> nonce, newRoot |-> latestRoot', events |-> k] \in signed}
<1>1. ASSUME IInv, [Next]_vars, nonce' # nonce
      PROVE  \E k \in Decisions : latestRoot' = Root(k) /\ Cardinality(Decided(k)) >= THRESHOLD
  <2>1. PICK tx \in txs : Quorum(tx) /\ latestRoot' = tx.newRoot
    BY <1>1, RootChanges
  <2>2. PICK k \in Decisions : tx.newRoot = Root(k) /\ AllSigned(tx.signers, nonce, k)
    BY <1>1, <2>1, Accepted
  <2>3. tx.signers \in SUBSET Signers /\ Cardinality(tx.signers) >= THRESHOLD
    BY <1>1, <2>1, Accepted
  <2>4. tx.signers \subseteq Decided(k)
    BY <2>1, <2>2, <2>3 DEF AllSigned, Att
  <2>5. Decided(k) \subseteq Signers
    OBVIOUS
  <2> HIDE DEF Decided
  <2>6. IsFiniteSet(Decided(k))
    BY <2>5, SignersAssumption, FS_Subset
  <2>7. Cardinality(tx.signers) <= Cardinality(Decided(k))
    BY <2>4, <2>6, FS_Subset
  <2>8. Cardinality(tx.signers) \in Nat /\ Cardinality(Decided(k)) \in Nat
    BY <2>4, <2>6, FS_Subset, FS_CardinalityType
  <2> QED
    BY <2>1, <2>2, <2>3, <2>7, <2>8, ThresholdAssumption
<1>2. IInv /\ [Next]_vars =>
        [nonce' # nonce =>
           \E k \in Decisions :
             /\ latestRoot' = Root(k)
             /\ Cardinality({s \in Signers :
                  [signer |-> s, nonce |-> nonce, newRoot |-> latestRoot', events |-> k] \in signed})
                  >= THRESHOLD]_vars
  BY <1>1
<1> QED
  BY <1>2, Invariant, PTL DEF Spec, OneDecisionPerRoot

-----------------------------------------------------------------------------
(* The forwarding engine *)

(* The daemon goes on from the file, and knows what the file knows. *)
FileKept ==
  /\ daemon.pc = "off" => daemon = Off
  /\ daemon.pc # "off" =>
       /\ file.processed \subseteq daemon.processed
       /\ file.used \subseteq daemon.used
       /\ daemon.cursor = NoCursor => file.cursor = NoCursor

(* A transfer that is due is to an address that is registered, and watched  *)
(* whenever the chain is scanned.                                           *)
DueOK ==
  /\ \A a \in Address : daemon.view[a] # 0 => slot[a] # 0
  /\ \A i \in due : slot[chain[i].to] # 0
  /\ daemon.pc = "scan" => \A i \in due : daemon.view[chain[i].to] # 0

(* No cursor is past the next block. *)
CursorsOK == daemon.cursor <= Len(chain) + 1 /\ file.cursor <= Len(chain) + 1

(* There is a batch while it is screened and deposited; it is of watched    *)
(* addresses, and holds no quarantined transfer once it is screened.        *)
BatchOK ==
  /\ daemon.pc \notin {"screen", "deposit"} => daemon.batch = {}
  /\ \A i \in daemon.batch : daemon.view[chain[i].to] # 0
  /\ daemon.pc = "deposit" => daemon.batch \cap tainted = {}

(* A quarantined transfer has a listed payer, for good. *)
TaintedOK == \A i \in tainted : chain[i].payer \in listed

EngineInv ==
  /\ EngineTypeOK
  /\ FileKept /\ DueOK /\ CursorsOK /\ BatchOK /\ TaintedOK
  /\ ScanMissesNothing /\ ProcessedIsDeposited

LEMMA EngineInitInv == EngineInit => EngineInv
<1> SUFFICES ASSUME EngineInit PROVE EngineInv
  OBVIOUS
<1> USE DEF EngineInit
<1>1. Off \in Daemon /\ NoFile \in Saved
  BY AmountAssumption DEF Off, Daemon, NoFile, Saved, NoCursor
<1>2. EngineTypeOK
  <2>1. <<authority, source>> \in Wirings
    BY WiringAssumption
  <2>2. chain \in Seq(Inflow) /\ Len(chain) = 0
    BY EmptySeq
  <2> QED BY <1>1, <2>1, <2>2, AmountAssumption DEF EngineTypeOK, Off
<1>3. FileKept /\ DueOK /\ CursorsOK /\ BatchOK /\ TaintedOK
  BY AmountAssumption DEF FileKept, DueOK, CursorsOK, BatchOK, TaintedOK, Off, NoFile, NoCursor
<1>4. ScanMissesNothing /\ ProcessedIsDeposited
  BY DEF ScanMissesNothing, ProcessedIsDeposited, Off, NoFile
<1> QED BY <1>2, <1>3, <1>4 DEF EngineInv

(* What every state allows to be said of a block. *)
LEMMA Blocks ==
  ASSUME EngineTypeOK
  PROVE  /\ Len(chain) \in Nat /\ DOMAIN chain = 1 .. Len(chain)
         /\ \A i \in DOMAIN chain : chain[i] \in Inflow
         /\ file \in Saved
BY ElementOfSeq, LenProperties DEF EngineTypeOK

-----------------------------------------------------------------------------
(* The world *)

LEMMA TransferKeeps ==
  ASSUME EngineInv, NEW a \in Address, NEW payer \in Payer, NEW amount \in Amount,
         Transfer(a, payer, amount)
  PROVE  EngineInv'
<1> PICK x : x = [to |-> a, payer |-> payer, amount |-> amount]
  OBVIOUS
<1> PICK k : k = Len(chain) + 1
  OBVIOUS
<1>1. x \in Inflow /\ x.to = a
  BY DEF Inflow
<1>2. EngineTypeOK /\ Len(chain) < MaxBlocks /\ chain' = Append(chain, x)
      /\ UNCHANGED <<seams, notes, sent, slot, listed, file, daemon, starts, screened, tainted, origin>>
  BY DEF EngineInv, Transfer
<1>3. /\ chain' \in Seq(Inflow) /\ Len(chain') = k /\ chain'[k] = x
      /\ \A i \in DOMAIN chain : chain'[i] = chain[i]
      /\ k \in Nat /\ k <= MaxBlocks /\ k \notin DOMAIN chain
      /\ DOMAIN chain' = DOMAIN chain \cup {k}
      /\ \A i \in DOMAIN chain : i < k
  <2>1. chain \in Seq(Inflow)
    BY <1>2 DEF EngineTypeOK
  <2>2. chain' \in Seq(Inflow) /\ Len(chain') = Len(chain) + 1
        /\ chain'[Len(chain) + 1] = x /\ \A i \in 1 .. Len(chain) : chain'[i] = chain[i]
    BY <1>1, <1>2, <2>1, AppendProperties
  <2> QED BY <1>2, <2>2, Blocks, LenProperties, AmountAssumption
<1>4. due' = IF a \in Watched THEN due \cup {k} ELSE due
  BY DEF Transfer
<1>5. EngineTypeOK'
  BY <1>2, <1>3, <1>4 DEF EngineTypeOK, seams
<1>6. FileKept' /\ TaintedOK'
  BY <1>2, <1>3 DEF EngineInv, FileKept, TaintedOK, EngineTypeOK
<1>7. DueOK'
  BY <1>1, <1>2, <1>3, <1>4 DEF EngineInv, DueOK, EngineTypeOK, Watched
<1>8. CursorsOK'
  BY <1>2, <1>3, Blocks, AmountAssumption DEF EngineInv, CursorsOK, EngineTypeOK, Daemon, Saved
<1>9. BatchOK'
  BY <1>2, <1>3 DEF EngineInv, BatchOK, EngineTypeOK
<1>10. ScanMissesNothing'
  <2>1. daemon.cursor <= k /\ file.cursor <= k
    BY <1>2, <1>3, Blocks DEF EngineInv, CursorsOK
  <2>2. \A c \in {daemon.cursor, file.cursor} : ~(k < c)
    BY <1>2, <1>3, <2>1, Blocks, AmountAssumption DEF EngineTypeOK, Daemon, Saved
  <2> QED BY <1>2, <1>4, <2>2 DEF EngineInv, ScanMissesNothing
<1>11. ProcessedIsDeposited'
  BY <1>2 DEF EngineInv, ProcessedIsDeposited, seams
<1> QED BY <1>5, <1>6, <1>7, <1>8, <1>9, <1>10, <1>11 DEF EngineInv

LEMMA RegisterKeeps ==
  ASSUME EngineInv, NEW a \in Address, Register(a)
  PROVE  EngineInv'
<1>1. /\ slot' \in [Address -> 0 .. MaxSlots]
      /\ \A b \in Address : slot[b] # 0 => slot'[b] # 0
  BY AmountAssumption DEF Register, EngineInv, EngineTypeOK
<1>2. UNCHANGED <<seams, chain, notes, sent, listed, file, daemon, starts, history>>
  BY DEF Register
<1>3. \A i \in due : chain[i].to \in Address
  BY Blocks DEF EngineInv, EngineTypeOK, Inflow
<1>4. EngineTypeOK' /\ DueOK'
  BY <1>1, <1>2, <1>3 DEF EngineInv, EngineTypeOK, DueOK, seams, history
<1>5. FileKept' /\ CursorsOK' /\ BatchOK' /\ TaintedOK' /\ ScanMissesNothing'
  BY <1>2 DEF EngineInv, FileKept, CursorsOK, BatchOK, TaintedOK, ScanMissesNothing, history
<1>6. ProcessedIsDeposited'
  BY <1>2 DEF EngineInv, ProcessedIsDeposited, seams
<1> QED BY <1>4, <1>5, <1>6 DEF EngineInv

LEMMA ListKeeps ==
  ASSUME EngineInv, NEW payer \in Payer, List(payer)
  PROVE  EngineInv'
<1>1. listed \subseteq listed' /\ listed' \subseteq Payer
  BY DEF List, EngineInv, EngineTypeOK
<1>2. UNCHANGED <<seams, chain, notes, sent, slot, file, daemon, starts, history>>
  BY DEF List
<1>3. EngineTypeOK' /\ DueOK' /\ TaintedOK'
  BY <1>1, <1>2 DEF EngineInv, EngineTypeOK, DueOK, TaintedOK, seams, history
<1>5. FileKept' /\ CursorsOK' /\ BatchOK' /\ ScanMissesNothing'
  BY <1>2 DEF EngineInv, FileKept, CursorsOK, BatchOK, ScanMissesNothing, history
<1>6. ProcessedIsDeposited'
  BY <1>2 DEF EngineInv, ProcessedIsDeposited, seams
<1> QED BY <1>3, <1>5, <1>6 DEF EngineInv

-----------------------------------------------------------------------------
(* The daemon *)

(* A step that changes nothing but how far the cycle is, what it sees and   *)
(* what is left of the batch.                                               *)
QuietStep ==
  /\ UNCHANGED <<seams, chain, notes, sent, slot, listed, file, starts, history>>
  /\ daemon.pc # "off" /\ daemon' \in Daemon /\ daemon'.pc # "off"
  /\ daemon'.cursor = daemon.cursor
  /\ daemon'.processed = daemon.processed /\ daemon'.used = daemon.used
  /\ daemon'.batch \subseteq daemon.batch
  /\ daemon'.pc \in {"screen", "deposit"} \/ daemon'.batch = {}
  /\ daemon'.pc = "deposit" => daemon.pc = "deposit"
  /\ daemon'.view = daemon.view \/ (daemon'.view = slot /\ daemon'.batch = {})
  /\ daemon'.pc = "scan" => daemon'.view = slot

LEMMA QuietKeeps == ASSUME EngineInv, QuietStep PROVE EngineInv'
<1> USE DEF QuietStep
<1>1. EngineTypeOK'
  BY DEF EngineInv, EngineTypeOK, seams, history
<1>2. \A i \in due : chain[i].to \in Address
  BY Blocks DEF EngineInv, EngineTypeOK, Inflow
<1>3. FileKept' /\ CursorsOK' /\ TaintedOK'
  BY DEF EngineInv, FileKept, CursorsOK, TaintedOK, history
<1>4. DueOK'
  BY <1>2 DEF EngineInv, DueOK, history
<1>5. BatchOK'
  BY DEF EngineInv, BatchOK, history
<1>6. ScanMissesNothing'
  BY DEF EngineInv, ScanMissesNothing, history
<1>7. ProcessedIsDeposited'
  BY DEF EngineInv, ProcessedIsDeposited, seams
<1> QED BY <1>1, <1>3, <1>4, <1>5, <1>6, <1>7 DEF EngineInv

LEMMA QuietSteps ==
  ASSUME EngineInv,
         LoadRegistry \/ ScanNothing \/ ScanFails \/ ScreenFails \/ BatchDone
           \/ \E i \in DOMAIN chain : Skip(i)
  PROVE  QuietStep
<1> daemon \in Daemon /\ slot \in [Address -> 0 .. MaxSlots]
  BY DEF EngineInv, EngineTypeOK
<1>b. daemon.pc \notin {"screen", "deposit"} => daemon.batch = {}
  BY DEF EngineInv, BatchOK
<1> USE DEF QuietStep, Daemon
<1>1. CASE LoadRegistry
  BY <1>1, <1>b DEF LoadRegistry
<1>2. CASE ScanNothing
  BY <1>2, <1>b DEF ScanNothing
<1>3. CASE ScanFails
  BY <1>3, <1>b DEF ScanFails
<1>4. CASE ScreenFails
  BY <1>4, <1>b DEF ScreenFails
<1>5. CASE BatchDone
  BY <1>5, <1>b DEF BatchDone
<1>6. CASE \E i \in DOMAIN chain : Skip(i)
  BY <1>6, <1>b DEF Skip, HeadOf
<1> QED BY <1>1, <1>2, <1>3, <1>4, <1>5, <1>6

LEMMA StartDaemonKeeps == ASSUME EngineInv, StartDaemon PROVE EngineInv'
<1> USE DEF EngineInv
<1>1. /\ daemon'.pc = "idle" /\ daemon'.processed = file.processed /\ daemon'.used = file.used
      /\ daemon'.cursor = file.cursor /\ daemon'.view = Off.view /\ daemon'.batch = {}
      /\ daemon' \in Daemon
  <2> DEFINE d == [pc |-> "idle", processed |-> file.processed, used |-> file.used,
                   cursor |-> file.cursor, spent |-> 0, view |-> Off.view, batch |-> {}]
  <2>1. daemon' = d
    BY DEF StartDaemon, Off
  <2>2. Off.view \in [Address -> 0 .. MaxSlots]
    BY AmountAssumption DEF Off
  <2>3. d \in Daemon
    BY <2>2, Blocks, AmountAssumption DEF Daemon, Saved
  <2> QED BY <2>1, <2>3
<1>2. UNCHANGED <<seams, chain, notes, sent, slot, listed, file, history>> /\ starts' \in 0 .. MaxStarts
  BY AmountAssumption DEF StartDaemon, EngineTypeOK
<1>3. EngineTypeOK'
  BY <1>1, <1>2 DEF EngineTypeOK, seams, history
<1>4. FileKept' /\ CursorsOK' /\ TaintedOK' /\ BatchOK'
  BY <1>1, <1>2 DEF FileKept, CursorsOK, TaintedOK, BatchOK, history
<1>5. DueOK'
  BY <1>1, <1>2 DEF DueOK, history, Off
<1>6. ScanMissesNothing'
  BY <1>1, <1>2 DEF ScanMissesNothing, history
<1>7. ProcessedIsDeposited'
  BY <1>1, <1>2 DEF ProcessedIsDeposited, seams
<1> QED BY <1>3, <1>4, <1>5, <1>6, <1>7

LEMMA CrashKeeps == ASSUME EngineInv, Crash PROVE EngineInv'
<1> USE DEF EngineInv
<1>1. daemon' = Off /\ daemon' \in Daemon /\ daemon'.cursor = 0
      /\ daemon'.pc = "off" /\ daemon'.processed = {} /\ daemon'.batch = {} /\ daemon'.view = Off.view
  BY AmountAssumption DEF Crash, Off, Daemon, NoCursor
<1>2. UNCHANGED <<seams, chain, notes, sent, slot, listed, file, starts, history>>
  BY DEF Crash
<1>3. EngineTypeOK'
  BY <1>1, <1>2 DEF EngineTypeOK, seams, history
<1>4. FileKept' /\ CursorsOK' /\ TaintedOK' /\ BatchOK'
  BY <1>1, <1>2, Blocks DEF FileKept, CursorsOK, TaintedOK, BatchOK, history
<1>5. DueOK'
  BY <1>1, <1>2 DEF DueOK, history, Off
<1>6. ScanMissesNothing'
  <2>1. origin \in Nat /\ \A i \in due : i \in Nat
    BY Blocks, AmountAssumption DEF EngineTypeOK
  <2>2. \A i \in due : ~(origin <= i /\ i < 0)
    BY <2>1
  <2> QED BY <1>1, <1>2, <2>2 DEF ScanMissesNothing, history
<1>7. ProcessedIsDeposited'
  BY <1>1, <1>2 DEF ProcessedIsDeposited, seams
<1> QED BY <1>3, <1>4, <1>5, <1>6, <1>7

LEMMA SaveKeeps == ASSUME EngineInv, Save PROVE EngineInv'
<1> USE DEF EngineInv
<1>1. /\ daemon.pc = "save" /\ daemon'.pc = "idle" /\ daemon'.processed = daemon.processed
      /\ daemon'.used = daemon.used /\ daemon'.cursor = daemon.cursor
      /\ daemon'.view = daemon.view /\ daemon'.batch = daemon.batch /\ daemon' \in Daemon
  BY DEF Save, EngineTypeOK, Daemon
<1>2. UNCHANGED <<seams, chain, notes, sent, slot, listed, starts, history>>
  BY DEF Save
<1>3. file' \in Saved
      /\ \/ file' = file
         \/ file'.processed = daemon.processed /\ file'.used = daemon.used /\ file'.cursor = daemon.cursor
  BY DEF Save, EngineTypeOK, Daemon, Saved
<1>4. EngineTypeOK'
  BY <1>1, <1>2, <1>3 DEF EngineTypeOK, seams, history
<1>5. FileKept' /\ CursorsOK' /\ TaintedOK' /\ BatchOK'
  BY <1>1, <1>2, <1>3 DEF FileKept, CursorsOK, TaintedOK, BatchOK, history
<1>6. DueOK'
  BY <1>1, <1>2 DEF DueOK, history
<1>7. ScanMissesNothing'
  BY <1>1, <1>2, <1>3 DEF ScanMissesNothing, history
<1>8. ProcessedIsDeposited'
  BY <1>1, <1>2, <1>3 DEF ProcessedIsDeposited, FileKept, seams
<1> QED BY <1>4, <1>5, <1>6, <1>7, <1>8

(* What a scan reads: the blocks from first up to the new cursor, unless    *)
(* the node is behind, when it reads nothing and the cursor does not gain.  *)
LEMMA ScanReads ==
  ASSUME NEW first \in Nat, NEW latest \in Nat, NEW scan \in Scanned(first, latest)
  PROVE  /\ scan.to \in Nat \cup {first - 1} /\ scan.to <= latest
         /\ scan.blocks \subseteq 1 .. latest \cup {0}
         /\ \A i \in Nat : first <= i /\ i < scan.to + 1 => i \in scan.blocks
         /\ \A i \in scan.blocks : first <= i /\ i <= latest
<1>1. CASE first > latest
  BY <1>1 DEF Scanned
<1>2. CASE ~(first > latest)
  BY <1>2 DEF Scanned
<1> QED BY <1>1, <1>2

LEMMA ScanKeeps == ASSUME EngineInv, Scan PROVE EngineInv'
<1> USE DEF EngineInv
<1>1. PICK latest \in DOMAIN chain : \E scan \in Scanned(ScanFrom(latest), latest) :
       /\ daemon' = [daemon EXCEPT !.pc = "screen", !.cursor = scan.to + 1,
                                   !.batch = Inbound(scan.blocks)]
       /\ origin' = IF daemon.cursor = NoCursor THEN ScanFrom(latest) ELSE origin
       /\ screened' = screened \cup Inbound(scan.blocks)
  BY DEF Scan
<1> PICK first : first = ScanFrom(latest)
  OBVIOUS
<1>2. PICK scan \in Scanned(first, latest) :
       /\ daemon' = [daemon EXCEPT !.pc = "screen", !.cursor = scan.to + 1,
                                   !.batch = Inbound(scan.blocks)]
       /\ origin' = IF daemon.cursor = NoCursor THEN first ELSE origin
       /\ screened' = screened \cup Inbound(scan.blocks)
  BY <1>1
<1>3. /\ daemon.pc = "scan" /\ daemon \in Daemon
      /\ UNCHANGED <<seams, chain, notes, sent, slot, listed, file, starts, due, tainted>>
  BY DEF Scan, EngineTypeOK
<1>4. Len(chain) \in Nat /\ DOMAIN chain = 1 .. Len(chain) /\ Len(chain) <= MaxBlocks /\ latest \in 1 .. Len(chain)
      /\ MaxBlocks \in Nat
  BY Blocks, AmountAssumption DEF EngineTypeOK
<1>5. /\ daemon.cursor \in Nat /\ first \in Nat /\ first # 0
      /\ daemon.cursor # NoCursor => first = daemon.cursor
      /\ daemon.cursor = NoCursor => first <= latest
  BY <1>3, <1>4, AmountAssumption DEF ScanFrom, NoCursor, Daemon
<1>6. /\ scan.to \in Nat /\ scan.to <= latest
      /\ \A i \in Nat : first <= i /\ i < scan.to + 1 => i \in scan.blocks
      /\ \A i \in scan.blocks : i \in Nat /\ first <= i /\ i <= latest
  <2>1. /\ scan.to \in Nat \cup {first - 1} /\ scan.to <= latest
        /\ scan.blocks \subseteq 1 .. latest \cup {0}
        /\ \A i \in Nat : first <= i /\ i < scan.to + 1 => i \in scan.blocks
        /\ \A i \in scan.blocks : first <= i /\ i <= latest
    BY <1>4, <1>5, ScanReads
  <2> QED BY <1>4, <1>5, <2>1
<1> PICK c : c = scan.to + 1
  OBVIOUS
<1> PICK b : b = Inbound(scan.blocks)
  OBVIOUS
<1>7. /\ c \in 1 .. Len(chain) + 1 /\ c \in 0 .. MaxBlocks + 1 /\ c # NoCursor
      /\ b \subseteq DOMAIN chain /\ b \subseteq 1 .. MaxBlocks
      /\ \A i \in b : daemon.view[chain[i].to] # 0
  <2>1. c \in 1 .. Len(chain) + 1 /\ c \in 0 .. MaxBlocks + 1 /\ c # NoCursor
    BY <1>4, <1>6 DEF NoCursor
  <2>2. scan.blocks \subseteq DOMAIN chain /\ scan.blocks \subseteq 1 .. MaxBlocks
    BY <1>4, <1>5, <1>6
  <2> QED BY <2>1, <2>2 DEF Inbound, Watched
<1>8. /\ daemon' = [daemon EXCEPT !.pc = "screen", !.cursor = c, !.batch = b]
      /\ screened' = screened \cup b
  BY <1>2
<1>9. /\ daemon' \in Daemon /\ daemon'.pc = "screen" /\ daemon'.cursor = c /\ daemon'.batch = b
      /\ daemon'.processed = daemon.processed /\ daemon'.used = daemon.used /\ daemon'.view = daemon.view
  BY <1>3, <1>7, <1>8 DEF Daemon
<1>10. EngineTypeOK'
  <2>1. origin' \in 0 .. MaxBlocks
    BY <1>2, <1>4, <1>5 DEF EngineTypeOK
  <2> QED BY <1>3, <1>7, <1>8, <1>9, <2>1 DEF EngineTypeOK, seams
<1>11. FileKept' /\ DueOK' /\ TaintedOK' /\ BatchOK'
  BY <1>3, <1>7, <1>9 DEF FileKept, DueOK, TaintedOK, BatchOK
<1>12. CursorsOK'
  BY <1>3, <1>4, <1>7, <1>9 DEF CursorsOK
<1>13. \A i \in due : first <= i /\ i < c => i \in b
  <2>1. \A i \in due : i \in Nat /\ daemon.view[chain[i].to] # 0 /\ chain[i].to \in Address
    <3>1. due \subseteq 1 .. Len(chain)
      BY <1>4 DEF EngineTypeOK
    <3>2. \A i \in due : chain[i] \in Inflow
      BY <3>1, Blocks
    <3> QED BY <1>3, <1>4, <3>1, <3>2 DEF DueOK, Inflow
  <2>2. \A i \in due : first <= i /\ i < c => i \in scan.blocks
    BY <1>6, <2>1
  <2> QED BY <2>1, <2>2 DEF Inbound, Watched
<1>14. ScanMissesNothing'
  <2> SUFFICES ASSUME NEW i \in due, NEW x \in {c, file.cursor}, origin' <= i, i < x
               PROVE  i \in screened'
    BY <1>3, <1>9 DEF ScanMissesNothing
  <2>0. i \in Nat /\ i # 0 /\ file.cursor \in Nat
    BY <1>4, Blocks, AmountAssumption DEF EngineTypeOK, Saved
  <2>1. CASE daemon.cursor = NoCursor
    <3>1. file.cursor = 0 /\ origin' = first
      BY <1>2, <1>3, <2>1 DEF FileKept, NoCursor
    <3> QED BY <1>8, <1>13, <2>0, <3>1
  <2>2. CASE daemon.cursor # NoCursor
    <3>1. origin' = origin /\ first = daemon.cursor
      BY <1>2, <1>5, <2>2
    <3>2. CASE x = file.cursor
      BY <1>8, <3>1, <3>2 DEF ScanMissesNothing
    <3>3. CASE x = c /\ i < daemon.cursor
      BY <1>8, <3>1, <3>3 DEF ScanMissesNothing
    <3>4. CASE x = c /\ ~(i < daemon.cursor)
      BY <1>5, <1>8, <1>13, <2>0, <3>1, <3>4
    <3> QED BY <3>2, <3>3, <3>4
  <2> QED BY <2>1, <2>2
<1>15. ProcessedIsDeposited'
  BY <1>3, <1>9 DEF ProcessedIsDeposited, seams
<1> QED BY <1>10, <1>11, <1>12, <1>14, <1>15

LEMMA ScreenKeeps == ASSUME EngineInv, Screen PROVE EngineInv'
<1> USE DEF EngineInv
<1> PICK clean : clean = {i \in daemon.batch \ daemon.processed : chain[i].payer \notin listed}
  OBVIOUS
<1> PICK stop : stop = (authority = "disarmed")
  OBVIOUS
<1>1. /\ daemon.pc = "screen" /\ daemon \in Daemon
      /\ UNCHANGED <<seams, chain, notes, sent, slot, listed, file, starts, due, screened, origin>>
      /\ tainted' = tainted \cup ((daemon.batch \ daemon.processed) \ clean)
  BY DEF Screen, EngineTypeOK
<1>2. daemon' = IF stop THEN [daemon EXCEPT !.pc = "save", !.batch = {}]
                ELSE [daemon EXCEPT !.pc = "deposit", !.batch = clean]
  BY DEF Screen
<1>3. /\ clean \subseteq daemon.batch /\ clean \cap tainted' = {}
      /\ \A i \in tainted' : chain[i].payer \in listed
      /\ tainted' \subseteq DOMAIN chain
  BY <1>1 DEF TaintedOK, EngineTypeOK
<1>4. /\ daemon' \in Daemon /\ daemon'.cursor = daemon.cursor /\ daemon'.view = daemon.view
      /\ daemon'.processed = daemon.processed /\ daemon'.used = daemon.used
      /\ \/ daemon'.pc = "save" /\ daemon'.batch = {}
         \/ daemon'.pc = "deposit" /\ daemon'.batch = clean
  <2>1. CASE stop
    BY <1>1, <1>2, <2>1 DEF Daemon
  <2>2. CASE ~stop
    BY <1>1, <1>2, <1>3, <2>2 DEF Daemon
  <2> QED BY <2>1, <2>2
<1>5. EngineTypeOK'
  BY <1>1, <1>3, <1>4 DEF EngineTypeOK, seams
<1>6. FileKept' /\ DueOK' /\ CursorsOK' /\ TaintedOK' /\ BatchOK'
  BY <1>1, <1>3, <1>4 DEF FileKept, DueOK, CursorsOK, TaintedOK, BatchOK
<1>7. ScanMissesNothing'
  BY <1>1, <1>4 DEF ScanMissesNothing
<1>8. ProcessedIsDeposited'
  BY <1>1, <1>4 DEF ProcessedIsDeposited, seams
<1> QED BY <1>5, <1>6, <1>7, <1>8

(* A deposit that is not skipped takes a slot of the registry.              *)
LEMMA PrecommitmentType ==
  ASSUME EngineInv, NEW i \in DOMAIN chain, HeadOf(i)
  PROVE  /\ Precommitment(i) \in Address \X (1 .. MaxSlots)
         /\ i \in 1 .. MaxBlocks /\ i \in daemon.batch /\ daemon.pc = "deposit"
<1>1. i \in daemon.batch /\ daemon.pc = "deposit" /\ chain[i].to \in Address
  BY Blocks DEF HeadOf, EngineInv, Inflow
<1>2. daemon.view[chain[i].to] \in 0 .. MaxSlots /\ daemon.view[chain[i].to] # 0
  BY <1>1 DEF EngineInv, EngineTypeOK, Daemon, BatchOK
<1>3. i \in 1 .. MaxBlocks
  BY Blocks, AmountAssumption DEF EngineInv, EngineTypeOK
<1> QED BY <1>1, <1>2, <1>3, AmountAssumption DEF Precommitment

LEMMA SucceedKeeps ==
  ASSUME EngineInv, NEW i \in DOMAIN chain, Succeed(i)
  PROVE  EngineInv'
<1> USE DEF EngineInv
<1> PICK p : p = Precommitment(i)
  OBVIOUS
<1> PICK total : total = daemon.spent + chain[i].amount
  OBVIOUS
<1>1. /\ p \in Address \X (1 .. MaxSlots) /\ i \in 1 .. MaxBlocks /\ daemon.pc = "deposit"
      /\ ~Skipped(i) /\ daemon \in Daemon
      /\ UNCHANGED <<seams, chain, sent, slot, listed, file, starts, history>>
  BY PrecommitmentType DEF Succeed, EngineTypeOK
<1>2. total \in 0 .. MaxSpend
  <2>1. chain[i].amount \in Nat /\ daemon.spent \in Nat
    <3>1. daemon.spent \in Nat
      BY <1>1, AmountAssumption DEF Daemon
    <3>2. chain[i] \in Inflow
      BY Blocks
    <3> QED BY <3>1, <3>2, AmountAssumption DEF Inflow
  <2>2. ~(total > MaxSpend)
    BY <1>1 DEF Skipped
  <2> QED BY <2>1, <2>2, AmountAssumption
<1>3. daemon' = [daemon EXCEPT !.batch = @ \ {i}, !.processed = @ \cup {i},
                              !.used = @ \cup {p}, !.spent = total]
  BY DEF Succeed
<1>4. /\ daemon' \in Daemon /\ daemon'.pc = "deposit" /\ daemon'.cursor = daemon.cursor
      /\ daemon'.view = daemon.view /\ daemon'.batch = daemon.batch \ {i}
      /\ daemon'.processed = daemon.processed \cup {i} /\ daemon'.used = daemon.used \cup {p}
  BY <1>1, <1>2, <1>3 DEF Daemon
<1>5. /\ notes \subseteq notes' /\ notes' \subseteq notes \cup {[of |-> i, at |-> p]}
      /\ authority # "dryRun" => [of |-> i, at |-> p] \in notes'
  BY DEF Succeed, Note
<1>6. EngineTypeOK'
  <2>1. [of |-> i, at |-> p] \in [of : 1 .. MaxBlocks, at : Address \X (1 .. MaxSlots)]
    BY <1>1
  <2>2. notes' \cup sent \subseteq [of : 1 .. MaxBlocks, at : Address \X (1 .. MaxSlots)]
    BY <1>5, <2>1 DEF EngineTypeOK
  <2> QED BY <1>1, <1>4, <2>2 DEF EngineTypeOK, seams, history
<1>7. FileKept' /\ DueOK' /\ CursorsOK' /\ TaintedOK' /\ BatchOK'
  BY <1>1, <1>4 DEF FileKept, DueOK, CursorsOK, TaintedOK, BatchOK, history
<1>8. ScanMissesNothing'
  BY <1>1, <1>4 DEF ScanMissesNothing, history
<1>9. ProcessedIsDeposited'
  <2> SUFFICES ASSUME authority # "dryRun", NEW k \in daemon'.processed \cup file.processed
               PROVE  \E n \in notes' : n.of = k /\ (k \in daemon'.processed => n.at \in daemon'.used)
                                        /\ (k \in file.processed => n.at \in file.used)
    BY <1>1 DEF ProcessedIsDeposited, seams
  <2>1. i \notin daemon.processed /\ i \notin file.processed
    BY <1>1 DEF Skipped, FileKept
  <2>2. CASE k = i
    <3> DEFINE n == [of |-> i, at |-> p]
    <3>1. n \in notes' /\ n.of = k /\ n.at \in daemon'.used
      BY <1>4, <1>5, <2>2
    <3> QED BY <2>1, <2>2, <3>1
  <2>3. CASE k # i
    <3>1. k \in daemon.processed \cup file.processed
      BY <1>4, <2>3
    <3> QED BY <1>4, <1>5, <2>3, <3>1 DEF ProcessedIsDeposited
  <2> QED BY <2>2, <2>3
<1> QED BY <1>6, <1>7, <1>8, <1>9

LEMMA FailDepositKeeps ==
  ASSUME EngineInv, NEW i \in DOMAIN chain, FailDeposit(i)
  PROVE  EngineInv'
<1> USE DEF EngineInv
<1> PICK p : p = Precommitment(i)
  OBVIOUS
<1>1. /\ p \in Address \X (1 .. MaxSlots) /\ i \in 1 .. MaxBlocks /\ daemon.pc = "deposit"
      /\ daemon \in Daemon
      /\ UNCHANGED <<seams, chain, notes, slot, listed, file, starts, history>>
  BY PrecommitmentType DEF FailDeposit, EngineTypeOK
<1>2. /\ daemon' \in Daemon /\ daemon'.pc = "deposit" /\ daemon'.cursor = daemon.cursor
      /\ daemon'.view = daemon.view /\ daemon'.batch = daemon.batch \ {i}
      /\ daemon'.processed = daemon.processed /\ daemon'.used = daemon.used
  BY <1>1 DEF FailDeposit, Daemon
<1>3. sent' \subseteq sent \cup {[of |-> i, at |-> p]}
  BY DEF FailDeposit, Note
<1>4. EngineTypeOK'
  <2>1. [of |-> i, at |-> p] \in [of : 1 .. MaxBlocks, at : Address \X (1 .. MaxSlots)]
    BY <1>1
  <2>2. notes \cup sent' \subseteq [of : 1 .. MaxBlocks, at : Address \X (1 .. MaxSlots)]
    BY <1>3, <2>1 DEF EngineTypeOK
  <2> QED BY <1>1, <1>2, <2>2 DEF EngineTypeOK, seams, history
<1>5. FileKept' /\ DueOK' /\ CursorsOK' /\ TaintedOK' /\ BatchOK'
  BY <1>1, <1>2 DEF FileKept, DueOK, CursorsOK, TaintedOK, BatchOK, history
<1>6. ScanMissesNothing'
  BY <1>1, <1>2 DEF ScanMissesNothing, history
<1>7. ProcessedIsDeposited'
  BY <1>1, <1>2 DEF ProcessedIsDeposited, seams
<1> QED BY <1>4, <1>5, <1>6, <1>7

(* A deposit mined after its call threw. *)
LEMMA MinedKeeps ==
  ASSUME EngineInv, NEW n \in sent, Mined(n)
  PROVE  EngineInv'
<1> USE DEF EngineInv
<1>1. /\ notes \subseteq notes' /\ notes' \cup sent' \subseteq notes \cup sent
      /\ UNCHANGED <<seams, chain, slot, listed, file, daemon, starts, history>>
  BY DEF Mined
<1>2. EngineTypeOK'
  BY <1>1 DEF EngineTypeOK, seams, history
<1>3. FileKept' /\ DueOK' /\ CursorsOK' /\ TaintedOK' /\ BatchOK' /\ ScanMissesNothing'
  BY <1>1 DEF FileKept, DueOK, CursorsOK, TaintedOK, BatchOK, ScanMissesNothing, history
<1>4. ProcessedIsDeposited'
  BY <1>1 DEF ProcessedIsDeposited, seams
<1> QED BY <1>2, <1>3, <1>4

-----------------------------------------------------------------------------
LEMMA EngineNextInv == ASSUME EngineInv, [EngineNext]_engineVars PROVE EngineInv'
<1>1. CASE UNCHANGED engineVars
  BY <1>1 DEF engineVars, seams, history, EngineInv, EngineTypeOK, FileKept, DueOK, CursorsOK,
              BatchOK, TaintedOK, ScanMissesNothing, ProcessedIsDeposited
<1>2. CASE EngineNext
  BY <1>2, TransferKeeps, RegisterKeeps, ListKeeps, QuietSteps, QuietKeeps, StartDaemonKeeps,
     CrashKeeps, SaveKeeps, ScanKeeps, ScreenKeeps, SucceedKeeps, FailDepositKeeps,
     MinedKeeps DEF EngineNext
<1> QED BY <1>1, <1>2

(* The forwarding daemon's invariant, for any addresses, payers, amounts,   *)
(* wirings, and number of blocks, registrations and restarts.               *)
THEOREM EngineInvariance == EngineSpec => []EngineInv
<1> QED BY EngineInitInv, EngineNextInv, PTL DEF EngineSpec

(* The daemon's memory, its file and the registry keep their shapes.        *)
THEOREM EngineTypes == EngineSpec => []EngineTypeOK
<1>1. EngineInv => EngineTypeOK
  BY DEF EngineInv
<1> QED BY <1>1, EngineInvariance, PTL

(* Whatever chunks fail and whenever the daemon dies, no cursor passes a    *)
(* transfer that was due without its having been screened (scanInbound).    *)
THEOREM NothingMissed == EngineSpec => []ScanMissesNothing
<1>1. EngineInv => ScanMissesNothing
  BY DEF EngineInv
<1> QED BY <1>1, EngineInvariance, PTL

(* What the memory or the file calls processed is in the pool, over any     *)
(* number of crashes, failed saves and rescans (processPendingDeposits).    *)
THEOREM Processed == EngineSpec => []ProcessedIsDeposited
<1>1. EngineInv => ProcessedIsDeposited
  BY DEF EngineInv
<1> QED BY <1>1, EngineInvariance, PTL

(* No deposit of a transfer is sent after its quarantine (screenInbound).   *)
THEOREM Quarantine == EngineSpec => QuarantineHolds
<1>1. ASSUME EngineInv, [EngineNext]_engineVars
      PROVE  \A n \in (notes' \cup sent') \ (notes \cup sent) : n.of \notin tainted
  <2>1. CASE notes' \cup sent' \subseteq notes \cup sent
    BY <2>1
  <2>2. CASE \E i \in DOMAIN chain : Succeed(i) \/ FailDeposit(i)
    <3>1. PICK i \in DOMAIN chain : Succeed(i) \/ FailDeposit(i)
      BY <2>2
    <3>2. i \notin tainted
      <4>1. i \in daemon.batch /\ daemon.pc = "deposit"
        BY <3>1 DEF Succeed, FailDeposit, HeadOf
      <4> QED BY <1>1, <4>1 DEF EngineInv, BatchOK
    <3>3. notes' \cup sent' \subseteq notes \cup sent \cup {[of |-> i, at |-> Precommitment(i)]}
      BY <3>1 DEF Succeed, FailDeposit, Note
    <3> QED BY <3>2, <3>3
  <2>3. CASE \E n \in sent : Mined(n)
    BY <2>1, <2>3 DEF Mined
  <2> QED
    BY <1>1, <2>1, <2>2, <2>3 DEF EngineNext, engineVars, Transfer, Register, List, StartDaemon, Crash,
       LoadRegistry, Scan, ScanNothing, ScanFails, Screen, ScreenFails, BatchDone, Save, Skip
<1>2. EngineInv /\ [EngineNext]_engineVars =>
        [\A n \in (notes' \cup sent') \ (notes \cup sent) : n.of \notin tainted]_engineVars
  BY <1>1
<1> QED BY <1>2, EngineInvariance, PTL DEF EngineSpec, QuarantineHolds
=============================================================================
