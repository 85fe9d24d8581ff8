--------------------------- MODULE ThresholdPostman ---------------------------
(***************************************************************************)
(* The threshold-signed association root: the contract                     *)
(* ThresholdEntrypoint.sol, and the daemons of its signers                 *)
(* (scripts/threshold-postman), which meet on a bus of one file per nonce. *)
(*                                                                         *)
(* Abstractions.  A node shows its signer some of the deposits, in chain   *)
(* order; the fetcher of the code is a stub, and nothing says that what it *)
(* shows is complete or only grows.  The screening is deterministic: the   *)
(* digest of its decisions stands for the set of deposits it screened, and *)
(* the root it gives is the set of labels it approves.  A signature is the *)
(* record of what was signed.  A tick's awaits are the places where the    *)
(* daemons interleave: the one before the signature, the one before the    *)
(* transaction is sent and the one until it is mined.  (The nonce is also  *)
(* read an await before the file; only a tick late for its nonce could     *)
(* tell.)  A tick that abstains changes nothing, nor does one that throws. *)
(***************************************************************************)
EXTENDS Naturals, FiniteSets

CONSTANTS
  Signers,      \* signer indices
  THRESHOLD,    \* 3 in the code, of 5 signers
  MaxDeposits,  \* bound: deposits ever made
  Before,       \* how many of them all nodes show when the daemons start
  Clean,        \* the deposits the screening approves
  Forwards,     \* a downstream Entrypoint is set
  MaxNonce,     \* bound: roots accepted
  MaxTxs,       \* bound: transactions not yet mined at once
  MaxFaults     \* bound: ticks that throw for an outside reason, and reads
                \* of a node that show less, or other deposits, than before

ASSUME SignersAssumption == Signers \subseteq Nat /\ IsFiniteSet(Signers)
ASSUME ThresholdAssumption == THRESHOLD \in Nat \ {0}
ASSUME BoundsAssumption ==
  /\ {MaxDeposits, MaxNonce, MaxTxs, MaxFaults} \subseteq Nat
  /\ MaxNonce > 0
  /\ Before \in 0 .. MaxDeposits
ASSUME CleanAssumption == Clean \subseteq 1 .. MaxDeposits
ASSUME ForwardsAssumption == Forwards \in BOOLEAN

VARIABLES
  seen,        \* the deposits each signer's node shows it
  nonce,       \* ThresholdEntrypoint.nonce
  latestRoot,  \* ThresholdEntrypoint.latestRoot; no label for zero
  bus,         \* the proposal file of each nonce
  tick,        \* where each daemon is, and what it holds
  txs,         \* updateRoot transactions sent and not mined
  signed,      \* every signature ever made
  faults

vars == <<seen, nonce, latestRoot, bus, tick, txs, signed, faults>>

Deposits == 1 .. MaxDeposits

Decisions == SUBSET Deposits  \* what a digest of decisions stands for

Nonces == 0 .. MaxNonce - 1

Root(events) == Clean \cap events

Proposal == [newRoot : SUBSET Clean, decisionDigest : Decisions, signatures : SUBSET Signers]

NoProposal == [newRoot |-> {}, decisionDigest |-> {}, signatures |-> {}]

Idle == [pc |-> "idle", nonce |-> 0, events |-> {}, proposal |-> NoProposal]

Attestation == [signer : Signers, nonce : Nonces, newRoot : SUBSET Clean, events : Decisions]

Tx == [nonce : Nonces, newRoot : SUBSET Clean, signers : SUBSET Signers]

-----------------------------------------------------------------------------
(* What a node shows *)

(* A deposit shows up at a signer's node. *)
See(s) ==
  /\ \E deposit \in Deposits \ seen[s] : seen' = [seen EXCEPT ![s] = @ \cup {deposit}]
  /\ UNCHANGED <<nonce, latestRoot, bus, tick, txs, signed, faults>>

(* Between two ticks, the node lags, has another window of blocks, or drops *)
(* what it showed.                                                          *)
Lag(s) ==
  /\ tick[s].pc = "idle"
  /\ faults < MaxFaults
  /\ faults' = faults + 1
  /\ \E events \in Decisions \ {seen[s]} : seen' = [seen EXCEPT ![s] = events]
  /\ UNCHANGED <<nonce, latestRoot, bus, tick, txs, signed>>

-----------------------------------------------------------------------------
(* One tick of a daemon *)

(* The proposal on the bus for the nonce of now, or one of the signer's own. *)
Loaded(s) ==
  IF bus[nonce] = NoProposal
  THEN [newRoot |-> Root(seen[s]), decisionDigest |-> seen[s], signatures |-> {}]
  ELSE bus[nonce]

(* Fault: only the roots are compared. *)
DivergedRoots(s, proposal) == proposal.newRoot # Root(seen[s])

Diverged(s, proposal) ==
  \/ proposal.decisionDigest # seen[s]
  \/ proposal.newRoot # Root(seen[s])

(* Fault: the leader waits for exactly the threshold. *)
LeadsExactly(s, signatures) ==
  /\ Cardinality(signatures) = THRESHOLD
  /\ s \in signatures
  /\ \A t \in signatures : s <= t

(* Step 7: who submits. *)
Leads(s, signatures) ==
  /\ Cardinality(signatures) >= THRESHOLD
  /\ s \in signatures
  /\ \A t \in signatures : s <= t

(* Steps 1 to 5: the nonce, the screening, its root and the proposal; and   *)
(* what follows at once for a signer that has signed.  The tree of no       *)
(* labels has no root, and the tick throws.                                 *)
Start(s) ==
  /\ tick[s].pc = "idle"
  /\ nonce < MaxNonce
  /\ Root(seen[s]) # {}
  /\ ~Diverged(s, Loaded(s))
  /\ s \in Loaded(s).signatures => Leads(s, Loaded(s).signatures)
  /\ tick' = [tick EXCEPT ![s] =
                [pc |-> IF s \in Loaded(s).signatures THEN "submit" ELSE "sign",
                 nonce |-> nonce, events |-> seen[s], proposal |-> Loaded(s)]]
  /\ UNCHANGED <<seen, nonce, latestRoot, bus, txs, signed, faults>>

(* Step 6: the copy that was loaded goes back to the bus with one more      *)
(* signature, whatever has been saved meanwhile.                            *)
Sign(s) ==
  /\ tick[s].pc = "sign"
  /\ LET proposal == [tick[s].proposal EXCEPT !.signatures = @ \cup {s}]
     IN /\ signed' = signed \cup {[signer |-> s, nonce |-> tick[s].nonce,
                                   newRoot |-> Root(tick[s].events), events |-> tick[s].events]}
        /\ bus' = [bus EXCEPT ![tick[s].nonce] = proposal]
        /\ tick' = [tick EXCEPT ![s] = IF Leads(s, proposal.signatures)
                                       THEN [@ EXCEPT !.pc = "submit", !.proposal = proposal]
                                       ELSE Idle]
  /\ UNCHANGED <<seen, nonce, latestRoot, txs, faults>>

(* The gas is fixed, so the transaction is sent whether or not it would pass. *)
Submit(s) ==
  /\ tick[s].pc = "submit"
  /\ Cardinality(txs) < MaxTxs
  /\ txs' = txs \cup {[nonce |-> tick[s].nonce, newRoot |-> Root(tick[s].events),
                       signers |-> tick[s].proposal.signatures]}
  /\ tick' = [tick EXCEPT ![s] = Idle]
  /\ UNCHANGED <<seen, nonce, latestRoot, bus, signed, faults>>

(* A call to the node or a read of a half-written file throws. *)
Throw(s) ==
  /\ tick[s].pc # "idle"
  /\ faults < MaxFaults
  /\ faults' = faults + 1
  /\ tick' = [tick EXCEPT ![s] = Idle]
  /\ UNCHANGED <<seen, nonce, latestRoot, bus, txs, signed>>

-----------------------------------------------------------------------------
(* The contract *)

(* The signature of s that the transaction carries recovers to s: s made    *)
(* it, over this root and, now, this nonce.                                 *)
Recovers(s, tx) ==
  /\ tx.nonce = nonce
  /\ \E attestation \in signed :
       attestation.signer = s /\ attestation.newRoot = tx.newRoot /\ attestation.nonce = tx.nonce

Quorum(tx) ==
  /\ Cardinality(tx.signers) >= THRESHOLD
  /\ \A s \in tx.signers : s \in Signers /\ Recovers(s, tx)

(* The length of the placeholder the coordinator passes for a CID. *)
CidLength == 11

(* _pushRootDownstream: the Entrypoint's own updateRoot must accept. *)
DownstreamAccepts(newRoot) ==
  Forwards => newRoot # {} /\ CidLength \in 32 .. 64

(* updateRoot; one that reverts changes nothing. *)
UpdateRoot(tx) ==
  /\ IF Quorum(tx) /\ DownstreamAccepts(tx.newRoot)
     THEN latestRoot' = tx.newRoot /\ nonce' = nonce + 1
     ELSE UNCHANGED <<latestRoot, nonce>>
  /\ txs' = txs \ {tx}
  /\ UNCHANGED <<seen, bus, tick, signed, faults>>

-----------------------------------------------------------------------------
Init ==
  /\ seen = [s \in Signers |-> 1 .. Before]
  /\ nonce = 0
  /\ latestRoot = {}
  /\ bus = [n \in Nonces |-> NoProposal]
  /\ tick = [s \in Signers |-> Idle]
  /\ txs = {}
  /\ signed = {}
  /\ faults = 0

Tick(s) == Start(s) \/ Sign(s) \/ Submit(s)

Next ==
  \/ \E s \in Signers : See(s) \/ Lag(s) \/ Tick(s) \/ Throw(s)
  \/ \E tx \in txs : UpdateRoot(tx)

(* The daemons poll, their nodes catch up, and transactions are mined. *)
Fairness ==
  /\ \A s \in Signers : WF_vars(See(s)) /\ WF_vars(Tick(s))
  /\ WF_vars(\E tx \in txs : UpdateRoot(tx))

Spec == Init /\ [][Next]_vars

FairSpec == Spec /\ Fairness

-----------------------------------------------------------------------------
(* Properties *)

(* Types: counters stay in their bounds, and a proposal, a signature and a  *)
(* transaction have the shapes the code gives them.                         *)
TypeOK ==
  /\ seen \in [Signers -> Decisions]
  /\ nonce \in 0 .. MaxNonce
  /\ latestRoot \subseteq Clean
  /\ bus \in [Nonces -> Proposal]
  /\ tick \in [Signers -> [pc : {"idle", "sign", "submit"}, nonce : Nonces,
                           events : Decisions, proposal : Proposal]]
  /\ txs \subseteq Tx
  /\ signed \subseteq Attestation
  /\ faults \in 0 .. MaxFaults

(* Every root the contract accepts was computed from the very same          *)
(* decisions by a threshold of signers, although signatures bind only the   *)
(* root, proposals overwrite one another on the bus, and the nodes may show *)
(* anything.                                                                *)
OneDecisionPerRoot ==
  [][nonce' # nonce =>
       \E k \in Decisions :
         /\ latestRoot' = Root(k)
         /\ Cardinality({s \in Signers :
              [signer |-> s, nonce |-> nonce, newRoot |-> latestRoot', events |-> k] \in signed})
              >= THRESHOLD]_vars

(* A proposal stops its nonce when no signer agrees with it any more. *)
Stopped ==
  /\ nonce < MaxNonce
  /\ bus[nonce] # NoProposal
  /\ \A s \in Signers : bus[nonce].decisionDigest # seen[s]

(* The quorum goes on accepting roots, through lost signatures, ticks that  *)
(* throw, nodes that lag and transactions that revert, unless what the      *)
(* nodes show has left a proposal behind that has not landed.               *)
QuorumGoesOn == <>(nonce = MaxNonce \/ Root(Deposits) = {}) \/ <>[]Stopped
=============================================================================
