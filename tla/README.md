# zBase in TLA+

A verification development of zBase: private USDC payments over a Privacy Pools
deployment, with an application server (Next.js routes and daemons), a client
library and a Solana port around it. The modules here are translated from the
source; `PROJECT.json` maps every definition to the lines it stands for. All paths
below are relative to the repository.

* [Inventory](#inventory): the parts of the system and what makes each correct
* [Modules](#modules): which module models which part, and how
* [Runs](#runs): what TLC checks, on which instances
* [Findings](#findings): where the code does not do what it says
* [Proofs](#proofs): what TLAPS proves, and from what
* [Limits](#limits): abstractions, and what is only model-checked
* [Plan](#plan): what comes next

Run a model with `tlc -config MCEntrypoint.cfg MCEntrypoint`, the proofs of a module with
`tlapm EntrypointProofs.tla`.

## Inventory

The contracts are in `zbase-protocol/pkg/contracts/src`, the server in `src/app/api` and
`src/lib`, the client library in `packages/core/src`, the daemons in `scripts`, the Solana
port in `packages/svm`.

| Component | State | Operations | What is hard | What makes it correct |
|---|---|---|---|---|
| **Pool state** (`vendor/0xbow/contracts/State.sol`, `LeanIMT`) | tree of commitments, ring buffer of 64 roots, nullifiers, depositors, nonce, dead flag | `_insert`, `_spend`, `_isKnownRoot` | wrapping index; proofs made against roots that move | the buffer knows exactly the newest roots; a nullifier is spent once |
| **Privacy pool** (`PrivacyPool.sol`, `PrivacyPoolComplex.sol`) | token balance | `deposit`, `withdraw`, `ragequit`, `windDown` | two ways to spend one note; late, replayed and stale proofs | no label pays more than its deposit; the exit is always open |
| **Entrypoint** (`Entrypoint.sol`) | asset configuration, association (ASP) roots, used precommitments, collected fees | `deposit`, `relay`, `updateRoot`, `registerPool`, `removePool`, `updatePoolConfiguration`, `windDownPool`, `withdrawFees` | owner transactions overtake pending ones; fees leave the backing | the pool holds what its notes add up to |
| **UTXO pool** (`contracts/UTXOPool.sol`, `circuits/note_spend`) | frontier of the tree, ring of roots, nullifiers | `deposit`, `spend`, `transfer` | value across two notes; a tree known by its frontier; proofs against roots that move | value is conserved over exchanges of notes, as long as wallets use the nullifiers they keep; the frontier's root is the tree's |
| **Private x402 settlement** (`api/facilitator/settle-x402`, `lib/settlement-store.ts`, `packages/core/src/facilitatorClient.ts`) | Redis record and lease per nullifier; the client's retry state | `settlePrivatelyX402`, POST, reserve / finalize / release | lost answers, retries, leases that run out, serverless functions ended half way, store calls that fail after taking effect | a settled answer is backed by the withdrawal that spent the note; an answer that says unspent is right |
| **x402 sellers and exact facilitator** (`lib/private-x402-seller.ts`, `lib/x402-facilitator.ts`, `api/facilitator/x402`, `lib/x402-exact-payment.ts`, `lib/postman-signer.ts`) | the buyer's current note; the token's used authorizations | `createPrivateFetch`, `payAndFetch`, `withPrivateX402`, verify, settle | a header presented more than once; transfers that land late; a note read before an await | a delivery is paid by its own request; an error is never paid for; no note is skipped |
| **Withdrawal route** (`api/withdraw`) | an indexer cache; the chain | POST: screen, prove, post a root, relay, wait for the receipt | broadcast without an answer | nothing is broadcast after a 400 or 503 |
| **Facilitator authorisation and fees** (`lib/facilitator-authz.ts`, `api/facilitator/authorize`, `settle`, `verify`, `api/agent/register`, `api/user/upgrade`) | Redis: consumed payments, tiers, premium; agents in memory | authorise, upgrade, settle, register an agent | one payment claimed twice over instances; a limit read before an await; keys that lapse; restarts | a payment buys one thing once; a tier was paid for; a limit is exceeded by what is in flight only |
| **Deposit vault** (`lib/deposit-vault.ts`, `api/vault`, `app/app/page.tsx`, `components/test/DepositWithdraw.tsx`) | one versioned encrypted record per wallet; localStorage per browser; a cache, seed and version per tab | unlock, save, persist with one retry, ensure a seed; GET, PUT | two tabs, answers that arrive late, tabs that close, a version check that is not one step with the write | no note and no spent mark is ever lost; a seed handed out stays |
| **Forwarding engine** (`scripts/forwarding-engine.ts`, `lib/forwarding-*.ts`, `api/forwarding/register`) | state file (processed, used precommitments, cursor), memory of the daemon, registry | scan, screen, deposit within a budget, save; register | crashes between deposit and save, chunks that fail, lagging nodes | nothing seen is dropped, processed means deposited, quarantined means no deposit is sent |
| **ASP root updater** (`lib/asp-root-updater.ts`, `asp-update-state.ts`, `deposit-confirmation.ts`, `api/asp-update`, `api/deposits/confirm`) | Redis lease, deposit records, the on-chain root | rebuild the approved set, post it, wait | the lease runs out; the withdrawal route posts roots without it | an older set never replaces a newer one; a confirmed deposit is included |
| **Threshold entrypoint and postman** (`contracts/ThresholdEntrypoint.sol`, `scripts/threshold-postman`) | nonce and latest root; one proposal file per nonce; the daemons' ticks | `updateRoot` with k signatures, propose, sign, submit | daemons overwrite one another's file; nodes at different heights; transactions that revert | a root is the decision of a quorum; approvals never go back; the quorum goes on |
| **SVM pool and payments** (`packages/svm`) | pool, nullifier and deposit accounts, orders; the client scheme's map, the application's books; the facilitator's set in flight | deposit, relay, fulfil, update root, pause; prepare, pay, reconcile; verify, settle | answers in doubt, retries, a note whose change is pending, a frontier without its tree | no money is lost in doubt; what is called spendable is safe to spend; what is delivered is paid |
| **Decoy scheduler** (`lib/decoy-state.ts`, `api/cron/decoy*`, `scripts/decoy-scheduler.ts`) | daily budget, working set of notes | pick, spend, put back | read-modify-write over Redis; an answer lost after a spend | the budget is a bound; no note is lost |
| **Executor processooor** (`contracts/ExecutorProcessooor.sol`) | none of its own | withdraw, call out, forward the balance | an external call in the middle | only the withdrawn amount moves |
| **Note scanner, indexer, rate limiter, readiness gate** | caches | pure functions and adapters | stale caches | recovery finds every note |
| Circuits, UI, MCP server, docs | | | | outside state machines |

How they interact. A user deposits through the **Entrypoint** into the **pool**; the page
saves the note in the **vault**. The **ASP updater** posts the set of approved labels. A
withdrawal is proved by the **withdrawal route** against the newest state root and
association root, and relayed through the Entrypoint. A private x402 payment asks the
**settlement route**, which takes a lease on the note's nullifier, asks the withdrawal route
to pay a fresh account, and hands the buyer a payment header signed by that account. The
buyer presents the header to the **seller**, who verifies it, runs the handler and has the
**exact facilitator** broadcast the transfer it authorizes. Plain settlements go through the
**facilitator**, which charges by the tier a payment bought. The
**forwarding engine** watches addresses for inbound USDC and deposits it for their owners. A
group of **threshold postmen** may post the association roots instead of one.
The components share the chain, Redis and, for one wallet, the vault record; they call each
other over HTTP, where every call may be lost, answered late or cut off.

The hazards this leads to, each at its line, are listed in `PROJECT.json`.

## Modules

| Module | Models | Lines of code it stands for |
|---|---|---|
| `PoolState` | tree, root buffer, nullifiers | `State.sol` |
| `PrivacyPool` (extends `PoolState`) | the calls of one pool | `PrivacyPool.sol`, `PrivacyPoolComplex.sol`, `ProofLib.sol` |
| `Entrypoint` (extends `PrivacyPool`) | the whole contract system as transactions | `Entrypoint.sol`, and the proof built in `api/withdraw/route.ts` |
| `NoteLedger` | what a pool promises: lines of credit | abstract, implemented by `Entrypoint` and by `SvmPayment` |
| `LeanIMT` | node hashes, depths, and the tree over a sequence of leaves | the reference both frontier trees are compared with |
| `UTXOPool` (extends `LeanIMT`) | the pool of two-in, two-out notes | `contracts/UTXOPool.sol`, `note_spend.circom` |
| `UTXOLedger` | what that pool promises: exchanges of notes | abstract, implemented by `UTXOPool` |
| `SvmPool` (extends `LeanIMT`) | the instructions of the two Solana programs | `packages/svm/programs` |
| `SvmPayment` (extends `SvmPool`) | buyer, client scheme, facilitator, another depositor, postman | `packages/svm/sdk`, the SVM client scheme and facilitator |
| `SettleX402` | one note, its buyer, the route, the store, the chain | `facilitatorClient.ts`, `settle-x402/route.ts`, `settlement-store.ts`, `withdraw/route.ts` |
| `PrivateFetch` | a buyer's purchases, the sellers, the exact facilitator | `facilitatorClient.ts`, `private-x402-seller.ts`, `x402-facilitator.ts`, `api/facilitator/x402`, `postman-signer.ts` |
| `Facilitator` | requests that buy access and premium or settle, over Redis | `facilitator-authz.ts`, `api/facilitator/*`, `api/user/upgrade`, `api/agent/register` |
| `DepositVault` | tabs, browsers, requests, the route | `deposit-vault.ts`, `api/vault/route.ts`, the two pages |
| `ForwardingEngine` | daemon, state file, registry, chain | `scripts/forwarding-engine.ts`, `lib/forwarding-*.ts`, `register/route.ts` |
| `AspUpdater` | the runs that post association roots, their lease, the mempool | `asp-root-updater.ts`, `asp-update-state.ts`, `deposit-confirmation.ts`, `api/asp-update`, `api/deposits/confirm`, `api/cron/asp-update`, and the root update of `withdraw/route.ts` |
| `ThresholdPostman` | the signers' daemons, their bus, the contract | `scripts/threshold-postman`, `ThresholdEntrypoint.sol` |
| `EntrypointProofs`, `UTXOPoolProofs`, `X402Proofs`, `PrivateFetchProofs`, `FacilitatorProofs`, `DepositVaultProofs`, `AspUpdaterProofs`, `DaemonProofs` | lemmas and theorems about the module each extends; `X402Proofs` about `SettleX402` and `SvmPayment`, `DaemonProofs` about the two daemons, `ThresholdPostman` and `ForwardingEngine` | |
| `MC*` | instances for TLC | |

`PROJECT.json` has the exact lines, definition by definition. Definitions whose comment starts with "Fault:" are
altered copies of the operator that follows them. They take part in no behaviour; each shows that a property
notices the mistake it describes.

### PoolState, PrivacyPool, Entrypoint

One action is one transaction, since transactions are atomic and totally ordered. What
interleaves is what a client computed before its transaction landed: `Prove` builds a
withdrawal proof against the roots of that moment and leaves it in `proofs`, from where
`Relay` and `Withdraw` may submit it late, more than once, with another withdrawal than it
was made for, or never. A Solidity `require` is a conjunct, so a reverted transaction is a
transaction that does not happen.

* `leaves`, `roots`, `currentRootIndex`, `nullifierHashes`, `depositors`, `nonce`, `dead` are
  the storage of `State.sol`. A commitment is the record of what Poseidon hashes, a label is
  its nonce, a root is the number of leaves under it (the tree only grows). All this says is
  that the hashes are injective.
* A precommitment is a model value; `NullifierOf` gives the nullifier behind it. Two
  precommitments may share a nullifier: the contract compares precommitments at deposit and
  nullifiers at withdrawal, so such a pair of notes is a state the program can be in, with
  one of the two locked for good.
* `balance` is the token. `Relay` moves it as the contract does: pool to Entrypoint, then to
  the recipient and the fee recipient, then compares the Entrypoint's balance.
* The withdrawal circuit is external code. Its constraints are the conjuncts of `Prove`:
  the note is under the state root, its label under the ASP root, the amount is at most its
  value, and the change note has another nullifier.
* `consumed`, `funded`, `paid` are history variables that no guard reads.

`NoteLedger` is the specification a depositor would sign: a deposit opens a line of credit;
credit is drawn piecemeal while the line is approved or closed to its owner at once; the
vault's cash changes in no other way. The refinement (`Ledger` in `Entrypoint`) maps credit to
`funded - paid`, approval to the ASP root in force, and cash to the token. It is checked by TLC
and proved.

### LeanIMT, UTXOPool, UTXOLedger

A transaction is one action, and proofs wait in `proofs` between `Prove` and the transaction that takes them, as in
`Entrypoint`. Here the tree is modelled as the contract keeps it: `Insert` climbs from the new leaf over
`sideNodes` and parks a node, `NewRoot` is written to the ring, and only the events remember the leaves.
`LeanIMT!Rows` computes the same tree from all leaves, so `FrontierIsLeanIMT` compares the two root by
root. A node is the pair of its children, which makes hashes injective without arithmetic.

The circuit (`Satisfiable`) asks of both inputs that they are in the tree, also of a dummy with amount 0: so a wallet can only spend
two notes that were inserted. It takes one depth for both, so their inclusion proofs must be equally long (`PathLength`). `UTXOLedger` keeps the set of live notes: `Mint`, and `Exchange` of two for two worth no
more. The refinement maps live notes to the inserted and unspent ones.
A spend pays nothing out in the contract as it is, so a withdrawn amount just leaves the notes.

**What the circuit does not bind.** A commitment is `Poseidon3(amount, npk, secret)` (`note_spend.circom:106-129`). The
nullifier and the label of a note are witnesses of their own: neither is hashed into the commitment (337-347), the label is only
asked to be under the association root (381-389); how a label would be folded into the `npk` off chain is a gap `notes.ts:56-61` leaves to
the audit. So `Prove` lets the prover choose both. Two promises are the weaker for it:

* *A note is spent once* holds of wallets that use the nullifier they drew with the note (`createNote`), not of the circuit.
  `astray` records the first settlement under another nullifier; up to it the pool implements `UTXOLedger` (`LedgerSpec`), and after
  it a note may move again and value is no longer conserved. Without the exemption TLC finds the ledger violated at once.
* *A note moves under its own label* is not promised at all. `SettledAsProved` says what is: the labels named are under the root
  published at that moment, though the state root of the proof may be an older one; the inputs are leaves, worth the two leaves added;
  and two nullifiers are consumed that were never used.

### SvmPool, SvmPayment

`SvmPool` has one action per instruction that succeeds; a Solana transaction that fails changes nothing. The pool's
tree is a frontier again, of another shape (`ParkLevel`: a leaf climbs as long as it is a right child, and what
is left over is folded into the root), and is compared with the same reference.

`SvmPayment` puts the clients around it. A note of the buyer's is "spendable", "locked" or "pending" in `books`, as the
client scheme's hooks ask of an application; `preparedByNullifier` is the scheme's map of payments that are in doubt;
a *request* carries one payment and goes on when the client has stopped waiting. The facilitator (`Verify`, `Settle`,
`Land`, `Confirm`, `RelayThrows`) keeps `settlementsInFlight` in memory and loses it in a crash. `Other` prepares payments that a
relayer may submit whenever it likes (`handed`), so roots, slots of the ring and orders move under the buyer's feet.
The pool implements `NoteLedger`, the specification the EVM pool implements.

### SettleX402

The actors are the buyer (`Call`, `Attempt`, `Receive`, `LoseAnswer`, `GiveUp`), the runs of
the route, the runs of the withdrawal route and the chain. Each attempt starts a *post*, which
goes on when the buyer has stopped waiting, and a post asks for a withdrawal which goes on
when the post has ended (`asked`, `mempool`). The steps of a post are the calls of the code
between which others may run: `GetRecord`, `GetLock`, `CheckChain`, `Reserve`,
`WithdrawRejected` / `WithdrawFailed` / `WithdrawSucceeded`, `Release`, `Finalize`. A call of the store may fail before or after it took effect; `Crash` ends a post anywhere. The Lua
scripts are atomic, so `Reserve`, `Release` and `Finalize` are one step each. `ExpireLock` and `ExpireRecord`
are TTLs running out, which may happen at any moment since nothing bounds how long a
withdrawal stays unconfirmed. A header is named by its seller: the payer account is derived from the note and
the seller, so it identifies which account the money went to. Without Redis (`storeOn` false)
the route only looks at the chain.

### PrivateFetch

It starts where `SettleX402` ends: of a settlement it takes what that module shows, and of the change note
only its number. A *purchase* (`buys`) is a call of the buyer's fetch, a *run* a request with a payment header at a
seller: it verifies, runs the handler, has the transfer broadcast, waits for the receipt and answers, and any of these may be the last
(`Crash`), with the answer lost or not. `relays` are transfers that may still land, each under the authorization of its note,
which the token uses up once (`usedBy`). `overlap` says that the buyer's program calls again before it has
the answer; the note it pays with is read before the first await and written after the last.

### Facilitator

A *request* (`req`) is one of `authorize`, `user/upgrade` and `settle`, in one of a few slots; the awaits of the routes
are the places where they interleave: the look at the consumed key, the claim (`SET NX`), the write of the tier, the
read of the limit (`Settle`), the withdrawal, the count of what was spent (`Answer`). Reading a receipt changes nothing and is part of the
step that uses it. `Lapse` is a TTL running out, `DayOver` the end of an agent's day, `Restart` the loss of what
the server keeps in memory, `Die` a request that ends anywhere, whose withdrawal may land all the same.

`Authorize` asks that the sender of the payment signed this payment and this nullifier (`SignsFor`); nobody asks whose the
nullifier is, so a payer may buy for another. `Settle` is the branch of the single-value pool: tier, minimum, the agent's two limits and the
list of those it may pay. `SettleUtxo` is the branch of the note pool, which takes the nullifier's tier, the minimum and the limit per payment,
and looks neither at the day nor at the list; `Forward` counts nothing in the registry. `spent` and `forwarded` are the history that says so.

### DepositVault

Every `persist()` is a *put*: it takes its snapshot when called and outlives its tab. The route
checks the version (`Check`) and writes (`Write`) in two steps, as the code does. A deposit list
is the set of notes it holds and the subset marked spent; the ciphertext is its plaintext, as
only the wallet's tabs hold the key. `Deposit` and `MarkSpent` are functional updates of the
list; `BeginWithdraw` / `FinishWithdraw` is the withdrawal of `app/app/page.tsx`, which reads the list,
awaits the route and saves the list it had read. `Fail` is a put that does not end well: no
answer, an error status, a second 409, an expired session.

Nothing in the code keeps two PUTs of the route apart, the saves of a tab, or the tabs of a browser, and nothing in the model does: every
overlap is a behaviour. The code loses notes in some of them (see below), so the history `raced` notes each kind of step that takes something away, at the step
that does it: `"put"`, a put is written although the record has moved on since its check; `"list"`, a withdrawal saves the list it read before it
was awaited, and that list lacks something; `"browser"`, a tab writes localStorage over what another tab left there; `"clear"`, a confirmed put
clears from localStorage what it did not hold. The properties hold until then: `VaultKeeps` and `VersionIsKnowledge` until a `"put"` or a `"list"`
(`Ordered`), whatever happens to localStorage, `NeverMemoryOnly` until any of the four. They say that these four steps are the only
ways to lose a note. `NeverClobbered` and `NoteSomewhere` are the same without the exemption, as the comments of the code have it, and are refuted. `AppTab` says which tabs show which page.

### ForwardingEngine

The daemon goes through its cycle (`LoadRegistry`, `Scan`, `Screen`, one of `Skip` / `Succeed`
/ `FailDeposit` per transfer, `BatchDone`, `Save`) and may `Crash` between any two. A block holds one transfer.
A scan reads a prefix of the blocks it wants, shorter when the node lags or a chunk fails. The batch is the set of
its transfers, of which the earliest (`HeadOf`) is always next. A
save that fails is logged and forgotten. The core takes an authority and a source of
precommitments as parameters; `Wirings` gives the pairs considered. Those the script wires are
`dryRun` and `disarmed` (`makeAuthority` throws) with the public view of the registry, which has no
precommitments. `sweep` with the registry itself is what its comments describe as the rearmed rail,
built from `createB1DepositAuthority`. A call that throws may have sent its transaction (`postman-signer.ts:243-262` waits for the receipt
afterwards): `FailDeposit` leaves the deposit in `sent`, from where it is mined at any later time, reverts, or is forgotten (`Mined`).

### AspUpdater

A *worker* is a run of a route: of `deposits/confirm` (`Confirmer`, which starts with `Confirm` and
`Queue`), of `asp-update` (`Cron`, `Operate`), or of `withdraw` as far as it concerns the root
(`Withdrawer`). The first two share `refreshAspRoot`, whose calls are the actions `Acquire`, `Scan`,
`Compare`, `Check`, `Submit`, `Confirmed` / `TimeOut`, `WriteRecord`, `Release`; between any two
others may run, the call may throw (`Throw`, the `catch` that writes "queued"), and the run may end (`Crash`).
`Scan` reads the head and the events: `n` smaller than `deposited` is a lagging node.

* `lock` is the Redis key. Its token is random in the code; here it is the worker, and becomes
  `Orphan` once the run that took it is gone, so `Release` by a later run of that worker cannot delete it.
  `Lapse` is the 180 s TTL running out under a live run, remembered in `lapsed`: "early" when the
  check before the submission is still to come, "late" when it is past.
* `mempool` holds the postman's transactions. One account sends them all, so they are mined in nonce
  order; `Drop` is a transaction that never lands.
* `record` is the `DepositAspRecord`; `Put` is the store's rule that a terminal status stays.
* The withdrawal route takes its labels from its index, when that agrees with the chain, or from its own
  scan; it compares and submits with no lease.
* A deposit is its number; a root is the set of labels under it. `approvedOnce` and `screenedOut` are
  history variables.

### ThresholdPostman

A tick of a daemon loads the proposal of the current nonce or starts one, compares it with its own screening, signs, writes the file back, and,
when its signature completes a quorum and it is the lowest index that signed, submits. The file is read and written in two
steps (`Start`, `Sign`), so daemons overwrite each other's signatures. A tick that abstains changes nothing, and is no step. `seen` is the set of deposits a signer's node shows it; the screening
is a function of that (it sorts what it is given), so a decision digest is a set of deposits and a root is `Root(events)`. The fetcher is a stub
(`coordinator.ts:384-387`) and the doc speaks of deposits "since the latest accepted root" (`:16`), so nothing is assumed of what a node shows: `See` adds a
deposit, in any order, and `Lag` replaces the selection by any other. `Lag` counts as a fault, as liveness needs it to end. `UpdateRoot` is the
contract: nonce, threshold, and each signer counted once; the daemons are the only ones to submit. `signed` is a history of every signature made.

## Runs

Bounds are constants of the modules; every one is named there. `CHECK_DEADLOCK FALSE` in a
configuration means that the bounded instance comes to an end: users run out of tokens, calls,
notes, blocks, nonces or starts. The cron never does, so `asp` and `asp_live` check deadlock.

| Run | Instance | Shows |
|---|---|---|
| `pool` | a deposit of 4 of which a fee takes 2, 3 precommitments of which two share a nullifier, a second configuration that refuses, root buffer of 2, 4 leaves, 2 proofs in flight, wind-down, removal | `ExitAlwaysPossible`, `Solvency`, `SpentExactly`, `OneLiveNotePerLabel`, `LabelConservation`, `RootWindow`, `LedgerSpec` |
| `utxo` | 3 deposits, 2 labels each approved without the other, 6 notes, 1 nullifier of the prover's choice, 2 proofs in flight, 3 root slots, depth 3 | `FrontierIsLeanIMT`, `RootWindow`, `SettledAsProved`, `LedgerSpec` |
| `svm` | 2 users, 4 notes, 2 requests, 1 handed payment, 2 root slots, depth 3, fees of half the amount, 1 fault | `FrontierIsLeanIMT`, `NothingLost`, `SpendableIsSafe`, `DeliveredIsPaid`, `LedgerSpec` |
| `settle_x402` | 2 sellers, 2 calls of 2 attempts, 1 TTL that runs out, with and without the store | `SettledIsFunded`, `RecordIsTheSpend`, `BareRefusalDidNotSpend`, `LeaseCoversDoubt` |
| `settle_x402_unspent` | the same, no TTL running out | refutes `UnspentIsProven` |
| `private_fetch` | 2 sellers, 2 purchases, 2 sends each, overlapping or not | `DeliveredIsPaid`, `PointerIsFrontier`, `NotChargedForErrors` |
| `facilitator` | 2 requests, 2 payments, 2 nullifiers, 1 agent, 2 payees of which it may pay 1, a day and a payment of 1, 1 forwarded, 1 lapse, 1 fault | `PaymentBuysOnce`, `TierWasPaid`, `DailyLimitUpToFlight` |
| `vault` | 2 tabs in 2 browsers, one of each page, 2 secrets among 2 notes and 1 seed, 2 puts, versions up to 2, 1 fault | `VersionIsKnowledge`, `NeverMemoryOnly`, `VaultKeeps` |
| `forwarding` | 3 blocks of one amount, 2 slots, 2 starts, a budget of 2, 1 deposit in doubt | `ScanMissesNothing`, `ProcessedIsDeposited`, `QuarantineHolds` |
| `asp` | 2 confirmations and the cron, 2 deposits, 2 transactions pending, 1 fault, 1 lapse | `IncludedWasApproved`, `LeaseIsExclusive`, `ScreeningsInOrder`, `TerminalIsFinal` |
| `asp_live` | the cron and a withdrawal, 2 faults, 1 lapse, fair | `RootCatchesUp` |
| `threshold` | 3 signers of which 2 are a quorum, 2 deposits, 2 nonces, 1 transaction, 2 faults (ticks that throw, nodes that lag), fair | `OneDecisionPerRoot`, `QuorumGoesOn` |

Why these sizes are enough for what they are about:

* *Pool.* A buffer of 2 roots wraps within the 4 leaves, so a proof's root is evicted while the proof is pending, and the
  capacity is reached with the note still live. A note of 2 can be split twice, and two notes of one nullifier and two proofs of one note are
  enough for every double spend. `Uint128Max` is above every note. The proofs below cover all sizes. One more instance is kept:
  `MCEntrypoint_owner.cfg` has two association roots, so that a label is approved and then is not.
* *UTXO pool.* Six leaves are two levels past the first growth of the tree: some insertions park a node, some meet one, and one makes
  the tree deeper. Three slots are fewer than the leaves. Two labels let one be left out of the root while a proof of it waits; one other nullifier is enough for a note to be spent under it.
* *SVM.* One request lost and one answered are the fewest where a retry is wrong; depth 3 is the least in which
  a leaf climbs two levels. The fee of half an amount makes rounding and the vault's share visible in small numbers. The
  constant `PoolKeyByte` is 1, for a reason under Findings.
* *Settlement.* Two attempts are the fewest where one is lost and one answers; two calls let the
  buyer act on a wrong answer and pay another seller; one TTL lets a second post
  start beside the first.
* *Private fetch.* Two sends are the fewest with a retry, where the code has three; two purchases let the second read
  the note the first is about to replace.
* *Facilitator.* Two requests race for a payment; two payments let one upgrade what the other bought. One lapse
  shows what a key that is gone allows: `PaymentBuysOnce` counts it. A payment signed over to two nullifiers is claimed for both. With a limit of one payment
  a day, two in flight, one lost and one forwarded are already four.
* *Vault.* Two tabs and two puts are what every lost update needs, and two versions (`MaxVersion`): one tab's record, and the other's that must hold it.
  A single fault covers each crash point, since after it the other tab is the only witness. `Bounded` stops at a third secret and at the first `"put"` or
  `"list"` race, past which no property claims anything. Two tabs of one browser (`Together`) and three versions give 6.1 and 7.4 million states, too many
  for this run, and no violation; the theorems cover all of them.
* *Forwarding.* Three blocks give a scan a beginning, a middle and an end; two starts a restart from any
  saved state; two slots a re-registration; the third transfer is past the budget; one deposit in doubt at a time (`MaxSent`)
  is mined before, between or after a retry, a restart, a listing and a re-registration.
* *Association roots.* Two deposits are the fewest where one label may be approved and the other not, and where
  a scan may be behind. Two pending transactions let one overtake the decision behind
  the other; three workers let a lease lapse under one, be taken by a second and be refused to a third. A fault per crash point is enough
  for the safety properties; `asp_live` has two, so that a recovery may fail as well.
* *Threshold.* Two of three is the smallest quorum in which signatures can be lost without stopping; the second nonce shows what is left over
  of the first. Two deposits of which one is approved give one root to two decisions. All nodes show both at first; the two faults take one from one or
  two of them (and `See` gives it back), so that a proposal is started, joined and left behind at different selections.

Type invariants: those of `Entrypoint`, `SettleX402`, `PrivateFetch`, `Facilitator`, `DepositVault`, `AspUpdater`, `ThresholdPostman`, `ForwardingEngine` and `SvmPayment` are proved; every module's `TypeOK` holds in each
configuration above, and is left out of the runs, as it says the least.

*Fairness.* All of it is weak. `asp_live` (`FairSpec`) assumes `Operate`, because the cron entry of
`docs/release/mainnet-runbook-single-value.md:147-150` calls the route every minute; `Proceed` of a run
that has begun, because every call in it has a timeout or an answer and the platform lets the function
finish or ends it (`Crash`, not fair); `Mine`, because the postman pays for inclusion; `LapseOrphan`, because a TTL
runs out. Nothing is assumed of confirmations, which depend on a depositor waiting, or of withdrawals. The faults
are bounded, as a network that always fails excludes any progress.
`RootCatchesUp` exempts the moments with nothing to approve: `updateRoot` refuses an empty root, so an updater
cannot take the last label out.
`threshold` assumes that every daemon polls (`Tick`, a timer in its main loop), that nodes show every deposit in the end (`See`, which nothing in the code provides as long as the fetcher is a stub, and which only this property needs) and that what is sent is mined (`UpdateRoot`): each of the three is needed,
and nothing is assumed of when. All signers are alive in it: the one with the lowest index
that signed is the only one to submit, so a quorum whose leader has stopped for good is stopped too.
`QuorumGoesOn` exempts `Stopped`, see below. The other runs check invariants, action properties and the refinement
of a safety specification, which need no fairness.

`LeaseCoversDoubt` is the argument behind the settlement store: as long as a withdrawal may
still land and its lease has not run out, the lease is there. `VersionIsKnowledge` is the argument
behind the vault: whoever knows the current version holds everything the record holds. `PointerIsFrontier` is the one behind
the buyer's fetch: every note before the current one is spent and no later one is. They are stronger than what a
user sees, and explain why it holds; all three are proved.

## Findings

`settle_x402_unspent` is a run in which TLC finds a behaviour of the code that one of its own comments excludes: the client library
calls a bare `settled:false` proof that the note is unspent. The retry after a lost answer may get one from the readiness gate, the
rate limiter or a failing read of the store while the first attempt's withdrawal lands.

### Counterexamples kept as configurations

Each of these configurations checks one property, which some comment or document of the repository leads one to expect, and TLC finds it violated.

| Configuration | Property | What happens |
|---|---|---|
| `MCDepositVault_clobber` | `NeverClobbered` | the version check of PUT and its write are separate store calls: two tabs pass the check with the same version and the second erases what the first stored, after which both delete their local copies ("Two tabs racing can never silently clobber", `vault/route.ts:36`) |
| `MCDepositVault_memory` | `NoteSomewhere` | a withdrawal of `app/app/page.tsx` saves the list it read before it was awaited, without the note saved meanwhile ("Secrets are NEVER memory-only", `deposit-vault.ts:27`) |
| `MCDepositVault_seed` | `SeedKept` | the last seed wins, not the first, after the first was handed out as persisted |
| `MCForwardingEngine_dropped` | `NothingDropped` | the cursor moves before the transfers behind it are dealt with, and is saved on error, so what was promised to be retried is not |
| `MCAspUpdater_withdraw` | `RejectedStayOut` | the withdrawal route posts the set it screened earlier without the lease, so a label that an updater's root has just left out comes back until the next cron |
| `MCSvmPayment_reconcile` | `DoubtEnds` | `isPreparedWithdrawalSpent` (`pool.ts:785`) reads the byte at offset 8 of the nullifier account, the first byte of the pool's address, where `spent` is at offset 72: unless that byte is 1, `reconcilePayment` throws and the doubt stays (`PoolKeyByte` is 7 here and 1 in `svm`) |
| `MCSvmPayment_phantom` | `SpendableIsInPool` | two payments of one note are prepared at once; the first settles and is forgotten, the second is registered after it and fails; a reconciliation finds the note spent, takes that for the second's success, and makes its change spendable, which is in no tree |
| `MCPrivateFetch_charged` | `UndeliveredIsUnpaid` | a seller answers 402 when the receipt is late, and the transfer lands afterwards |
| `MCPrivateFetch_served` | `ServedOnce` | `withPrivateX402` answers 402 after its handler ran when the settlement fails, so the retry runs the handler again |
| `MCPrivateFetch_stranded` | `NeverStranded` | the branch for a note already spent refuses without a record, though the payer account could be derived again |
| `MCPrivateFetch_pointer` | `PointerAdvances` | of two overlapping purchases the one that began first may write an older note over a newer |

A purchase that overlaps another may also be handed a header for the other's seller (`HeaderIsForTheSeller`), which that seller refuses.

### Observations

Met while modelling, without a configuration of their own.

* *Vault.* `NoteSomewhere` fails in three more ways than the configuration shows: a confirmed save clears localStorage whole, with it the note of a
  later save whose put is still under way, or of another tab of the browser (`deposit-vault.ts:649`); a tab writes localStorage from a cache or list that lacks what another tab of
  the browser left there; and a clobbered put was confirmed before. A second `ensureNoteSeed` of a tab returns the seed that the first is still
  persisting (`deposit-vault.ts:476`), which may then be taken back; the model has the first call only.
* *Forwarding.* A dry run marks transfers processed in the state file the live daemon reads; `ProcessedIsDeposited` exempts it. A deposit that is mined after its
  call threw is never marked: the retry at its precommitment fails. After that, or a crash
  between a deposit and the save, a re-registration of the address lets a rescan deposit for the same transfer again, at the next slot.
* *Association roots.* A lease that lapses after `maySubmitUpdate` looked at it and before the
  transaction is broadcast lets an older screening follow a newer one; `ScreeningsInOrder` exempts it (`leased`).
* *Threshold.* "The next polling tick reconciles" (`coordinator.ts:25`) does not hold when new deposits arrive, or nodes that lagged catch up: a proposal they leave behind is refused by every daemon
  and the nonce does not advance (`Stopped`). Nothing keeps an approved label approved: the root of a quorum whose nodes show fewer deposits than those of the last quorum, or
  only those since the last root, replaces it. `updateRoot` asks only for signatures, so one who is no daemon may submit those of two proposals with one root. With a downstream Entrypoint every update reverts, as the content identifier
  `zbase-asp-<n>` is shorter than the 32 characters it asks for (`Forwards`).
* *UTXO.* No contract of the repository calls `spend` or `transfer`, which only an entrypoint may. The withdrawal route's UTXO branch passes the withdrawn amount beside a
  plan that already has an output for it, which the circuit's conservation excludes, and pads with dummy notes that are in no tree,
  which its membership excludes; a transfer of more than two inputs checks conservation over all and spends two. The route says that the path
  activates with no further change of code.
* *Facilitator.* `recordAuthorization` reads a tier and writes a better one in two steps, so of two the lower may stay though it is called upgrade-only
  (`UpgradeOnly`). A settlement quotes the provider's tier but hands the withdrawal route a fresh address, whose look-up
  by recipient misses it (`ReceiptTellsTheFee`). The key that says a payment is consumed lives 7 days, what it bought
  30. A crash between consuming and recording loses a payment. Agents are registered in memory.
* *Exact payments.* Neither verify nor settle looks at the token's authorization state; the token itself refuses a second use. A replayed settlement
  answers with the amount of the new request, and with a header that may be past its `maxTimeoutSeconds`.
* *SVM.* The curator reads `pool.asp_root` where the decoder gives `aspRoot`, so it throws. Deposits and direct payments return secrets
  and change only after confirmation, so a lost confirmation loses the note. The SDK proves against a tree of one
  label, so an association root of two excludes its withdrawals. A tree of depth *d* holds 2^*d* - 1 leaves: the last has no level to park at.

## Proofs

### The contracts

`EntrypointProofs` proves, for every number of users, amounts, secrets, configurations, buffer sizes and tree capacities:

| Theorem | Statement |
|---|---|
| `Invariance` | `Spec => []IInv` |
| `TypeSafety` | `Spec => []TypeOK` |
| `NoDoubleSpend` | `Spec => []SpentExactly` |
| `OneLiveNote` | `Spec => []OneLiveNotePerLabel` |
| `Conservation` | `Spec => []LabelConservation` |
| `RootHistory` | `Spec => []RootWindow` |
| `ImplementsLedger` | `Spec => LedgerSpec` |
| `Solvent` | `Spec => []Solvency` |

*Assumptions.* The named ASSUMEs of the modules: `RootHistoryAssumption` (the buffer has at
least one slot), `TreeCapacityAssumption`, `NullifierAssumption` (every precommitment has a nullifier),
`AddressAssumption` (pool and Entrypoint are contracts with addresses of their own) and
`InputAssumption` (types of the inputs). Collision freedom of the hashes and soundness of the circuits are in
the model, as described above. TLC evaluates the assumptions in `pool`.

*The inductive invariant* is `IInv == TypeOK /\ PoolInv /\ ProofsSound`. None of the properties is inductive alone:

* `RootWindow` speaks of which roots are known; an insertion overwrites one slot, and to know that it is the
  oldest one needs `RootSlots`: slot *i* holds the root of `Age(i)` leaves ago.
* `LabelConservation` needs that a label has one live note (`OneLiveNotePerLabel`), which needs that leaves are
  distinct (`LeavesDistinct`) and that labels not handed out have no leaves (`LabelShape`).
* `SpentExactly` is what makes a spent leaf the one the proof names: two notes with one nullifier cannot both be
  consumed, so spending a fresh nullifier spends a live note.
* `ProofsSound` carries what the circuit guarantees from the moment a proof is made to the moment it is
  submitted: leaves are never removed, so the note is still in the tree.

The first part has a lemma for each call of the pool (what deposit, withdraw and ragequit keep of
`PoolInv`); the second follows the balances through the transfers of `Deposit` and `Relay`, then goes through
the transactions one by one. `ImplementsLedger` maps each of them to a step of the ledger or to
a stutter.

*Solvency* is `Backed`, inductive beside `IInv`: the balance is at least `Total(leaves, Live)`. `Total` sums with a function on the parts of a
set that adds one position after the other (`Additive`). That there is one, and that whatever adds up in any order gives the same
(`AdditiveUnique`), is shown by induction over a set of sets (`PartsInduction`), which needs no operator as a parameter; `FoldIsTotal` says that the
fold in `Solvency` is such a sum. A deposit then adds a term, an exit removes one, a
withdrawal replaces the note's by its change's (`TotalGains`, `TotalLoses`), and `LeavesDistinct` makes the spent leaf the only one of its kind.

### The note pool

`UTXOPoolProofs` proves, for every size of ring and tree, set of labels, amounts and association roots, and number of notes and proofs:

| Theorem | Statement |
|---|---|
| `Invariance` | `Spec => []IInv` |
| `ImplementsLedger` | `Spec => LedgerSpec` |
| `Settlements` | `Spec => SettledAsProved` |
| `RingKnowsNewest` | `Spec => \A root : []KnowsNewest(root)` |
| `RootHistory` | `Spec => [](RootsDiffer => RootWindow)` |

*Assumptions.* `RingAssumption` (the ring has a slot), `DepthAssumption`, `AmountsAssumption`, `NullifiersAssumption`, `ApprovalsAssumption` (types). Provers choose nullifiers and labels freely; `ImplementsLedger` is about the time before one strays (`astray`, above). `RootWindow` is about the proofs
in flight, which name trees by their root, so `RootHistory` has a hypothesis, `RootsDiffer`: no two insertions left one root. A hash without collisions
gives that, and the tree of pairs in the model has it on every instance; to derive it would take an induction over levels.
`RingKnowsNewest` has no hypothesis: whatever root is asked for, the ring knows it when one of the newest insertions made it.

*The inductive invariant* never looks into the tree. `TreeOK` says in which slot the root of each of the newest insertions is
(`SlotOf`), before and after the ring is full. `NotesOK`: an id names one note. `ProofOK` carries what the circuit asked when the proof was made to the moment it lands: its
inputs are leaves, its outputs worth no more, its labels are under its own association root, and its outputs are in no tree unless one of its nullifiers is
consumed already; `Apart`: no two proofs make one note. That gives `Settlements` for any nullifiers. `SpentOK`: as long as none strayed, what is consumed are
nullifiers of leaves; with it each settlement is an exchange of live notes for new ones.

### Private x402 settlement

`X402Proofs` proves, for any sellers and any number of attempts, calls and TTLs that run out, with the store and without:

| Theorem | Statement |
|---|---|
| `Invariant` | `Spec => []IInv` |
| `TypeCorrect` | `Spec => []TypeOK` |
| `Funded` | `Spec => []SettledIsFunded` |
| `Recorded` | `Spec => []RecordIsTheSpend` |
| `BareRefusal` | `Spec => []BareRefusalDidNotSpend` |
| `Leased` | `Spec => []LeaseCoversDoubt` |

*Assumptions.* `SellerAssumption` (`Nobody` is no seller), `AttemptsAssumption` (a call makes an attempt), `BoundsAssumption` (bounds are numbers).

*The inductive invariant* has the four properties in it, since each needs another. What it adds is where the withdrawal of a post is, by how far the post
got: with `/api/withdraw`, in the mempool or on chain, and at one of them only (`WithdrawalsOK`); a post that read a successful receipt is the one that
spent the note (`PaidOK`); answers are given at the end (`AnswersOK`). A post refused before its dispatch therefore has nothing under way, and
a free lock means that no withdrawal is in doubt unless a TTL ran out.

### Payments on Solana

`X402Proofs` also proves, for any shops, orders, amounts, fees and relay fees, association roots, sizes of the ring and of the tree, and any number of
notes, requests, handed payments and faults:

| Theorem | Statement |
|---|---|
| `SvmInvariance` | `SvmSpec => []SvmInv` |
| `SvmTypes` | `SvmSpec => []SvmTypeOK` |
| `MoneyIsNotLost` | `SvmSpec => []NothingLost` |
| `SpendableNotesAreSafe` | `SvmSpec => []SpendableIsSafe` |
| `DeliveriesArePaid` | `SvmSpec => []DeliveredIsPaid` |
| `SvmImplementsLedger` | `SvmSpec => LedgerSpec` |

*Assumptions.* `RootsAssumption` (the ring has a slot), `AccountsAssumption` (users, shops, orders, vault and relayer have token accounts of their own),
`UsersAssumption` (the buyer and one other depositor, who stands for all others), and the types of `FeesAssumption`, `AmountsAssumption`, `ByteAssumption` and
`MaxAssumption`. The state root of a payment is not looked at: a proof against an evicted root only fails to land.

*The inductive invariant* is `SvmInv`. `TreeInv` is about notes and payments wherever they are: an id names one note (`NotesOK`), so no two payments insert
one leaf; a label has one live leaf (`LeavesOK`), which is what its credit in the ledger is; a payment names a leaf of its label worth its amount and change,
and its change is in the tree only if that leaf is spent (`PaymentsOK`). `RequestsAreSound` says that what was answered as settled has landed and left its event, and that
what was rejected has sent nothing; `OrdersOK` that a fulfilled order's withdrawal is spent for it. `BooksInv` ties the buyer's books to these:

* `NotesFit` reads the status of a note: "spendable" has no entry in the map and no request that may still spend it, "spent" is on record, and a note
  that is not yet in the tree is named by no payment. It holds only since the map refuses a second payment of a note (`EntriesOK`) and a 402 counts as a
  rejection only for an entry that was never in doubt: of such an entry no other request is under way or has landed.
* `LeavesKept`: no leaf of a known deposit is missing from the books or discarded. A change becomes a leaf when a request lands, and until then the books keep it as
  pending (`RequestsSent`), also when the map has lost the entry in a restart.
* `DraftsOK`: the change of a payment still being prepared is unknown to everyone else. `OwnersOK`: the buyer's notes are of its own deposits and the payments
  handed to relayers are not, so only requests spend notes of the books.

`SvmImplementsLedger` maps a deposit to a line of credit of what is left after the fee, a withdrawal that lands to a draw on the line of its label, which
`TreeInv` shows to have the credit and `Relayable` to be approved, and everything else to a stutter or a new approval.

### Private fetch

`PrivateFetchProofs` proves, for any sellers and any number of purchases and sends:

| Theorem | Statement |
|---|---|
| `Invariant` | `Spec => []IInv` |
| `TypeCorrect` | `Spec => []TypeOK` |
| `Delivered` | `Spec => []DeliveredIsPaid` |
| `Frontier` | `Spec => []PointerIsFrontier` |
| `NotCharged` | `Spec => []NotChargedForErrors` |
| `Advances` | `Spec => [][~overlap => current' >= current]_vars` |

*Assumptions.* `SendsAssumption` (a header is sent at least once) and `BuysAssumption` (types).

*The inductive invariant.* `RunsOK` reads a seller's run by how far it has come: one that is verified is of the payee, one that
relayed has served, a receipt of success is of the only use of the authorization. `BuysOK` ties a purchase that waits to a run for
its own note and seller, so what it is answered is about its own payment. `OrderOK` is the buyer who waits: one purchase under way, with the current note. `Advances` is for that
buyer; `MCPrivateFetch_pointer` shows that purchases that overlap set the pointer back.

### Facilitator

`FacilitatorProofs` proves, for every number of request slots, payments, agents, payees and faults, and all fees and limits:

| Theorem | Statement |
|---|---|
| `Invariance` | `Spec => []IInv` |
| `TypeCorrect` | `Spec => []TypeOK` |
| `BuysOnce` | `Spec => []PaymentBuysOnce` |
| `PaidTiers` | `Spec => []TierWasPaid` |
| `DailyLimit` | `Spec => []DailyLimitUpToFlight` |

*Assumptions.* `RequestsAssumption` (slots are finite and there is one), the types of `PaymentsAssumption`, `NullifiersAssumption`, `ProviderAssumption`,
`AmountsAssumption`, `FlagsAssumption`, `BoundsAssumption`, and `FeesAssumption` (the tiers that are sold take a cut, the others none).

*The inductive invariant.* A request between the consumption of a key and the record of what it buys counts as bought: bought plus
such requests (`Claimants`) is at most one more than the lapses while the key is there, and the lapses when it is not (`ClaimsOK`). For the limit,
`AccountOK` has two sums over the requests: what an agent spent is counted, lost, forwarded through the note pool's branch, or carried by a request that has its answer; and what is counted plus what is
in flight stays within the limit plus one amount for each other request, since the check is made when at most the others are in flight.
The sums are functions on sets of requests, as for `Solvent` above.

### Deposit vault

`DepositVaultProofs` proves, for any wallet, tabs, browsers, seeds, bounds and number of requests and faults, both kinds of page, and every overlap:

| Theorem | Statement |
|---|---|
| `Invariant` | `Spec => []KInv` |
| `TypeCorrect` | `Spec => []TypeOK` |
| `Knowledge` | `Spec => []VersionIsKnowledge` |
| `Keeps` | `Spec => VaultKeeps` |
| `SecretsStored` | `Spec => []NeverMemoryOnly` |

*Assumptions.* The ASSUMEs of the module, which are types. What is exempt is in the properties: steps after a race, of which
`MCDepositVault_clobber` and `MCDepositVault_memory` show that they do lose notes.

*The inductive invariant.* While no stale put has been written and no older list saved, only a request is ahead of the vault's version, by one; what was read or written at the
current version covers the vault, and what was written is covered by it (`UpTo`, `TabOK`, `PutOK`). A tab's cache then only grows, so it covers every put the
tab waits for. A put that is written moves the version on by exactly one (`WriteAdvances`), so it was made by a tab that knew the record it replaces. With that, a
put that is confirmed is still in the vault when localStorage is cleared. `SeedAlone` and the seeds in `PutOK` are for the types: a tab waits for one
new seed at most, since `ensureNoteSeed` makes one only when it has none.

### The root updaters

`AspUpdaterProofs` proves, for every number of workers of each kind, deposits, pending transactions, faults and lapses:

| Theorem | Statement |
|---|---|
| `Invariance` | `Spec => []IInv` |
| `TypeSafety` | `Spec => []TypeOK` |
| `LeaseSafety` | `Spec => []LeaseIsExclusive` |
| `Inclusion` | `Spec => []IncludedWasApproved` |
| `Ordering` | `Spec => []ScreeningsInOrder` |
| `Finality` | `Spec => TerminalIsFinal` |

*Assumptions.* `WorkerAssumption` (the kinds of workers are disjoint, and `None` and `Orphan` are no workers) and
`BoundAssumption` (the bounds are natural numbers). TLC evaluates both in `asp` and `asp_live`.

*The inductive invariant* is `TypeOK /\ LeaseInv /\ ApprovalInv /\ OrderInv`.

* `LeaseInv`: a run that is not yet past `Acquire`, or whose lease has lapsed, does not hold the lease. It is needed because
  `Release` compares the token: a run that lost the lease must not look like the run that has it.
* `ApprovalInv`: a record "included" is written at the end of a path that starts with a scan that found the deposit and goes
  either through equality with the latest root or through a mined transaction. For the second, a transaction in the mempool
  belongs to the run that waits for it, which has only that one (`PendingOf`).
* `OrderInv`: everything screened out, pending as screened out, or about to be, is listed (`AllListed`), so a later scan approves none of it.
  A run that decides under the lease (`Deciding`) is disjoint from what is pending and from any run already past the check; that no
  further run passes the check meanwhile is `LeaseInv`. A run whose lease lapses after the check is past it when
  the next one scans, so what it screened out is in order too; what it approves is not, and is exempt.

### The threshold signers

`DaemonProofs` proves, for every set of signers, threshold, screening, and number of deposits, nonces, transactions and faults, whatever the nodes show:

| Theorem | Statement |
|---|---|
| `Invariant` | `Spec => []IInv` |
| `TypeCorrect` | `Spec => []TypeOK` |
| `OneDecision` | `Spec => OneDecisionPerRoot` |

*Assumptions.* `SignersAssumption`, `BoundsAssumption`, `CleanAssumption` and `ForwardsAssumption` are types;
`ThresholdAssumption` says that the threshold is not zero (it is 3).

*The inductive invariant* is `TypeOK` with four parts. `BusOK`, `TickOK`
and `TxsOK` carry a signature from the daemon that made it through the file, another daemon's memory and the transaction: each
that is counted was made, for the same nonce and decisions. `LatestOK`: the latest root is of decisions a quorum signed
for the nonce before. `OneDecision` reads off a transaction's signatures from `TxsOK`.

### The forwarding engine

`DaemonProofs` also proves, for any addresses, payers, amounts and wirings, and any number of blocks, registrations and starts:

| Theorem | Statement |
|---|---|
| `EngineInvariance` | `EngineSpec => []EngineInv` |
| `EngineTypes` | `EngineSpec => []EngineTypeOK` |
| `NothingMissed` | `EngineSpec => []ScanMissesNothing` |
| `Processed` | `EngineSpec => []ProcessedIsDeposited` |
| `Quarantine` | `EngineSpec => QuarantineHolds` |

*Assumptions.* `AmountAssumption` and `WiringAssumption` are types; `dryRun`, `disarmed` and `sweep` are all covered, with either source.

*The inductive invariant* has `ScanMissesNothing` and `ProcessedIsDeposited` in it and adds five parts. `FileKept`: while the daemon runs, its memory knows all
that its file knows, so a save forgets nothing. `DueOK`: a transfer that is due went to an address that is registered, and a scan under way watches it, since an address
once registered stays so; this is what makes a cursor that moves past a block imply that the block's transfer was found. `CursorsOK`: cursors do not outrun the chain,
so a transfer mined later is ahead of both. `BatchOK`: what is left to deposit is of watched addresses and not tainted. `TaintedOK`: the payer of a tainted
transfer is listed, so a later scan of it quarantines it again.

## Limits

*Only model-checked.* `FrontierIsLeanIMT` of both frontier trees and `UTXOPool!TypeOK` (what a tree of levels holds takes induction over levels and facts about
2^*n*, and `LeanIMT` is recursive), so `RootWindow` of the note pool is proved under `RootsDiffer` only; `ExitAlwaysPossible` (ENABLED);
`RootCatchesUp` and `QuorumGoesOn` (liveness under fairness). `NeverClobbered`, `NoteSomewhere` and `SeedKept` are refuted,
not proved.

*Abstractions, by module.*
Pool: one ERC-20 pool; no native asset, upgrade or role administration; the circuit is its constraints; a removed pool may be registered again.
UTXO pool: the shape of the association tree and what a ciphertext holds are left out. That a wallet spends its notes under the nullifiers it keeps is assumed of
wallets, since the circuit does not see to it.
SVM: one relayer and one resource server that behaves; the curator is whoever posts a root; `register_agent` writes limits nothing reads.
Where the roots agree, preparing a payment always succeeds in the model; the SDK rebuilds the tree from the logs of every transaction of the pool without leaving out failed
ones (`pool.ts:456-489`), so that a leaf that never was may keep the root from being found and the note from being spent. This affects the progress of payments yet to be prepared, of which
nothing is claimed here.
Settlement: contents and expiry of headers, the provider proxy and change notes are left out; of the
withdrawal route, what its caller and the chain see.
Private fetch: a settlement is what `SettleX402` shows of it; the hosted facilitator a seller may choose, the free probe and the exposure report are left out.
Facilitator: rate limits, settlements that name no agent, and the provider registry beyond a payee's tier are left out.
Vault: `MarkSpent` names the note, where the code finds it by position; deleting history, records that
cannot be decrypted and derivation indices are left out.
Forwarding: one daemon (the lockfile is not modelled), no reorganisations, a listing is permanent, a sweep deposits in one
transaction the amount it received.
Association roots: the Redis store only (its in-memory substitute is for development); a listing is permanent; no
external screening service, no rate limits, no reorganisations.
Threshold: signers are trusted to run the daemon, and nobody else submits; the bus delivers the file last written.

*Not modelled.*
The **decoy scheduler** reads and writes its daily budget and working set in separate calls, so overlapping crons undercount (`decoy-state.ts:89`), and
a crash after a withdrawal leaves the spent note first in the set; its transfer cron is refused by the route. The **executor processooor**,
the **note scanner** and the **indexer** keep no state that outlives a call, or only a cache. The **rate limiter** and the **readiness gate** are in
`SettleX402` as a refusal before the store is read. The privacy scanner, the web pages but for their vault calls, the MCP server and the
circuits beyond their constraints are presentation, a thin client, or arithmetic.
Of the modelled parts: derivation indices read by two tabs (`deposit-vault.ts:515`), the note marked spent by its position
(`DepositWithdraw.tsx:354`), two daemons that reclaim a lockfile (`forwarding-engine.ts:188`) and the registry file's lost
updates (`forwarding/register/route.ts:200`).

## Plan

In order of importance.

1. **Decoy scheduler**: the budget and the working set over crons that overlap and crash.
2. **Forwarding**: two daemons, the lockfile and the registry as processes; a change of wiring between starts.
3. **Vault**: derivation indices and marking by position.
4. **Composition** of `AspUpdater` with the association roots of `Entrypoint`: withdrawals proved against roots that are replaced.
5. **Executor**; the note scanner and the planning of spends as pure functions on bounded inputs.
