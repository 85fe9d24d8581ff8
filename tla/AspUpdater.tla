------------------------------ MODULE AspUpdater ------------------------------
(***************************************************************************)
(* Who posts the association root, and from what.  Two routes rebuild it   *)
(* with refreshAspRoot under one Redis lease: POST /api/deposits/confirm,  *)
(* for a depositor who waits, and POST /api/asp-update, which a cron calls *)
(* every minute.  The withdrawal route rebuilds and posts it as well, with *)
(* no lease, when the root it finds on chain is not the one it expects.    *)
(*                                                                         *)
(* Deposits are numbered in the order of the chain and named by their      *)
(* labels; a root is the set of labels under it, and the empty set stands  *)
(* for no root.  A listing is permanent.  A worker is one run of a route   *)
(* after another; the token of its lease is the worker, and Orphan once    *)
(* the run that took it is gone.  The store is Redis, as mainnet requires. *)
(***************************************************************************)
EXTENDS Naturals, Sequences, FiniteSets

CONSTANTS
  MaxDeposits,  \* bound: deposits made
  Confirmer,    \* runs of /api/deposits/confirm
  Cron,         \* runs of /api/asp-update
  Withdrawer,   \* runs of /api/withdraw
  None,         \* no holder of the lease
  Orphan,       \* a holder that is gone
  MaxPending,   \* bound: transactions in the mempool
  MaxFaults,    \* bound: failed calls, lagging reads, crashes, dropped transactions
  MaxLapses     \* bound: leases that run out under a worker still running

Worker == Confirmer \cup Cron \cup Withdrawer

ASSUME WorkerAssumption ==
  /\ Confirmer \cap Cron = {} /\ (Confirmer \cup Cron) \cap Withdrawer = {}
  /\ {None, Orphan} \cap Worker = {} /\ None # Orphan

ASSUME BoundAssumption ==
  MaxDeposits \in Nat /\ MaxPending \in Nat /\ MaxFaults \in Nat /\ MaxLapses \in Nat

VARIABLES
  deposited,    \* the deposits made so far are 1..deposited
  listed,       \* the labels whose depositor the screening rejects
  latest,       \* latestRoot of the Entrypoint
  mempool,      \* the postman's updateRoot transactions, in nonce order
  lock,         \* the lease
  record,       \* the DepositAspRecord of every deposit
  worker,
  faults, lapses,
  approvedOnce, \* history: labels that were ever under the latest root
  screenedOut   \* history: labels an updater's root was posted without, as rejected

chainVars == <<deposited, listed, latest, mempool>>
history == <<approvedOnce, screenedOut>>
vars == <<chainVars, lock, record, worker, faults, lapses, history>>

Label == 1 .. MaxDeposits

Status == {"none", "queued", "included", "rejected"}

Transaction == [by : Worker \cup {Orphan}, labels : SUBSET Label, rejected : SUBSET Label,
                leased : BOOLEAN]

(* Where a worker is: it will mark its deposit queued; try the lease; scan and *)
(* screen; compare with the chain; check the lease; submit; wait for the       *)
(* receipt; write the record; release.  Its lease may lapse before the check    *)
(* ("early") or after it.                                                      *)
PC == {"idle", "queue", "lock", "scan", "compare", "check", "submit", "wait", "record", "release"}

Run == [pc : PC, label : Label \cup {0}, labels : SUBSET Label, rejected : SUBSET Label,
        mined : BOOLEAN, lapsed : {"no", "early", "late"}]

Idle == [pc |-> "idle", label |-> 0, labels |-> {}, rejected |-> {}, mined |-> FALSE,
         lapsed |-> "no"]

TypeOK ==
  /\ deposited \in 0 .. MaxDeposits
  /\ listed \in SUBSET Label
  /\ latest \in SUBSET Label
  /\ mempool \in Seq(Transaction) /\ Len(mempool) <= MaxPending
  /\ lock \in Worker \cup {None, Orphan}
  /\ record \in [Label -> Status]
  /\ worker \in [Worker -> Run]
  /\ faults \in 0 .. MaxFaults /\ lapses \in 0 .. MaxLapses
  /\ approvedOnce \cup screenedOut \subseteq Label

Init ==
  /\ deposited = 0 /\ listed = {} /\ latest = {} /\ mempool = << >>
  /\ lock = None
  /\ record = [l \in Label |-> "none"]
  /\ worker = [w \in Worker |-> Idle]
  /\ faults = 0 /\ lapses = 0
  /\ approvedOnce = {} /\ screenedOut = {}

Fault == faults < MaxFaults /\ faults' = faults + 1

At(w, pc) == worker[w].pc = pc

Goto(w, pc) == worker' = [worker EXCEPT ![w].pc = pc]

-----------------------------------------------------------------------------
(* The world *)

Deposit ==
  /\ deposited < MaxDeposits
  /\ deposited' = deposited + 1
  /\ UNCHANGED <<listed, latest, mempool, lock, record, worker, faults, lapses, history>>

List(l) ==
  /\ l \notin listed
  /\ listed' = listed \cup {l}
  /\ UNCHANGED <<deposited, latest, mempool, lock, record, worker, faults, lapses, history>>

(* updateRoot, in the order of the postman's nonces. *)
Mine ==
  LET tx == Head(mempool)
  IN /\ mempool # << >>
     /\ mempool' = Tail(mempool)
     /\ latest' = tx.labels
     /\ approvedOnce' = approvedOnce \cup tx.labels
     /\ screenedOut' = screenedOut \cup tx.rejected
     /\ worker' = IF tx.by = Orphan THEN worker ELSE [worker EXCEPT ![tx.by].mined = TRUE]
     /\ UNCHANGED <<deposited, listed, lock, record, faults, lapses>>

Drop ==
  /\ mempool # << >> /\ Fault
  /\ mempool' = Tail(mempool)
  /\ UNCHANGED <<deposited, listed, latest, lock, record, worker, lapses, history>>

(* Fault: the lease is taken without an expiry. *)
LapseOrphanNever == FALSE /\ UNCHANGED vars

(* The lease runs out: of a run that is gone, or of one that takes too long. *)
LapseOrphan ==
  /\ lock = Orphan
  /\ lock' = None
  /\ UNCHANGED <<chainVars, record, worker, faults, lapses, history>>

Lapse ==
  /\ lock \in Worker /\ lapses < MaxLapses
  /\ lapses' = lapses + 1
  /\ lock' = None
  /\ worker' = [worker EXCEPT ![lock].lapsed =
                              IF worker[lock].pc \in {"scan", "compare", "check"}
                              THEN "early" ELSE "late"]
  /\ UNCHANGED <<chainVars, record, faults, history>>

-----------------------------------------------------------------------------
(* The two routes that refresh the root *)

(* Fault: a result is overwritten whatever it was. *)
PutAnyway(l, status) == record' = IF l = 0 THEN record ELSE [record EXCEPT ![l] = status]

(* put of the state store: a terminal result stays.  Label 0 is the operator's *)
(* request, which keeps no record.                                             *)
Put(l, status) ==
  record' = IF l = 0 \/ record[l] \in {"included", "rejected"} THEN record
            ELSE [record EXCEPT ![l] = status]

(* POST of a transaction whose record was read and is not terminal. *)
Confirm(w, l) ==
  /\ At(w, "idle")
  /\ record[l] \notin {"included", "rejected"}
  /\ worker' = [worker EXCEPT ![w] = [Idle EXCEPT !.pc = "queue", !.label = l]]
  /\ UNCHANGED <<chainVars, lock, record, faults, lapses, history>>

(* The deposit is marked queued; the run ends there when its transaction is not *)
(* mined or has too few confirmations.                                          *)
Queue(w) ==
  /\ At(w, "queue")
  /\ Put(worker[w].label, "queued")
  /\ \/ worker[w].label <= deposited /\ Goto(w, "lock")
     \/ worker' = [worker EXCEPT ![w] = Idle]
  /\ UNCHANGED <<chainVars, lock, faults, lapses, history>>

Operate(w) ==
  /\ At(w, "idle")
  /\ worker' = [worker EXCEPT ![w] = [Idle EXCEPT !.pc = "lock"]]
  /\ UNCHANGED <<chainVars, lock, record, faults, lapses, history>>

Acquire(w) ==
  /\ At(w, "lock")
  /\ IF lock = None
     THEN lock' = w /\ Goto(w, "scan") /\ UNCHANGED record
     ELSE /\ Put(worker[w].label, "queued")
          /\ worker' = [worker EXCEPT ![w] = Idle]
          /\ UNCHANGED lock
  /\ UNCHANGED <<chainVars, faults, lapses, history>>

(* refreshAspRoot gives up: the result is "queued", or it throws and the record *)
(* is written as queued by the handler.                                         *)
GiveUp(w) == Put(worker[w].label, "queued") /\ Goto(w, "release")

(* fetchDepositedEvents sees the first n deposits, screenDeposits splits them. *)
Scan(w) ==
  /\ At(w, "scan")
  /\ \E n \in 0 .. deposited :
       /\ IF n < deposited THEN Fault ELSE UNCHANGED faults
       /\ IF worker[w].label > n \/ n = 0 THEN GiveUp(w)
          ELSE /\ worker' = [worker EXCEPT ![w].pc = "compare", ![w].labels = (1 .. n) \ listed,
                                           ![w].rejected = (1 .. n) \cap listed]
               /\ UNCHANGED record
  /\ UNCHANGED <<chainVars, lock, lapses, history>>

(* latestRoot; a read that fails counts as no root. *)
Compare(w) ==
  /\ At(w, "compare")
  /\ \/ worker[w].labels = latest /\ Goto(w, "record") /\ UNCHANGED faults
     \/ worker[w].labels # latest /\ Goto(w, "check") /\ UNCHANGED faults
     \/ Goto(w, IF worker[w].labels = {} THEN "record" ELSE "check") /\ Fault
  /\ UNCHANGED <<chainVars, lock, record, lapses, history>>

(* Fault: the lease is not looked at again before the submission. *)
CheckNothing(w) ==
  /\ At(w, "check")
  /\ Goto(w, "submit") /\ UNCHANGED record
  /\ UNCHANGED <<chainVars, lock, faults, lapses, history>>

(* maySubmitUpdate: the lease is still this run's. *)
Check(w) ==
  /\ At(w, "check")
  /\ IF lock = w THEN Goto(w, "submit") /\ UNCHANGED record ELSE GiveUp(w)
  /\ UNCHANGED <<chainVars, lock, faults, lapses, history>>

(* sendPostmanTx: updateRoot refuses the empty root. *)
Submit(w) ==
  /\ At(w, "submit")
  /\ IF worker[w].labels = {} THEN GiveUp(w) /\ UNCHANGED mempool
     ELSE /\ Len(mempool) < MaxPending
          /\ mempool' = Append(mempool, [by |-> w, labels |-> worker[w].labels,
                                         rejected |-> worker[w].rejected,
                                         leased |-> worker[w].lapsed # "late"])
          /\ Goto(w, "wait") /\ UNCHANGED record
  /\ UNCHANGED <<deposited, listed, latest, lock, faults, lapses, history>>

(* Fault: the receipt is not waited for. *)
ConfirmedUnseen(w) ==
  /\ At(w, "wait")
  /\ Goto(w, "record")
  /\ UNCHANGED <<chainVars, lock, record, faults, lapses, history>>

Confirmed(w) ==
  /\ At(w, "wait") /\ worker[w].mined
  /\ Goto(w, "record")
  /\ UNCHANGED <<chainVars, lock, record, faults, lapses, history>>

WriteRecord(w) ==
  /\ At(w, "record")
  /\ Put(worker[w].label, IF worker[w].label \in worker[w].rejected THEN "rejected" ELSE "included")
  /\ Goto(w, "release")
  /\ UNCHANGED <<chainVars, lock, faults, lapses, history>>

(* Fault: the lock deleted whoever holds it. *)
ReleaseAny(w) ==
  /\ At(w, "release")
  /\ lock' = None
  /\ worker' = [worker EXCEPT ![w] = Idle]
  /\ UNCHANGED <<chainVars, record, faults, lapses, history>>

Release(w) ==
  /\ At(w, "release")
  /\ lock' = IF lock = w THEN None ELSE lock
  /\ worker' = [worker EXCEPT ![w] = Idle]
  /\ UNCHANGED <<chainVars, record, faults, lapses, history>>

Disowned(w) == [i \in DOMAIN mempool |->
                  IF mempool[i].by = w THEN [mempool[i] EXCEPT !.by = Orphan] ELSE mempool[i]]

(* A call made under the lease throws; a transaction that was broadcast stays. *)
Throw(w) ==
  /\ worker[w].pc \in {"scan", "check", "submit", "wait", "record"} /\ Fault
  /\ GiveUp(w)
  /\ mempool' = Disowned(w)
  /\ UNCHANGED <<deposited, listed, latest, lock, lapses, history>>

(* The receipt of a dropped transaction is waited for until the wait times out. *)
TimeOut(w) ==
  /\ At(w, "wait") /\ ~worker[w].mined /\ \A i \in DOMAIN mempool : mempool[i].by # w
  /\ GiveUp(w)
  /\ UNCHANGED <<chainVars, lock, faults, lapses, history>>

(* The run ends anywhere: the platform stops it, or the store throws outside *)
(* the handlers.  Its lease, also one it asked for without hearing the       *)
(* answer, is left to run out.                                               *)
Crash(w) ==
  /\ ~At(w, "idle") /\ Fault
  /\ worker' = [worker EXCEPT ![w] = Idle]
  /\ \/ lock' = IF lock = w THEN Orphan ELSE lock
     \/ At(w, "lock") /\ lock = None /\ lock' = Orphan
  /\ mempool' = Disowned(w)
  /\ UNCHANGED <<deposited, listed, latest, record, lapses, history>>

-----------------------------------------------------------------------------
(* The withdrawal route *)

(* Its labels: from the index, which it has just found equal to the latest root, *)
(* or from its own scan and screening.                                           *)
WithdrawScan(w) ==
  /\ At(w, "idle")
  /\ \E labels \in {latest} \cup {(1 .. n) \ listed : n \in 0 .. deposited} :
       /\ labels # {}
       /\ worker' = [worker EXCEPT ![w] = [Idle EXCEPT !.pc = "compare", !.labels = labels]]
  /\ UNCHANGED <<chainVars, lock, record, faults, lapses, history>>

WithdrawCompare(w) ==
  /\ At(w, "compare")
  /\ IF worker[w].labels = latest THEN worker' = [worker EXCEPT ![w] = Idle]
     ELSE Goto(w, "submit")
  /\ UNCHANGED <<chainVars, lock, record, faults, lapses, history>>

(* What follows does not concern the root. *)
WithdrawSubmit(w) ==
  /\ At(w, "submit")
  /\ Len(mempool) < MaxPending
  /\ mempool' = Append(mempool, [by |-> Orphan, labels |-> worker[w].labels, rejected |-> {},
                                 leased |-> FALSE])
  /\ worker' = [worker EXCEPT ![w] = Idle]
  /\ UNCHANGED <<deposited, listed, latest, lock, record, faults, lapses, history>>

WithdrawEnds(w) ==
  /\ ~At(w, "idle")
  /\ worker' = [worker EXCEPT ![w] = Idle]
  /\ UNCHANGED <<chainVars, lock, record, faults, lapses, history>>

-----------------------------------------------------------------------------
(* What a run of refreshAspRoot does when nothing goes wrong. *)
Proceed(w) ==
  \/ Queue(w) \/ Acquire(w) \/ Scan(w) \/ Compare(w) \/ Check(w) \/ Submit(w)
  \/ Confirmed(w) \/ TimeOut(w) \/ WriteRecord(w) \/ Release(w)

WithdrawStep(w) ==
  WithdrawScan(w) \/ WithdrawCompare(w) \/ WithdrawSubmit(w) \/ WithdrawEnds(w)

Next ==
  \/ Deposit \/ Mine \/ Drop \/ LapseOrphan \/ Lapse
  \/ \E l \in Label : List(l)
  \/ \E w \in Confirmer, l \in Label : Confirm(w, l)
  \/ \E w \in Cron : Operate(w)
  \/ \E w \in Confirmer \cup Cron : Proceed(w) \/ Throw(w) \/ Crash(w)
  \/ \E w \in Withdrawer : WithdrawStep(w)

Spec == Init /\ [][Next]_vars

(* The cron comes round, a run that has begun goes on, transactions are mined  *)
(* and an abandoned lease runs out.                                            *)
Fairness ==
  /\ \A w \in Cron : WF_vars(Operate(w))
  /\ \A w \in Confirmer \cup Cron : WF_vars(Proceed(w))
  /\ WF_vars(Mine)
  /\ WF_vars(LapseOrphan)

FairSpec == Spec /\ Fairness

-----------------------------------------------------------------------------
(* Properties *)

(* A deposit recorded as included has been under the latest root, whatever run *)
(* wrote the record and whatever became of its lease (confirm POST, put).      *)
IncludedWasApproved == \A l \in Label : record[l] = "included" => l \in approvedOnce

(* A terminal record is never changed, in particular not by a run that lost    *)
(* the lease and writes "queued" late (put).                                   *)
TerminalIsFinal ==
  [][\A l \in Label : record[l] \in {"included", "rejected"} => record'[l] = record[l]]_vars

(* From the lease to the release a run whose lease has not lapsed is alone     *)
(* with it, so root updates of the two routes do not interleave.               *)
LeaseIsExclusive ==
  \A w \in Confirmer \cup Cron :
    /\ worker[w].pc \in {"scan", "compare", "check", "submit", "wait", "record", "release"}
    /\ worker[w].lapsed = "no"
    => lock = w

(* A root on its way approves no label that an earlier updater's root was      *)
(* posted without as rejected: screenings take effect in the order they were   *)
(* made, though leases lapse and runs that broadcast one time out or crash.    *)
(* Exempt is a lease that lapses between the check and the submission, which   *)
(* the code does not exclude (maySubmitUpdate).                                *)
ScreeningsInOrder ==
  \A i \in DOMAIN mempool :
    mempool[i].leased => mempool[i].labels \cap screenedOut = {}

(* The labels the root should have. *)
Target == (1 .. deposited) \ listed

(* Time and again the root is what the deposits and the list ask for: every    *)
(* confirmed deposit that passes the screening is included "automatically",    *)
(* and one that is listed later leaves; except that no root can be posted      *)
(* when nothing is left to approve (updateRoot, EmptyRoot).                    *)
RootCatchesUp == []<>(latest = Target \/ Target = {})

(* A label screened out by an updater's root does not come back: what is       *)
(* claimed of the lease, which the withdrawal route does not take              *)
(* (asp-root-updater.ts).                                                      *)
RejectedStayOut == latest \cap screenedOut = {}
=============================================================================
