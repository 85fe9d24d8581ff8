--------------------------- MODULE AspUpdaterProofs ---------------------------
(***************************************************************************)
(* The safety properties of the root updaters, for any number of workers,  *)
(* deposits, pending transactions, faults and lapses.                      *)
(***************************************************************************)
EXTENDS AspUpdater, SequenceTheorems, TLAPS

(* The workers that run refreshAspRoot. *)
Updater == Confirmer \cup Cron

(* The part of a run that is under the lease. *)
Held == {"scan", "compare", "check", "submit", "wait", "record", "release"}

(* A run holds the lease from Acquire to Release unless it lapsed; a run whose *)
(* lease lapsed before the check gets no further than the check.               *)
LeaseOf(w) ==
  /\ worker[w].pc \in Held /\ worker[w].lapsed = "no" => lock = w
  /\ worker[w].pc \in {"idle", "queue", "lock"} => worker[w].lapsed = "no" /\ lock # w
  /\ worker[w].lapsed # "no" => lock # w
  /\ worker[w].lapsed = "early" => worker[w].pc \notin {"submit", "wait"}

LeaseInv == \A w \in Updater : LeaseOf(w)

(* A run that gets to its record has screened its deposit, and its set has been *)
(* the latest root.                                                             *)
ApprovalOf(w) ==
  /\ worker[w].pc \in {"compare", "check", "submit", "wait", "record"}
       => worker[w].label \in {0} \cup worker[w].labels \cup worker[w].rejected
  /\ worker[w].mined => worker[w].pc \in {"wait", "record", "release"}
  /\ worker[w].pc = "record" \/ (worker[w].pc = "wait" /\ worker[w].mined)
       => worker[w].labels \subseteq approvedOnce

(* A transaction in the mempool belongs to the run that waits for it, which has *)
(* no other.                                                                    *)
PendingOf(w) ==
  \A i \in DOMAIN mempool : mempool[i].by = w =>
    /\ worker[w].pc = "wait" /\ ~worker[w].mined /\ worker[w].labels = mempool[i].labels
    /\ \A j \in DOMAIN mempool : mempool[j].by = w => j = i

ApprovalInv ==
  /\ latest \subseteq approvedOnce
  /\ IncludedWasApproved
  /\ \A w \in Updater : ApprovalOf(w) /\ PendingOf(w)

(* A run that scanned under the lease it still has, and has not submitted. *)
Deciding(w) == worker[w].pc \in {"compare", "check", "submit"} /\ worker[w].lapsed = "no"

(* What was screened out, is about to be, or is being, is listed: a run that *)
(* scans from now on approves none of it.                                    *)
AllListed ==
  /\ screenedOut \subseteq listed
  /\ \A i \in DOMAIN mempool : mempool[i].rejected \subseteq listed
  /\ \A w \in Updater : worker[w].rejected \subseteq listed

(* The same for a transaction and those before it in the mempool. *)
MempoolInOrder ==
  \A i, j \in DOMAIN mempool :
    i < j /\ mempool[j].leased => mempool[j].labels \cap mempool[i].rejected = {}

(* The same for a run that decides, and those past the check. *)
DecisionOf(w) ==
  Deciding(w) =>
    /\ worker[w].labels \cap screenedOut = {}
    /\ \A i \in DOMAIN mempool : worker[w].labels \cap mempool[i].rejected = {}
    /\ \A u \in Updater : u = w \/ worker[u].pc = "submit"
         => worker[w].labels \cap worker[u].rejected = {}

OrderInv ==
  /\ ScreeningsInOrder
  /\ AllListed
  /\ MempoolInOrder
  /\ \A w \in Updater : DecisionOf(w)

-----------------------------------------------------------------------------
(* Types *)

(* The updates the actions make to a worker keep its type. *)
LEMMA RunUpdates ==
  ASSUME NEW W, NEW f \in [W -> Run], NEW w \in W
  PROVE  /\ \A pc \in PC : [f EXCEPT ![w].pc = pc] \in [W -> Run]
         /\ [f EXCEPT ![w] = Idle] \in [W -> Run]
         /\ [f EXCEPT ![w].mined = TRUE] \in [W -> Run]
         /\ \A x \in {"no", "early", "late"} : [f EXCEPT ![w].lapsed = x] \in [W -> Run]
         /\ \A L, R \in SUBSET Label :
              [f EXCEPT ![w].pc = "compare", ![w].labels = L, ![w].rejected = R] \in [W -> Run]
         /\ \A pc \in PC, l \in Label \cup {0} :
              [f EXCEPT ![w] = [Idle EXCEPT !.pc = pc, !.label = l]] \in [W -> Run]
<1>1. \A pc \in PC : [f EXCEPT ![w].pc = pc] \in [W -> Run]
  BY DEF Run
<1>2. [f EXCEPT ![w] = Idle] \in [W -> Run]
  BY DEF Run, Idle, PC
<1>3. [f EXCEPT ![w].mined = TRUE] \in [W -> Run]
  BY DEF Run
<1>4. \A x \in {"no", "early", "late"} : [f EXCEPT ![w].lapsed = x] \in [W -> Run]
  BY DEF Run
<1>5. \A L, R \in SUBSET Label :
              [f EXCEPT ![w].pc = "compare", ![w].labels = L, ![w].rejected = R] \in [W -> Run]
  <2> TAKE L, R \in SUBSET Label
  <2>1. [f[w] EXCEPT !.pc = "compare", !.labels = L, !.rejected = R] \in Run
    BY DEF Run, PC
  <2> QED BY <2>1
<1>6. \A pc \in PC, l \in Label \cup {0} :
              [f EXCEPT ![w] = [Idle EXCEPT !.pc = pc, !.label = l]] \in [W -> Run]
  BY DEF Run, Idle
<1> QED BY <1>1, <1>2, <1>3, <1>4, <1>5, <1>6

(* Every step keeps the types. *)
LEMMA TypeNext == ASSUME TypeOK, [Next]_vars PROVE TypeOK'
<1> USE DEF TypeOK, Status
<1> USE WorkerAssumption, BoundAssumption
<1>a. \A w \in Worker : worker[w] \in Run /\ worker[w].label \in Label \cup {0} /\ worker[w].labels \in SUBSET Label
                        /\ worker[w].rejected \in SUBSET Label /\ worker[w].pc \in PC
  BY DEF Run
<1>b. \A w \in Worker :
         /\ \A pc \in PC : [worker EXCEPT ![w].pc = pc] \in [Worker -> Run]
         /\ [worker EXCEPT ![w] = Idle] \in [Worker -> Run]
         /\ [worker EXCEPT ![w].mined = TRUE] \in [Worker -> Run]
         /\ \A x \in {"no", "early", "late"} : [worker EXCEPT ![w].lapsed = x] \in [Worker -> Run]
         /\ \A L, R \in SUBSET Label :
              [worker EXCEPT ![w].pc = "compare", ![w].labels = L, ![w].rejected = R] \in [Worker -> Run]
         /\ \A pc \in PC, l \in Label \cup {0} :
              [worker EXCEPT ![w] = [Idle EXCEPT !.pc = pc, !.label = l]] \in [Worker -> Run]
  <2> TAKE w \in Worker
  <2> QED BY RunUpdates
<1>c. \A w \in Worker : [worker EXCEPT ![w] = Idle] \in [Worker -> Run]
  <2> HIDE DEF TypeOK
  <2> QED BY <1>b
<1>1. ASSUME Deposit PROVE TypeOK'
  BY <1>1 DEF Deposit, history
<1>2. ASSUME Mine PROVE TypeOK'
  <2>1. Head(mempool) \in Transaction /\ Tail(mempool) \in Seq(Transaction) /\ Len(Tail(mempool)) <= MaxPending
    BY <1>2, HeadTailProperties DEF Mine
  <2>2. worker' \in [Worker -> Run]
    <3>1. CASE Head(mempool).by = Orphan
      BY <1>2, <3>1 DEF Mine
    <3>2. CASE Head(mempool).by \in Worker
      BY <1>2, <1>b, <3>2 DEF Mine
    <3> QED BY <2>1, <3>1, <3>2 DEF Transaction
  <2> QED BY <1>2, <2>1, <2>2 DEF Mine, Transaction
<1>3. ASSUME Drop PROVE TypeOK'
  <2>1. Tail(mempool) \in Seq(Transaction) /\ Len(Tail(mempool)) <= MaxPending
    BY <1>3, HeadTailProperties DEF Drop
  <2> QED BY <1>3, <2>1 DEF Drop, history, Fault
<1>4. ASSUME LapseOrphan PROVE TypeOK'
  BY <1>4 DEF LapseOrphan, history, chainVars
<1>5. ASSUME Lapse PROVE TypeOK'
  <2>1. worker' \in [Worker -> Run]
    BY <1>5, <1>b DEF Lapse
  <2> QED BY <1>5, <2>1 DEF Lapse, history, chainVars
<1>6. ASSUME NEW l \in Label, List(l) PROVE TypeOK'
  BY <1>6 DEF List, history
<1>7. ASSUME NEW w \in Confirmer, NEW l \in Label, Confirm(w, l) PROVE TypeOK'
  <2>1. worker' \in [Worker -> Run]
    BY <1>7, <1>b DEF Confirm, Worker, PC
  <2> QED BY <1>7, <2>1 DEF Confirm, history, chainVars
<1>8. ASSUME NEW w \in Cron, Operate(w) PROVE TypeOK'
  <2>1. worker' \in [Worker -> Run]
    <3>1. [Idle EXCEPT !.pc = "lock"] \in Run
      BY DEF Idle, Run, PC
    <3> QED BY <1>8, <3>1 DEF Operate
  <2> QED BY <1>8, <2>1 DEF Operate, history, chainVars
<1>9. ASSUME NEW w \in Updater, Proceed(w) \/ Throw(w) \/ Crash(w) PROVE TypeOK'
  <2> w \in Worker BY DEF Updater, Worker
  <2>0. ASSUME NEW l \in Label \cup {0}, NEW s \in Status, Put(l, s) PROVE record' \in [Label -> Status]
    BY <2>0 DEF Put
  <2>i. worker' = [worker EXCEPT ![w] = Idle] => worker' \in [Worker -> Run]
    <3>1. [worker EXCEPT ![w] = Idle] \in [Worker -> Run]
      BY <1>c
    <3> HIDE DEF TypeOK
    <3> QED BY <3>1
  <2>g. ASSUME NEW pc \in PC, Goto(w, pc) PROVE worker' \in [Worker -> Run]
    <3>1. [worker EXCEPT ![w].pc = pc] \in [Worker -> Run]
      <4> HIDE DEF TypeOK
      <4> QED BY <1>b
    <3> QED BY <2>g, <3>1 DEF Goto
  <2>h. ASSUME GiveUp(w) PROVE worker' \in [Worker -> Run] /\ record' \in [Label -> Status]
    <3>1. Put(worker[w].label, "queued") /\ Goto(w, "release")
      BY <2>h DEF GiveUp
    <3>2. record' \in [Label -> Status]
      BY <3>1, <2>0, <1>a
    <3>3. worker' \in [Worker -> Run]
      BY <3>1, <2>g DEF PC
    <3> QED BY <3>2, <3>3
  <2>1. CASE Queue(w)
    <3>1. worker' \in [Worker -> Run] /\ record' \in [Label -> Status]
      <4>1. worker' \in [Worker -> Run]
        BY <2>1, <2>g, <2>i DEF Queue, PC
      <4> QED BY <2>1, <2>0, <1>a, <4>1 DEF Queue
    <3> QED BY <2>1, <3>1 DEF Queue, history, chainVars
  <2>2. CASE Acquire(w)
    <3>1. worker' \in [Worker -> Run] /\ record' \in [Label -> Status]
      <4>1. worker' \in [Worker -> Run]
        BY <2>2, <2>g, <2>i DEF Acquire, PC
      <4> QED BY <2>2, <2>0, <1>a, <4>1 DEF Acquire
    <3> QED BY <2>2, <3>1 DEF Acquire, history, chainVars
  <2>3. CASE Scan(w)
    <3>1. PICK n \in 0 .. deposited :
       /\ IF n < deposited THEN Fault ELSE UNCHANGED faults
       /\ IF worker[w].label > n \/ n = 0 THEN GiveUp(w)
          ELSE /\ worker' = [worker EXCEPT ![w].pc = "compare", ![w].labels = (1 .. n) \ listed,
                                           ![w].rejected = (1 .. n) \cap listed]
               /\ UNCHANGED record
      BY <2>3 DEF Scan
    <3>2. faults' \in 0 .. MaxFaults
      BY <3>1 DEF Fault
    <3>3. (1 .. n) \ listed \in SUBSET Label /\ (1 .. n) \cap listed \in SUBSET Label
      BY DEF Label
    <3>4. worker' \in [Worker -> Run] /\ record' \in [Label -> Status]
      <4>1. CASE worker[w].label > n \/ n = 0
        BY <3>1, <2>h, <4>1
      <4>2. CASE ~(worker[w].label > n \/ n = 0)
        <5> DEFINE L == (1 .. n) \ listed  R == (1 .. n) \cap listed
        <5>1. worker' = [worker EXCEPT ![w].pc = "compare", ![w].labels = L, ![w].rejected = R]
              /\ UNCHANGED record
          BY <3>1, <4>2
        <5> HIDE DEF L, R
        <5>2. L \in SUBSET Label /\ R \in SUBSET Label
          BY <3>3 DEF L, R
        <5> QED BY <5>1, <5>2, <1>b
      <4> QED BY <4>1, <4>2
    <3> QED BY <2>3, <3>2, <3>4 DEF Scan, history, chainVars
  <2>4. CASE Compare(w)
    <3>1. worker' \in [Worker -> Run]
      BY <2>4, <2>g DEF Compare, PC
    <3> QED BY <2>4, <3>1 DEF Compare, Fault, history, chainVars
  <2>5. CASE Check(w)
    <3>1. worker' \in [Worker -> Run] /\ record' \in [Label -> Status]
      BY <2>5, <2>h, <2>g DEF Check, PC
    <3> QED BY <2>5, <3>1 DEF Check, history, chainVars
  <2>6. CASE Submit(w)
    <3> DEFINE tx == [by |-> w, labels |-> worker[w].labels, rejected |-> worker[w].rejected,
                      leased |-> worker[w].lapsed # "late"]
    <3>1. tx \in Transaction
      BY <1>a DEF Transaction
    <3>2. mempool' \in Seq(Transaction) /\ Len(mempool') <= MaxPending
      <4>1. CASE mempool' = mempool
        BY <4>1
      <4>2. CASE mempool' = Append(mempool, tx) /\ Len(mempool) < MaxPending
        BY <4>2, <3>1, AppendProperties
      <4> QED BY <2>6, <4>1, <4>2 DEF Submit
    <3>3. worker' \in [Worker -> Run] /\ record' \in [Label -> Status]
      BY <2>6, <2>h, <2>g DEF Submit, PC
    <3> QED BY <2>6, <3>2, <3>3 DEF Submit, history
  <2>7. CASE Confirmed(w)
    <3>1. worker' \in [Worker -> Run]
      BY <2>7, <2>g DEF Confirmed, PC
    <3> QED BY <2>7, <3>1 DEF Confirmed, history, chainVars
  <2>8. CASE TimeOut(w)
    <3>1. worker' \in [Worker -> Run] /\ record' \in [Label -> Status]
      BY <2>8, <2>h DEF TimeOut
    <3> QED BY <2>8, <3>1 DEF TimeOut, history, chainVars
  <2>9. CASE WriteRecord(w)
    <3>1. worker' \in [Worker -> Run] /\ record' \in [Label -> Status]
      BY <2>9, <2>0, <1>a, <2>g DEF WriteRecord, PC
    <3> QED BY <2>9, <3>1 DEF WriteRecord, history, chainVars
  <2>10. CASE Release(w)
    <3>1. worker' \in [Worker -> Run]
      BY <2>10, <2>i DEF Release
    <3> QED BY <2>10, <3>1 DEF Release, history, chainVars
  <2>11. Disowned(w) \in Seq(Transaction) /\ Len(Disowned(w)) = Len(mempool)
    <3>1. \A i \in 1 .. Len(mempool) : mempool[i] \in Transaction
      OBVIOUS
    <3>2. \A i \in 1 .. Len(mempool) :
            (IF mempool[i].by = w THEN [mempool[i] EXCEPT !.by = Orphan] ELSE mempool[i]) \in Transaction
      BY <3>1 DEF Transaction
    <3>3. Len(mempool) \in Nat /\ DOMAIN mempool = 1 .. Len(mempool)
      OBVIOUS
    <3> QED
      BY <3>2, <3>3 DEF Disowned
  <2>12. CASE Throw(w)
    <3>1. worker' \in [Worker -> Run] /\ record' \in [Label -> Status]
      BY <2>12, <2>h DEF Throw
    <3> QED BY <2>12, <3>1, <2>11 DEF Throw, Fault, history
  <2>13. CASE Crash(w)
    <3>1. worker' \in [Worker -> Run]
      BY <2>13, <2>i DEF Crash
    <3> QED BY <2>13, <3>1, <2>11 DEF Crash, Fault, history
  <2> QED
    BY <1>9, <2>1, <2>2, <2>3, <2>4, <2>5, <2>6, <2>7, <2>8, <2>9, <2>10, <2>12, <2>13 DEF Proceed
<1>10. ASSUME NEW w \in Withdrawer, WithdrawStep(w) PROVE TypeOK'
  <2> w \in Worker BY DEF Worker
  <2>1. CASE WithdrawScan(w)
    <3>1. PICK L \in {latest} \cup {(1 .. n) \ listed : n \in 0 .. deposited} :
            worker' = [worker EXCEPT ![w] = [Idle EXCEPT !.pc = "compare", !.labels = L]]
      BY <2>1 DEF WithdrawScan
    <3>2. L \in SUBSET Label
      BY DEF Label
    <3>3. [Idle EXCEPT !.pc = "compare", !.labels = L] \in Run
      BY <3>2 DEF Idle, Run, PC
    <3>4. worker' \in [Worker -> Run]
      BY <3>1, <3>3
    <3> QED BY <2>1, <3>4 DEF WithdrawScan, history, chainVars
  <2>2. CASE WithdrawCompare(w)
    <3>1. worker' = [worker EXCEPT ![w] = Idle] \/ worker' = [worker EXCEPT ![w].pc = "submit"]
      BY <2>2 DEF WithdrawCompare, Goto
    <3>2. [worker EXCEPT ![w] = Idle] \in [Worker -> Run]
      BY <1>b
    <3>3. "submit" \in PC
      BY DEF PC
    <3>4. [worker EXCEPT ![w].pc = "submit"] \in [Worker -> Run]
      BY <1>b, <3>3
    <3>5. worker' \in [Worker -> Run]
      BY <3>1, <3>2, <3>4
    <3> QED BY <2>2, <3>5 DEF WithdrawCompare, history, chainVars
  <2>3. CASE WithdrawSubmit(w)
    <3> DEFINE tx == [by |-> Orphan, labels |-> worker[w].labels, rejected |-> {}, leased |-> FALSE]
    <3>1. tx \in Transaction
      BY <1>a DEF Transaction
    <3>2. mempool' \in Seq(Transaction) /\ Len(mempool') <= MaxPending
      BY <2>3, <3>1, AppendProperties DEF WithdrawSubmit
    <3>3. worker' \in [Worker -> Run]
      BY <2>3, <1>b DEF WithdrawSubmit
    <3> QED BY <2>3, <3>2, <3>3 DEF WithdrawSubmit, history
  <2>4. CASE WithdrawEnds(w)
    <3>1. worker' \in [Worker -> Run]
      BY <2>4, <1>b DEF WithdrawEnds
    <3> QED BY <2>4, <3>1 DEF WithdrawEnds, history, chainVars
  <2> QED BY <1>10, <2>1, <2>2, <2>3, <2>4 DEF WithdrawStep
<1>11. CASE UNCHANGED vars
  BY <1>11 DEF vars, chainVars, history
<1> QED
  BY <1>1, <1>2, <1>3, <1>4, <1>5, <1>6, <1>7, <1>8, <1>9, <1>10, <1>11 DEF Next, Updater

-----------------------------------------------------------------------------
(* What a step does to the run that takes it, and to the others. *)

(* A run that moves on keeps the rest of its memory. *)
LEMMA GotoFacts ==
  ASSUME TypeOK, NEW w \in Worker, NEW pc \in PC, Goto(w, pc)
  PROVE  /\ worker'[w].pc = pc
         /\ worker'[w].label = worker[w].label
         /\ worker'[w].labels = worker[w].labels
         /\ worker'[w].rejected = worker[w].rejected
         /\ worker'[w].mined = worker[w].mined
         /\ worker'[w].lapsed = worker[w].lapsed
         /\ \A v \in Worker : v # w => worker'[v] = worker[v]
<1>1. worker \in [Worker -> Run]
  BY DEF TypeOK
<1> QED BY <1>1 DEF Goto, Run

(* A run that ends leaves nothing behind. *)
LEMMA IdleFacts ==
  ASSUME TypeOK, NEW w \in Worker, worker' = [worker EXCEPT ![w] = Idle]
  PROVE  worker'[w] = Idle /\ \A v \in Worker : v # w => worker'[v] = worker[v]
<1>1. worker \in [Worker -> Run]
  BY DEF TypeOK
<1> QED BY <1>1

(* A screening sets the two sets and nothing else. *)
LEMMA ScanFacts ==
  ASSUME TypeOK, NEW w \in Worker, NEW L, NEW R,
         worker' = [worker EXCEPT ![w].pc = "compare", ![w].labels = L, ![w].rejected = R]
  PROVE  /\ worker'[w].pc = "compare"
         /\ worker'[w].label = worker[w].label
         /\ worker'[w].labels = L
         /\ worker'[w].rejected = R
         /\ worker'[w].mined = worker[w].mined
         /\ worker'[w].lapsed = worker[w].lapsed
         /\ \A v \in Worker : v # w => worker'[v] = worker[v]
<1>1. worker \in [Worker -> Run]
  BY DEF TypeOK
<1> QED BY <1>1 DEF Run

(* A step of an updater changes no other run. *)
LEMMA OthersStay ==
  ASSUME TypeOK, NEW w \in Updater, Proceed(w) \/ Throw(w) \/ Crash(w)
  PROVE  \A v \in Worker : v # w => worker'[v] = worker[v]
<1> w \in Worker /\ worker \in [Worker -> Run]
  BY DEF Updater, Worker, TypeOK
<1>1. CASE \E pc \in PC : Goto(w, pc)
  BY <1>1, GotoFacts
<1>2. CASE worker' = [worker EXCEPT ![w] = Idle]
  BY <1>2
<1>3. CASE Scan(w)
  <2>1. CASE GiveUp(w)
    BY <2>1, <1>1 DEF GiveUp, PC
  <2>2. CASE \E L, R : worker' = [worker EXCEPT ![w].pc = "compare", ![w].labels = L, ![w].rejected = R]
    BY <2>2
  <2> QED BY <1>3, <2>1, <2>2 DEF Scan
<1>4. Queue(w) \/ Acquire(w) \/ Compare(w) \/ Check(w) \/ Submit(w) \/ Confirmed(w) \/ TimeOut(w)
        \/ WriteRecord(w) \/ Release(w) \/ Throw(w) \/ Crash(w)
      => (\E pc \in PC : Goto(w, pc)) \/ worker' = [worker EXCEPT ![w] = Idle]
  BY DEF Queue, Acquire, Compare, Check, Submit, Confirmed, TimeOut, WriteRecord, Release, Throw,
         Crash, GiveUp, PC
<1> QED BY <1>1, <1>2, <1>3, <1>4 DEF Proceed

-----------------------------------------------------------------------------
(* The lease *)

(* Every step keeps the lease with the run it was given to. *)
LEMMA LeaseNext == ASSUME TypeOK, LeaseInv, [Next]_vars PROVE LeaseInv'
<1> USE WorkerAssumption
<1>u. \A w \in Updater : w \in Worker /\ w # None /\ w # Orphan
  BY DEF Updater, Worker
<1>w. worker \in [Worker -> Run]
  BY DEF TypeOK
<1>a. ASSUME NEW w \in Worker,
             \A v \in Updater : v # w => worker'[v] = worker[v] /\ (lock' = v <=> lock = v),
             w \in Updater => LeaseOf(w)'
      PROVE  LeaseInv'
  BY <1>a DEF LeaseInv, LeaseOf
<1>b. ASSUME worker' = worker, \A v \in Updater : lock' = v <=> lock = v PROVE LeaseInv'
  BY <1>b DEF LeaseInv, LeaseOf
<1>1. CASE Deposit \/ (\E l \in Label : List(l)) \/ Drop \/ UNCHANGED vars
  BY <1>1, <1>b DEF Deposit, List, Drop, vars
<1>2. CASE Mine
  <2> DEFINE tx == Head(mempool)
  <2>1. CASE tx.by = Orphan
    BY <1>2, <2>1, <1>b DEF Mine
  <2>2. CASE tx.by # Orphan
    <3>1. worker' = [worker EXCEPT ![tx.by].mined = TRUE] /\ lock' = lock
      BY <1>2, <2>2 DEF Mine
    <3>2. \A v \in Worker : worker'[v].pc = worker[v].pc /\ worker'[v].lapsed = worker[v].lapsed
      BY <3>1, <1>w DEF Run
    <3> QED BY <3>1, <3>2, <1>u DEF LeaseInv, LeaseOf
  <2> QED BY <2>1, <2>2
<1>3. CASE LapseOrphan
  BY <1>3, <1>b, <1>u DEF LapseOrphan
<1>4. CASE Lapse
  <2>1. PICK w \in Worker : w = lock
    BY <1>4 DEF Lapse
  <2>2. lock' = None /\ \A v \in Worker : v # w => worker'[v] = worker[v]
    BY <1>4, <2>1, <1>w DEF Lapse
  <2>3. /\ worker'[w].pc = worker[w].pc
        /\ worker'[w].lapsed = IF worker[w].pc \in {"scan", "compare", "check"} THEN "early" ELSE "late"
    BY <1>4, <2>1, <1>w DEF Lapse, Run
  <2>4. w \in Updater => LeaseOf(w)'
    BY <2>1, <2>2, <2>3, <1>u DEF LeaseInv, LeaseOf
  <2> QED BY <1>a, <2>1, <2>2, <2>4, <1>u
<1>5. ASSUME NEW w \in Confirmer, NEW l \in Label, Confirm(w, l) PROVE LeaseInv'
  <2>1. w \in Updater /\ worker[w].pc = "idle" /\ lock' = lock
    BY <1>5 DEF Confirm, Updater, At
  <2>2. worker'[w].pc = "queue" /\ worker'[w].lapsed = "no" /\ \A v \in Worker : v # w => worker'[v] = worker[v]
    BY <1>5, <2>1, <1>u, <1>w DEF Confirm, Idle
  <2>3. LeaseOf(w)'
    BY <2>1, <2>2 DEF LeaseInv, LeaseOf, Held
  <2> QED BY <1>a, <1>u, <2>1, <2>2, <2>3
<1>6. ASSUME NEW w \in Cron, Operate(w) PROVE LeaseInv'
  <2>1. w \in Updater /\ worker[w].pc = "idle" /\ lock' = lock
    BY <1>6 DEF Operate, Updater, At
  <2>2. worker'[w].pc = "lock" /\ worker'[w].lapsed = "no" /\ \A v \in Worker : v # w => worker'[v] = worker[v]
    BY <1>6, <2>1, <1>u, <1>w DEF Operate, Idle
  <2>3. LeaseOf(w)'
    BY <2>1, <2>2 DEF LeaseInv, LeaseOf, Held
  <2> QED BY <1>a, <1>u, <2>1, <2>2, <2>3
<1>7. ASSUME NEW w \in Updater, Proceed(w) \/ Throw(w) \/ Crash(w) PROVE LeaseInv'
  <2> w \in Worker /\ w # None /\ w # Orphan
    BY <1>u
  <2> USE DEF At
  <2>l. LeaseOf(w)
    BY DEF LeaseInv
  <2>i. worker' = [worker EXCEPT ![w] = Idle] => worker'[w].pc = "idle" /\ worker'[w].lapsed = "no"
    <3>1. worker' = [worker EXCEPT ![w] = Idle] => worker'[w] = Idle
      BY IdleFacts
    <3> QED BY <3>1 DEF Idle
  <2>g. \A pc \in PC : Goto(w, pc) => worker'[w].pc = pc /\ worker'[w].lapsed = worker[w].lapsed
    BY GotoFacts
  <2>h. GiveUp(w) => worker'[w].pc = "release" /\ worker'[w].lapsed = worker[w].lapsed
    BY <2>g DEF GiveUp, PC
  <2>n. (\A v \in Updater : v # w => (lock' = v <=> lock = v)) /\ LeaseOf(w)' => LeaseInv'
    BY <1>a, <1>u, OthersStay, <1>7
  <2>1. CASE Queue(w)
    <3>1. \/ worker'[w].pc = "lock" /\ worker'[w].lapsed = worker[w].lapsed
          \/ worker'[w].pc = "idle" /\ worker'[w].lapsed = "no"
      BY <2>1, <2>g, <2>i DEF Queue, PC
    <3>2. lock' = lock /\ worker[w].pc = "queue"
      BY <2>1 DEF Queue
    <3> QED BY <2>n, <2>l, <3>1, <3>2 DEF LeaseOf, Held
  <2>2. CASE Acquire(w)
    <3>1. CASE lock = None
      <4>1. lock' = w /\ worker[w].pc = "lock" /\ worker'[w].pc = "scan" /\ worker'[w].lapsed = worker[w].lapsed
        BY <2>2, <3>1, <2>g DEF Acquire, PC
      <4> QED BY <2>n, <2>l, <3>1, <4>1, <1>u DEF LeaseOf, Held
    <3>2. CASE lock # None
      <4>1. lock' = lock /\ worker[w].pc = "lock" /\ worker'[w].pc = "idle" /\ worker'[w].lapsed = "no"
        BY <2>2, <3>2, <2>i DEF Acquire
      <4> QED BY <2>n, <2>l, <4>1 DEF LeaseOf, Held
    <3> QED BY <3>1, <3>2
  <2>3. CASE Scan(w)
    <3>1. lock' = lock /\ worker[w].pc = "scan"
      BY <2>3 DEF Scan
    <3>2. worker'[w].pc \in {"compare", "release"} /\ worker'[w].lapsed = worker[w].lapsed
      <4>1. CASE GiveUp(w)
        BY <4>1, <2>h
      <4>2. CASE \E L, R : worker' = [worker EXCEPT ![w].pc = "compare", ![w].labels = L, ![w].rejected = R]
        <5>1. PICK L, R : worker' = [worker EXCEPT ![w].pc = "compare", ![w].labels = L, ![w].rejected = R]
          BY <4>2
        <5> QED BY <5>1, ScanFacts
      <4> QED BY <2>3, <4>1, <4>2 DEF Scan
    <3> QED BY <2>n, <2>l, <3>1, <3>2 DEF LeaseOf, Held
  <2>4. CASE Compare(w)
    <3>1. lock' = lock /\ worker[w].pc = "compare"
      BY <2>4 DEF Compare
    <3>2. worker'[w].pc \in {"record", "check"} /\ worker'[w].lapsed = worker[w].lapsed
      BY <2>4, <2>g DEF Compare, PC
    <3> QED BY <2>n, <2>l, <3>1, <3>2 DEF LeaseOf, Held
  <2>5. CASE Check(w)
    <3>1. lock' = lock /\ worker[w].pc = "check" /\ worker'[w].lapsed = worker[w].lapsed
      BY <2>5, <2>g, <2>h DEF Check, PC
    <3>2. (worker'[w].pc = "submit" /\ lock = w) \/ worker'[w].pc = "release"
      BY <2>5, <2>g, <2>h DEF Check, PC
    <3> QED BY <2>n, <2>l, <3>1, <3>2 DEF LeaseOf, Held
  <2>6. CASE Submit(w)
    <3>1. lock' = lock /\ worker[w].pc = "submit"
      BY <2>6 DEF Submit
    <3>2. worker'[w].pc \in {"wait", "release"} /\ worker'[w].lapsed = worker[w].lapsed
      BY <2>6, <2>g, <2>h DEF Submit, PC
    <3> QED BY <2>n, <2>l, <3>1, <3>2 DEF LeaseOf, Held
  <2>7. CASE Confirmed(w) \/ TimeOut(w) \/ WriteRecord(w) \/ Throw(w)
    <3>1. lock' = lock /\ worker[w].pc \in Held
      BY <2>7 DEF Confirmed, TimeOut, WriteRecord, Throw, Held
    <3>2. worker'[w].pc \in {"record", "release"} /\ worker'[w].lapsed = worker[w].lapsed
      BY <2>7, <2>g, <2>h DEF Confirmed, TimeOut, WriteRecord, Throw, PC
    <3> QED BY <2>n, <2>l, <3>1, <3>2 DEF LeaseOf, Held
  <2>8. CASE Release(w) \/ Crash(w)
    <3>1. lock' # w /\ \A v \in Updater : v # w => (lock' = v <=> lock = v)
      BY <2>8, <1>u DEF Release, Crash
    <3>2. worker'[w].pc = "idle" /\ worker'[w].lapsed = "no"
      BY <2>8, <2>i DEF Release, Crash
    <3> QED BY <2>n, <3>1, <3>2 DEF LeaseOf, Held
  <2> QED
    BY <1>7, <2>1, <2>2, <2>3, <2>4, <2>5, <2>6, <2>7, <2>8 DEF Proceed
<1>8. ASSUME NEW w \in Withdrawer, WithdrawStep(w) PROVE LeaseInv'
  <2>1. w \in Worker /\ w \notin Updater
    BY DEF Worker, Updater
  <2>2. lock' = lock
    BY <1>8 DEF WithdrawStep, WithdrawScan, WithdrawCompare, WithdrawSubmit, WithdrawEnds
  <2>3. \A v \in Worker : v # w => worker'[v] = worker[v]
    BY <1>8, <2>1, <1>w DEF WithdrawStep, WithdrawScan, WithdrawCompare, WithdrawSubmit, WithdrawEnds, Goto
  <2> QED BY <1>a, <1>u, <2>1, <2>2, <2>3
<1> QED
  BY <1>1, <1>2, <1>3, <1>4, <1>5, <1>6, <1>7, <1>8 DEF Next, Updater

-----------------------------------------------------------------------------
(* The mempool *)

(* The mempool without its first transaction. *)
LEMMA TailFacts ==
  ASSUME TypeOK, mempool # << >>, mempool' = Tail(mempool)
  PROVE  /\ 1 \in DOMAIN mempool /\ mempool[1] = Head(mempool) /\ Head(mempool) \in Transaction
         /\ \A i \in DOMAIN mempool' :
              i \in Nat /\ i >= 1 /\ i + 1 \in DOMAIN mempool /\ mempool'[i] = mempool[i + 1]
<1>1. mempool \in Seq(Transaction)
  BY DEF TypeOK
<1> QED BY <1>1

(* The mempool with one more transaction. *)
LEMMA AppendFacts ==
  ASSUME TypeOK, NEW tx, mempool' = Append(mempool, tx)
  PROVE  /\ DOMAIN mempool = 1 .. Len(mempool) /\ Len(mempool) \in Nat
         /\ DOMAIN mempool' = 1 .. Len(mempool) + 1
         /\ mempool'[Len(mempool) + 1] = tx
         /\ \A i \in DOMAIN mempool : mempool'[i] = mempool[i]
<1>1. mempool \in Seq(Transaction)
  BY DEF TypeOK
<1> QED BY <1>1

(* The mempool when a run has lost interest in its transaction. *)
LEMMA DisownedFacts ==
  ASSUME TypeOK, NEW w \in Updater, mempool' = Disowned(w)
  PROVE  /\ DOMAIN mempool' = DOMAIN mempool
         /\ \A i \in DOMAIN mempool :
              /\ mempool[i].by = w => mempool'[i].by = Orphan
              /\ mempool[i].by # w => mempool'[i].by = mempool[i].by
              /\ mempool'[i].labels = mempool[i].labels
              /\ mempool'[i].rejected = mempool[i].rejected
              /\ (mempool'[i].leased => mempool[i].leased)
<1>1. \A i \in DOMAIN mempool : mempool[i] \in Transaction
  BY DEF TypeOK
<1> QED BY <1>1 DEF Disowned, Transaction

-----------------------------------------------------------------------------
(* What is included was approved *)

(* A record keeps its status or gets the one that is put. *)
LEMMA PutFacts ==
  ASSUME TypeOK, NEW l \in Label \cup {0}, NEW s, Put(l, s), NEW k \in Label
  PROVE  record'[k] = record[k] \/ (k = l /\ record'[k] = s)
<1>1. record \in [Label -> Status]
  BY DEF TypeOK
<1> QED BY <1>1 DEF Put

(* Every step keeps the records within what was approved. *)
LEMMA ApprovalNext == ASSUME TypeOK, ApprovalInv, [Next]_vars PROVE ApprovalInv'
<1> USE WorkerAssumption
<1>u. \A w \in Updater : w \in Worker /\ w # None /\ w # Orphan
  BY DEF Updater, Worker
<1>w. worker \in [Worker -> Run]
  BY DEF TypeOK
<1>l. \A w \in Worker : worker[w].label \in Label \cup {0}
  BY <1>w DEF Run
<1>a. ASSUME NEW w \in Worker,
             \A v \in Updater : v # w => worker'[v] = worker[v] /\ PendingOf(v)',
             w \in Updater => ApprovalOf(w)' /\ PendingOf(w)',
             latest' = latest, approvedOnce' = approvedOnce, IncludedWasApproved'
      PROVE  ApprovalInv'
  BY <1>a DEF ApprovalInv, ApprovalOf
<1>b. ASSUME mempool' = mempool, NEW v \in Updater, worker'[v] = worker[v] PROVE PendingOf(v)'
  BY <1>b DEF ApprovalInv, PendingOf
<1>c. ASSUME record' = record, approvedOnce \subseteq approvedOnce' PROVE IncludedWasApproved'
  BY <1>c DEF ApprovalInv, IncludedWasApproved
<1>d. ASSUME mempool # << >>, mempool' = Tail(mempool), NEW v \in Updater, worker'[v] = worker[v]
      PROVE  PendingOf(v)'
  <2>1. PendingOf(v)
    BY DEF ApprovalInv
  <2>2. ASSUME NEW i \in DOMAIN mempool', mempool'[i].by = v
        PROVE  /\ worker'[v].pc = "wait" /\ ~worker'[v].mined /\ worker'[v].labels = mempool'[i].labels
               /\ \A j \in DOMAIN mempool' : mempool'[j].by = v => j = i
    <3>1. i \in Nat /\ i + 1 \in DOMAIN mempool /\ mempool[i + 1].by = v /\ mempool'[i] = mempool[i + 1]
      BY <1>d, <2>2, TailFacts
    <3>2. \A j \in DOMAIN mempool' : mempool'[j].by = v => j \in Nat /\ j + 1 \in DOMAIN mempool /\ mempool[j + 1].by = v
      BY <1>d, TailFacts
    <3>3. \A j \in DOMAIN mempool' : mempool'[j].by = v => j = i
      <4> TAKE j \in DOMAIN mempool'
      <4> HAVE mempool'[j].by = v
      <4>1. j \in Nat /\ j + 1 = i + 1
        BY <2>1, <3>1, <3>2 DEF PendingOf
      <4> QED BY <3>1, <4>1
    <3> QED BY <1>d, <2>1, <3>1, <3>3 DEF PendingOf
  <2> QED BY <2>2 DEF PendingOf
<1>1. CASE Deposit \/ (\E l \in Label : List(l)) \/ LapseOrphan \/ UNCHANGED vars
  <2>1. worker' = worker /\ mempool' = mempool /\ latest' = latest /\ record' = record
        /\ approvedOnce' = approvedOnce
    BY <1>1 DEF Deposit, List, LapseOrphan, vars, chainVars, history
  <2> QED BY <2>1 DEF ApprovalInv, IncludedWasApproved, ApprovalOf, PendingOf
<1>2. CASE Drop
  <2>1. mempool # << >> /\ mempool' = Tail(mempool)
    BY <1>2 DEF Drop
  <2>2. worker' = worker /\ latest' = latest /\ record' = record /\ approvedOnce' = approvedOnce
    BY <1>2 DEF Drop, history
  <2>3. \A v \in Updater : PendingOf(v)'
    BY <2>1, <2>2, <1>d
  <2> QED BY <2>2, <2>3 DEF ApprovalInv, IncludedWasApproved, ApprovalOf
<1>3. CASE Mine
  <2> DEFINE tx == Head(mempool)
  <2>1. mempool # << >> /\ mempool' = Tail(mempool) /\ latest' = tx.labels /\ record' = record
        /\ approvedOnce' = approvedOnce \cup tx.labels
    BY <1>3 DEF Mine
  <2>2. 1 \in DOMAIN mempool /\ mempool[1] = tx
    BY <2>1, TailFacts
  <2>3. \A v \in Updater : v # tx.by => worker'[v] = worker[v]
    BY <1>3, <1>u, <1>w DEF Mine
  <2>4. ASSUME NEW v \in Updater, v = tx.by PROVE ApprovalOf(v)' /\ PendingOf(v)'
    <3>1. /\ worker'[v].mined /\ worker'[v].pc = worker[v].pc /\ worker'[v].labels = worker[v].labels
          /\ worker'[v].label = worker[v].label /\ worker'[v].rejected = worker[v].rejected
      BY <1>3, <2>4, <1>u, <1>w DEF Mine, Run
    <3>2. PendingOf(v) /\ ApprovalOf(v)
      BY DEF ApprovalInv
    <3>3. worker[v].pc = "wait" /\ worker[v].labels = tx.labels
          /\ \A j \in DOMAIN mempool : mempool[j].by = v => j = 1
      BY <2>2, <2>4, <3>2 DEF PendingOf
    <3>4. ApprovalOf(v)'
      BY <2>1, <3>1, <3>2, <3>3 DEF ApprovalOf
    <3>5. \A i \in DOMAIN mempool' : mempool'[i].by # v
      <4>1. \A i \in DOMAIN mempool' : i \in Nat /\ i >= 1 /\ i + 1 \in DOMAIN mempool /\ mempool'[i] = mempool[i + 1]
        BY <2>1, TailFacts
      <4> TAKE i \in DOMAIN mempool'
      <4>2. mempool[i + 1].by = v => i + 1 = 1
        BY <3>3, <4>1
      <4>3. i \in Nat /\ i >= 1 /\ mempool'[i] = mempool[i + 1]
        BY <4>1
      <4> QED BY <4>2, <4>3
    <3> QED BY <3>4, <3>5 DEF PendingOf
  <2>5. \A v \in Updater : v # tx.by => PendingOf(v)' /\ ApprovalOf(v)'
    BY <2>1, <2>3, <1>d DEF ApprovalInv, ApprovalOf
  <2>6. latest' \subseteq approvedOnce' /\ IncludedWasApproved'
    BY <2>1, <1>c
  <2> QED BY <2>4, <2>5, <2>6 DEF ApprovalInv
<1>4. CASE Lapse
  <2>1. \A v \in Worker : /\ worker'[v].pc = worker[v].pc /\ worker'[v].labels = worker[v].labels
                          /\ worker'[v].label = worker[v].label /\ worker'[v].rejected = worker[v].rejected
                          /\ worker'[v].mined = worker[v].mined
    BY <1>4, <1>w DEF Lapse, Run
  <2>2. mempool' = mempool /\ latest' = latest /\ record' = record /\ approvedOnce' = approvedOnce
    BY <1>4 DEF Lapse, chainVars, history
  <2> QED BY <2>1, <2>2, <1>u DEF ApprovalInv, IncludedWasApproved, ApprovalOf, PendingOf
<1>5. ASSUME NEW w \in Updater, worker[w].pc = "idle", worker'[w].pc \in {"queue", "lock"}, ~worker'[w].mined,
             \A v \in Worker : v # w => worker'[v] = worker[v],
             UNCHANGED <<chainVars, record, history>>
      PROVE  ApprovalInv'
  <2>1. mempool' = mempool /\ latest' = latest /\ record' = record /\ approvedOnce' = approvedOnce
    BY <1>5 DEF chainVars, history
  <2>2. ApprovalOf(w)' /\ PendingOf(w)'
    BY <1>5, <2>1 DEF ApprovalInv, ApprovalOf, PendingOf
  <2>3. \A v \in Updater : v # w => worker'[v] = worker[v] /\ PendingOf(v)'
    BY <1>5, <1>u, <1>b, <2>1
  <2>4. IncludedWasApproved'
    BY <1>c, <2>1
  <2> QED BY <1>a, <1>u, <2>1, <2>2, <2>3, <2>4
<1>6. ASSUME NEW w \in Confirmer, NEW l \in Label, Confirm(w, l) PROVE ApprovalInv'
  <2>1. w \in Updater /\ worker[w].pc = "idle"
    BY <1>6 DEF Confirm, Updater, At
  <2>2. worker'[w].pc = "queue" /\ ~worker'[w].mined /\ \A v \in Worker : v # w => worker'[v] = worker[v]
    BY <1>6, <2>1, <1>u, <1>w DEF Confirm, Idle
  <2>3. UNCHANGED <<chainVars, record, history>>
    BY <1>6 DEF Confirm
  <2> QED BY <1>5, <2>1, <2>2, <2>3
<1>7. ASSUME NEW w \in Cron, Operate(w) PROVE ApprovalInv'
  <2>1. w \in Updater /\ worker[w].pc = "idle"
    BY <1>7 DEF Operate, Updater, At
  <2>2. worker'[w].pc = "lock" /\ ~worker'[w].mined /\ \A v \in Worker : v # w => worker'[v] = worker[v]
    BY <1>7, <2>1, <1>u, <1>w DEF Operate, Idle
  <2>3. UNCHANGED <<chainVars, record, history>>
    BY <1>7 DEF Operate
  <2> QED BY <1>5, <2>1, <2>2, <2>3
<1>8. ASSUME NEW w \in Updater, Proceed(w) \/ Throw(w) \/ Crash(w) PROVE ApprovalInv'
  <2> w \in Worker /\ w # None /\ w # Orphan
    BY <1>u
  <2> USE DEF At
  <2>w. ApprovalOf(w) /\ PendingOf(w)
    BY DEF ApprovalInv
  <2>o. \A v \in Updater : v # w => worker'[v] = worker[v]
    BY <1>u, <1>8, OthersStay
  <2>s. latest' = latest /\ approvedOnce' = approvedOnce
    BY <1>8 DEF Proceed, Queue, Acquire, Scan, Compare, Check, Submit, Confirmed, TimeOut, WriteRecord,
                Release, Throw, Crash, chainVars, history
  <2>i. worker' = [worker EXCEPT ![w] = Idle] => worker'[w].pc = "idle" /\ ~worker'[w].mined
    <3>1. worker' = [worker EXCEPT ![w] = Idle] => worker'[w] = Idle
      BY IdleFacts
    <3> QED BY <3>1 DEF Idle
  <2>g. \A pc \in PC : Goto(w, pc) =>
          /\ worker'[w].pc = pc /\ worker'[w].label = worker[w].label
          /\ worker'[w].labels = worker[w].labels /\ worker'[w].rejected = worker[w].rejected
          /\ worker'[w].mined = worker[w].mined
    BY GotoFacts
  <2>h. GiveUp(w) => /\ worker'[w].pc = "release" /\ Put(worker[w].label, "queued")
                     /\ worker'[w].label = worker[w].label
                     /\ worker'[w].labels = worker[w].labels /\ worker'[w].rejected = worker[w].rejected
                     /\ worker'[w].mined = worker[w].mined
    BY <2>g DEF GiveUp, PC
  <2>p. worker[w].pc # "wait" \/ worker[w].mined => \A i \in DOMAIN mempool : mempool[i].by # w
    BY <2>w DEF PendingOf
  <2>r. ASSUME Put(worker[w].label, "queued") \/ record' = record PROVE IncludedWasApproved'
    <3>1. CASE record' = record
      BY <3>1, <2>s, <1>c
    <3>2. CASE Put(worker[w].label, "queued")
      <4>1. \A l \in Label : record'[l] = record[l] \/ record'[l] = "queued"
        BY <3>2, <1>l, PutFacts
      <4> QED BY <4>1, <2>s DEF ApprovalInv, IncludedWasApproved
    <3> QED BY <2>r, <3>1, <3>2
  <2>n. ASSUME mempool' = mempool, \A i \in DOMAIN mempool : mempool[i].by # w,
               ApprovalOf(w)', IncludedWasApproved'
        PROVE  ApprovalInv'
    <3>1. PendingOf(w)'
      BY <2>n DEF PendingOf
    <3> QED BY <1>a, <1>b, <2>o, <2>s, <2>n, <3>1
  <2>1. CASE Queue(w)
    <3>1. mempool' = mempool /\ worker[w].pc = "queue" /\ Put(worker[w].label, "queued")
      BY <2>1 DEF Queue, chainVars
    <3>2. \/ worker'[w].pc = "lock" /\ worker'[w].mined = worker[w].mined
          \/ worker'[w].pc = "idle" /\ ~worker'[w].mined
      BY <2>1, <2>g, <2>i DEF Queue, PC
    <3>3. ApprovalOf(w)'
      BY <3>1, <3>2, <2>w DEF ApprovalOf
    <3> QED BY <2>n, <2>p, <2>r, <3>1, <3>3
  <2>2. CASE Acquire(w)
    <3>1. mempool' = mempool /\ worker[w].pc = "lock" /\ (Put(worker[w].label, "queued") \/ record' = record)
      BY <2>2 DEF Acquire, chainVars
    <3>2. \/ worker'[w].pc = "scan" /\ worker'[w].mined = worker[w].mined
          \/ worker'[w].pc = "idle" /\ ~worker'[w].mined
      BY <2>2, <2>g, <2>i DEF Acquire, PC
    <3>3. ApprovalOf(w)'
      BY <3>1, <3>2, <2>w DEF ApprovalOf
    <3> QED BY <2>n, <2>p, <2>r, <3>1, <3>3
  <2>3. CASE Scan(w)
    <3>1. mempool' = mempool /\ worker[w].pc = "scan"
      BY <2>3 DEF Scan, chainVars
    <3>2. CASE GiveUp(w)
      <4>1. ApprovalOf(w)'
        BY <3>1, <3>2, <2>h, <2>w DEF ApprovalOf
      <4> QED BY <2>n, <2>p, <2>r, <2>h, <3>1, <3>2, <4>1
    <3>3. ASSUME NEW n \in 0 .. deposited, ~(worker[w].label > n \/ n = 0), UNCHANGED record,
                 worker' = [worker EXCEPT ![w].pc = "compare", ![w].labels = (1 .. n) \ listed,
                                          ![w].rejected = (1 .. n) \cap listed]
          PROVE ApprovalInv'
      <4>1. /\ worker'[w].pc = "compare" /\ worker'[w].label = worker[w].label
            /\ worker'[w].labels = (1 .. n) \ listed /\ worker'[w].rejected = (1 .. n) \cap listed
            /\ worker'[w].mined = worker[w].mined
        <5> DEFINE L == (1 .. n) \ listed  R == (1 .. n) \cap listed
        <5>1. worker' = [worker EXCEPT ![w].pc = "compare", ![w].labels = L, ![w].rejected = R]
          BY <3>3
        <5> HIDE DEF L, R
        <5>2. /\ worker'[w].pc = "compare" /\ worker'[w].label = worker[w].label
              /\ worker'[w].labels = L /\ worker'[w].rejected = R
              /\ worker'[w].mined = worker[w].mined
          BY <5>1, <1>w DEF Run
        <5> QED BY <5>2 DEF L, R
      <4>2. worker[w].label \in {0} \cup (1 .. n)
        BY <3>3, <1>l, BoundAssumption DEF Label, TypeOK
      <4>3. worker'[w].label \in {0} \cup worker'[w].labels \cup worker'[w].rejected
        BY <4>1, <4>2
      <4>4. ApprovalOf(w)'
        BY <3>1, <4>1, <4>3, <2>w DEF ApprovalOf
      <4> QED BY <2>n, <2>p, <2>r, <3>1, <3>3, <4>4
    <3> QED BY <2>3, <3>2, <3>3 DEF Scan
  <2>4. CASE Compare(w)
    <3>1. mempool' = mempool /\ worker[w].pc = "compare" /\ record' = record
      BY <2>4 DEF Compare, chainVars
    <3>2. /\ worker'[w].pc \in {"record", "check"}
          /\ worker'[w].pc = "record" => worker[w].labels \in {latest, {}}
          /\ worker'[w].label = worker[w].label
          /\ worker'[w].labels = worker[w].labels /\ worker'[w].rejected = worker[w].rejected
          /\ worker'[w].mined = worker[w].mined
      BY <2>4, <2>g DEF Compare, PC
    <3>3. latest \subseteq approvedOnce
      BY DEF ApprovalInv
    <3>4. ApprovalOf(w)'
      BY <3>1, <3>2, <3>3, <2>s, <2>w DEF ApprovalOf
    <3> QED BY <2>n, <2>p, <2>r, <3>1, <3>4
  <2>5. CASE Check(w)
    <3>1. mempool' = mempool /\ worker[w].pc = "check" /\ (Put(worker[w].label, "queued") \/ record' = record)
      BY <2>5 DEF Check, GiveUp, chainVars
    <3>2. /\ worker'[w].pc \in {"submit", "release"} /\ worker'[w].label = worker[w].label
          /\ worker'[w].labels = worker[w].labels /\ worker'[w].rejected = worker[w].rejected
          /\ worker'[w].mined = worker[w].mined
      BY <2>5, <2>g, <2>h DEF Check, PC
    <3>3. ApprovalOf(w)'
      BY <3>1, <3>2, <2>w DEF ApprovalOf
    <3> QED BY <2>n, <2>p, <2>r, <3>1, <3>3
  <2>6. CASE Submit(w)
    <3>1. worker[w].pc = "submit"
      BY <2>6 DEF Submit
    <3>2. CASE worker[w].labels = {}
      <4>1. mempool' = mempool /\ GiveUp(w)
        BY <2>6, <3>2 DEF Submit
      <4>2. ApprovalOf(w)'
        BY <3>1, <4>1, <2>h, <2>w DEF ApprovalOf
      <4> QED BY <2>n, <2>p, <2>r, <2>h, <3>1, <4>1, <4>2
    <3>3. CASE worker[w].labels # {}
      <4> DEFINE tx == [by |-> w, labels |-> worker[w].labels, rejected |-> worker[w].rejected,
                        leased |-> worker[w].lapsed # "late"]
      <4>1. mempool' = Append(mempool, tx) /\ Goto(w, "wait") /\ record' = record
        BY <2>6, <3>3 DEF Submit
      <4>2. tx.by = w /\ tx.labels = worker[w].labels
        OBVIOUS
      <4> HIDE DEF tx
      <4>3. /\ worker'[w].pc = "wait" /\ worker'[w].label = worker[w].label
            /\ worker'[w].labels = worker[w].labels /\ worker'[w].rejected = worker[w].rejected
            /\ worker'[w].mined = worker[w].mined
        BY <4>1, <2>g DEF PC
      <4>4. /\ DOMAIN mempool = 1 .. Len(mempool) /\ Len(mempool) \in Nat
            /\ DOMAIN mempool' = 1 .. Len(mempool) + 1
            /\ mempool'[Len(mempool) + 1] = tx
            /\ \A i \in DOMAIN mempool : mempool'[i] = mempool[i]
        BY <4>1, AppendFacts
      <4>5. \A i \in DOMAIN mempool' : i \in DOMAIN mempool \/ i = Len(mempool) + 1
        BY <4>4
      <4>6. ApprovalOf(w)'
        BY <3>1, <4>3, <2>w DEF ApprovalOf
      <4>7. PendingOf(w)'
        <5>1. \A i \in DOMAIN mempool' : mempool'[i].by = w => i = Len(mempool) + 1
          BY <3>1, <4>4, <4>5, <2>p
        <5>2. ~worker'[w].mined
          BY <3>1, <4>3, <2>w DEF ApprovalOf
        <5> QED BY <4>2, <4>3, <4>4, <5>1, <5>2 DEF PendingOf
      <4>8. ASSUME NEW v \in Updater, v # w PROVE PendingOf(v)'
        <5>1. PendingOf(v) /\ worker'[v] = worker[v]
          BY <4>8, <2>o DEF ApprovalInv
        <5>2. \A i \in DOMAIN mempool' : mempool'[i].by = v => i \in DOMAIN mempool /\ mempool'[i] = mempool[i]
          BY <4>2, <4>4, <4>5, <4>8
        <5> QED BY <5>1, <5>2 DEF PendingOf
      <4>9. IncludedWasApproved'
        BY <4>1, <2>r
      <4> QED BY <1>a, <2>o, <2>s, <4>6, <4>7, <4>8, <4>9
    <3> QED BY <3>2, <3>3
  <2>7. CASE Confirmed(w)
    <3>1. mempool' = mempool /\ worker[w].pc = "wait" /\ worker[w].mined /\ record' = record
      BY <2>7 DEF Confirmed, chainVars
    <3>2. /\ worker'[w].pc = "record" /\ worker'[w].label = worker[w].label
          /\ worker'[w].labels = worker[w].labels /\ worker'[w].rejected = worker[w].rejected
          /\ worker'[w].mined = worker[w].mined
      BY <2>7, <2>g DEF Confirmed, PC
    <3>3. ApprovalOf(w)'
      BY <3>1, <3>2, <2>s, <2>w DEF ApprovalOf
    <3> QED BY <2>n, <2>p, <2>r, <3>1, <3>3
  <2>8. CASE TimeOut(w)
    <3>1. mempool' = mempool /\ GiveUp(w) /\ \A i \in DOMAIN mempool : mempool[i].by # w
      BY <2>8 DEF TimeOut, chainVars
    <3>2. ApprovalOf(w)'
      BY <3>1, <2>h, <2>w DEF ApprovalOf
    <3> QED BY <2>n, <2>r, <2>h, <3>1, <3>2
  <2>9. CASE WriteRecord(w)
    <3> DEFINE status == IF worker[w].label \in worker[w].rejected THEN "rejected" ELSE "included"
    <3>1. mempool' = mempool /\ worker[w].pc = "record" /\ Put(worker[w].label, status)
      BY <2>9 DEF WriteRecord, chainVars
    <3>2. /\ worker'[w].pc = "release" /\ worker'[w].label = worker[w].label
          /\ worker'[w].labels = worker[w].labels /\ worker'[w].rejected = worker[w].rejected
          /\ worker'[w].mined = worker[w].mined
      BY <2>9, <2>g DEF WriteRecord, PC
    <3>3. ApprovalOf(w)'
      BY <3>1, <3>2, <2>w DEF ApprovalOf
    <3>4. ASSUME NEW l \in Label, record'[l] = "included" PROVE l \in approvedOnce
      <4>1. record'[l] = record[l] \/ (l = worker[w].label /\ record'[l] = status)
        BY <3>1, <1>l, PutFacts
      <4>2. CASE record'[l] = record[l]
        BY <4>2, <3>4 DEF ApprovalInv, IncludedWasApproved
      <4>3. CASE l = worker[w].label /\ record'[l] = status
        <5>1. l \notin worker[w].rejected
          BY <3>4, <4>3
        <5>2. l # 0
          BY BoundAssumption DEF Label
        <5> QED BY <3>1, <4>3, <5>1, <5>2, <2>w DEF ApprovalOf
      <4> QED BY <4>1, <4>2, <4>3
    <3>5. IncludedWasApproved'
      BY <3>4, <2>s DEF IncludedWasApproved
    <3> QED BY <2>n, <2>p, <3>1, <3>3, <3>5
  <2>10. CASE Release(w)
    <3>1. mempool' = mempool /\ worker[w].pc = "release" /\ record' = record
      BY <2>10 DEF Release, chainVars
    <3>2. ApprovalOf(w)'
      BY <2>10, <2>i DEF Release, ApprovalOf
    <3> QED BY <2>n, <2>p, <2>r, <3>1, <3>2
  <2>11. CASE Throw(w) \/ Crash(w)
    <3>1. mempool' = Disowned(w) /\ (Put(worker[w].label, "queued") \/ record' = record)
      BY <2>11 DEF Throw, Crash, GiveUp
    <3>2. \/ worker'[w].pc = "idle" /\ ~worker'[w].mined
          \/ worker'[w].pc = "release" /\ worker'[w].mined = worker[w].mined
      BY <2>11, <2>h, <2>i DEF Throw, Crash
    <3>3. ApprovalOf(w)'
      BY <3>2, <2>w DEF ApprovalOf
    <3>4. /\ DOMAIN mempool' = DOMAIN mempool
          /\ \A i \in DOMAIN mempool :
               /\ mempool[i].by = w => mempool'[i].by = Orphan
               /\ mempool[i].by # w => mempool'[i].by = mempool[i].by
               /\ mempool'[i].labels = mempool[i].labels
      BY <3>1, DisownedFacts
    <3>5. PendingOf(w)'
      BY <3>4 DEF PendingOf
    <3>6. ASSUME NEW v \in Updater, v # w PROVE PendingOf(v)'
      <4>1. PendingOf(v) /\ worker'[v] = worker[v] /\ v # Orphan
        BY <3>6, <2>o, <1>u DEF ApprovalInv
      <4>2. \A i \in DOMAIN mempool' : mempool'[i].by = v => mempool[i].by = v
        BY <3>4, <4>1
      <4> QED BY <3>4, <4>1, <4>2 DEF PendingOf
    <3> QED BY <1>a, <2>o, <2>s, <2>r, <3>1, <3>3, <3>5, <3>6
  <2> QED
    BY <1>8, <2>1, <2>2, <2>3, <2>4, <2>5, <2>6, <2>7, <2>8, <2>9, <2>10, <2>11 DEF Proceed
<1>9. ASSUME NEW w \in Withdrawer, WithdrawStep(w) PROVE ApprovalInv'
  <2>1. w \in Worker /\ w \notin Updater
    BY DEF Worker, Updater
  <2>2. latest' = latest /\ approvedOnce' = approvedOnce /\ record' = record
    BY <1>9 DEF WithdrawStep, WithdrawScan, WithdrawCompare, WithdrawSubmit, WithdrawEnds, chainVars, history
  <2>3. \A v \in Worker : v # w => worker'[v] = worker[v]
    BY <1>9, <2>1, <1>w DEF WithdrawStep, WithdrawScan, WithdrawCompare, WithdrawSubmit, WithdrawEnds, Goto
  <2>4. ASSUME NEW v \in Updater PROVE PendingOf(v)'
    <3>1. v # w /\ worker'[v] = worker[v] /\ PendingOf(v) /\ v # Orphan
      BY <2>1, <2>3, <1>u DEF ApprovalInv
    <3>2. CASE mempool' = mempool
      BY <3>1, <3>2, <1>b
    <3>3. CASE WithdrawSubmit(w)
      <4> DEFINE tx == [by |-> Orphan, labels |-> worker[w].labels, rejected |-> {}, leased |-> FALSE]
      <4>1. mempool' = Append(mempool, tx) /\ tx.by = Orphan
        BY <3>3 DEF WithdrawSubmit
      <4> HIDE DEF tx
      <4>2. \A i \in DOMAIN mempool' : mempool'[i].by = v => i \in DOMAIN mempool /\ mempool'[i] = mempool[i]
        <5>1. /\ DOMAIN mempool = 1 .. Len(mempool) /\ Len(mempool) \in Nat
              /\ DOMAIN mempool' = 1 .. Len(mempool) + 1
              /\ mempool'[Len(mempool) + 1] = tx
              /\ \A i \in DOMAIN mempool : mempool'[i] = mempool[i]
          BY <4>1, AppendFacts
        <5>2. \A i \in DOMAIN mempool' : i \in DOMAIN mempool \/ i = Len(mempool) + 1
          BY <5>1
        <5> QED BY <3>1, <4>1, <5>1, <5>2
      <4> QED BY <3>1, <4>2 DEF PendingOf
    <3> QED BY <1>9, <3>2, <3>3 DEF WithdrawStep, WithdrawScan, WithdrawCompare, WithdrawEnds, chainVars
  <2>5. IncludedWasApproved'
    BY <2>2, <1>c
  <2> QED BY <1>a, <1>u, <2>1, <2>2, <2>3, <2>4, <2>5
<1> QED
  BY <1>1, <1>2, <1>3, <1>4, <1>6, <1>7, <1>8, <1>9 DEF Next, Updater

-----------------------------------------------------------------------------
(* Screenings take effect in the order they were made *)

(* Every step keeps screenings in order; the lease is why no run passes the     *)
(* check while another decides.                                                *)
LEMMA OrderNext == ASSUME TypeOK, LeaseInv, OrderInv, [Next]_vars PROVE OrderInv'
<1> USE WorkerAssumption
<1>u. \A w \in Updater : w \in Worker /\ w # None /\ w # Orphan
  BY DEF Updater, Worker
<1>w. worker \in [Worker -> Run]
  BY DEF TypeOK
<1>o. /\ ScreeningsInOrder /\ AllListed /\ MempoolInOrder
      /\ \A w \in Updater : DecisionOf(w)
  BY DEF OrderInv
(* A step that adds nothing to the mempool and takes no run past the check. *)
<1>a. ASSUME DOMAIN mempool' = DOMAIN mempool,
             \A i \in DOMAIN mempool : /\ mempool'[i].labels = mempool[i].labels
                                       /\ mempool'[i].rejected = mempool[i].rejected
                                       /\ (mempool'[i].leased => mempool[i].leased),
             listed \subseteq listed', screenedOut' = screenedOut,
             \A v \in Updater : /\ worker'[v].rejected \subseteq worker[v].rejected
                                /\ worker'[v].pc = "submit" => worker[v].pc = "submit"
                                /\ Deciding(v)' => Deciding(v) /\ worker'[v].labels = worker[v].labels
      PROVE  OrderInv'
  <2>1. ScreeningsInOrder'
    <3> SUFFICES ASSUME NEW i \in DOMAIN mempool', mempool'[i].leased
                 PROVE  mempool'[i].labels \cap screenedOut' = {}
      BY DEF ScreeningsInOrder
    <3>1. i \in DOMAIN mempool /\ mempool[i].leased /\ mempool'[i].labels = mempool[i].labels
      BY <1>a
    <3> QED BY <1>a, <1>o, <3>1 DEF ScreeningsInOrder
  <2>2. AllListed'
    <3>1. \A i \in DOMAIN mempool' : mempool'[i].rejected \subseteq listed'
      BY <1>a, <1>o DEF AllListed
    <3>2. ASSUME NEW v \in Updater PROVE worker'[v].rejected \subseteq listed'
      <4>1. worker'[v].rejected \subseteq worker[v].rejected /\ listed \subseteq listed'
        BY <1>a DEF Deciding
      <4>2. worker[v].rejected \subseteq listed
        BY <1>o DEF AllListed
      <4> QED BY <4>1, <4>2
    <3> QED BY <1>a, <1>o, <3>1, <3>2 DEF AllListed
  <2>3. MempoolInOrder'
    <3> SUFFICES ASSUME NEW i \in DOMAIN mempool', NEW j \in DOMAIN mempool', i < j, mempool'[j].leased
                 PROVE  mempool'[j].labels \cap mempool'[i].rejected = {}
      BY DEF MempoolInOrder
    <3>1. /\ i \in DOMAIN mempool /\ mempool'[i].rejected = mempool[i].rejected
          /\ j \in DOMAIN mempool /\ mempool'[j].labels = mempool[j].labels /\ mempool[j].leased
      BY <1>a
    <3> QED BY <1>o, <3>1 DEF MempoolInOrder
  <2>4. ASSUME NEW v \in Updater, Deciding(v)' PROVE DecisionOf(v)'
    <3>1. Deciding(v) /\ DecisionOf(v) /\ worker'[v].labels = worker[v].labels /\ screenedOut' = screenedOut
      BY <1>a, <1>o, <2>4 DEF Deciding
    <3>2. \A i \in DOMAIN mempool' : worker'[v].labels \cap mempool'[i].rejected = {}
      BY <1>a, <3>1 DEF DecisionOf
    <3>3. ASSUME NEW u \in Updater, u = v \/ worker'[u].pc = "submit"
          PROVE  worker'[v].labels \cap worker'[u].rejected = {}
      <4>1. u = v \/ worker[u].pc = "submit"
        BY <1>a, <3>3 DEF Deciding
      <4>2. worker'[u].rejected \subseteq worker[u].rejected
        BY <1>a DEF Deciding
      <4> QED BY <3>1, <4>1, <4>2 DEF DecisionOf
    <3> QED BY <3>1, <3>2, <3>3 DEF DecisionOf
  <2>5. \A v \in Updater : DecisionOf(v)'
    BY <2>4 DEF DecisionOf
  <2> QED BY <2>1, <2>2, <2>3, <2>5 DEF OrderInv
<1>1. CASE Deposit \/ (\E l \in Label : List(l)) \/ LapseOrphan \/ UNCHANGED vars
  <2>1. worker' = worker /\ mempool' = mempool /\ screenedOut' = screenedOut /\ listed \subseteq listed'
    BY <1>1 DEF Deposit, List, LapseOrphan, vars, chainVars, history
  <2> QED BY <1>a, <2>1 DEF Deciding
<1>2. CASE Drop
  <2>1. mempool # << >> /\ mempool' = Tail(mempool) /\ worker' = worker /\ screenedOut' = screenedOut
        /\ listed' = listed
    BY <1>2 DEF Drop, history
  <2>2. \A i \in DOMAIN mempool' : i \in Nat /\ i + 1 \in DOMAIN mempool /\ mempool'[i] = mempool[i + 1]
    BY <2>1, TailFacts
  <2>3. ScreeningsInOrder' /\ AllListed'
    BY <1>o, <2>1, <2>2 DEF ScreeningsInOrder, AllListed
  <2>4. MempoolInOrder'
    <3>1. \A i, j \in DOMAIN mempool' : i < j => i + 1 < j + 1
      BY <2>2
    <3> QED BY <1>o, <2>2, <3>1 DEF MempoolInOrder
  <2>5. ASSUME NEW v \in Updater PROVE DecisionOf(v)'
    BY <1>o, <2>1, <2>2 DEF DecisionOf, Deciding
  <2> QED BY <2>3, <2>4, <2>5 DEF OrderInv
<1>3. CASE Mine
  <2> DEFINE tx == Head(mempool)
  <2>1. mempool # << >> /\ mempool' = Tail(mempool) /\ screenedOut' = screenedOut \cup tx.rejected
        /\ listed' = listed
    BY <1>3 DEF Mine
  <2>2. 1 \in DOMAIN mempool /\ mempool[1] = tx
    BY <2>1, TailFacts
  <2>3. \A i \in DOMAIN mempool' : i \in Nat /\ i >= 1 /\ i + 1 \in DOMAIN mempool /\ mempool'[i] = mempool[i + 1]
    BY <2>1, TailFacts
  <2>4. \A v \in Updater : /\ worker'[v].pc = worker[v].pc /\ worker'[v].lapsed = worker[v].lapsed
                           /\ worker'[v].labels = worker[v].labels /\ worker'[v].rejected = worker[v].rejected
    BY <1>3, <1>u, <1>w DEF Mine, Run
  <2> HIDE DEF tx
  <2>5. ScreeningsInOrder'
    <3> SUFFICES ASSUME NEW i \in DOMAIN mempool', mempool'[i].leased
                 PROVE  mempool'[i].labels \cap screenedOut' = {}
      BY DEF ScreeningsInOrder
    <3>1. i + 1 \in DOMAIN mempool /\ mempool'[i] = mempool[i + 1] /\ 1 < i + 1
      BY <2>3
    <3>2. mempool[i + 1].labels \cap screenedOut = {}
      BY <1>o, <3>1 DEF ScreeningsInOrder
    <3>3. mempool[i + 1].labels \cap tx.rejected = {}
      BY <1>o, <2>2, <3>1 DEF MempoolInOrder
    <3> QED BY <2>1, <3>1, <3>2, <3>3
  <2>6. AllListed'
    BY <1>o, <2>1, <2>2, <2>3, <2>4 DEF AllListed
  <2>7. MempoolInOrder'
    <3>1. \A i, j \in DOMAIN mempool' : i < j => i + 1 < j + 1
      BY <2>3
    <3> QED BY <1>o, <2>3, <3>1 DEF MempoolInOrder
  <2>8. ASSUME NEW v \in Updater, Deciding(v)' PROVE DecisionOf(v)'
    <3>1. Deciding(v) /\ DecisionOf(v)
      BY <1>o, <2>4, <2>8 DEF Deciding
    <3>2. worker'[v].labels \cap screenedOut' = {}
      BY <2>1, <2>2, <2>4, <3>1 DEF DecisionOf
    <3>3. \A i \in DOMAIN mempool' : worker'[v].labels \cap mempool'[i].rejected = {}
      BY <2>3, <2>4, <3>1 DEF DecisionOf
    <3> QED BY <2>4, <3>1, <3>2, <3>3 DEF DecisionOf
  <2>9. \A v \in Updater : DecisionOf(v)'
    BY <2>8 DEF DecisionOf
  <2> QED BY <2>5, <2>6, <2>7, <2>9 DEF OrderInv
<1>4. CASE Lapse
  <2>1. \A v \in Worker : /\ worker'[v].pc = worker[v].pc /\ worker'[v].labels = worker[v].labels
                          /\ worker'[v].rejected = worker[v].rejected
                          /\ worker'[v].lapsed = "no" => worker[v].lapsed = "no"
    BY <1>4, <1>w DEF Lapse, Run
  <2>2. mempool' = mempool /\ listed' = listed /\ screenedOut' = screenedOut
    BY <1>4 DEF Lapse, chainVars, history
  <2>3. \A v \in Updater : /\ worker'[v].rejected \subseteq worker[v].rejected
                           /\ worker'[v].pc = "submit" => worker[v].pc = "submit"
                           /\ Deciding(v)' => Deciding(v) /\ worker'[v].labels = worker[v].labels
    BY <2>1, <1>u DEF Deciding
  <2> QED BY <1>a, <2>2, <2>3
(* The same for a run that gives up, or whose set is as before. *)
<1>b. ASSUME NEW w \in Updater, \A v \in Updater : v # w => worker'[v] = worker[v],
             DOMAIN mempool' = DOMAIN mempool,
             \A i \in DOMAIN mempool : /\ mempool'[i].labels = mempool[i].labels
                                       /\ mempool'[i].rejected = mempool[i].rejected
                                       /\ (mempool'[i].leased => mempool[i].leased),
             UNCHANGED <<listed, history>>,
             worker'[w].rejected \subseteq worker[w].rejected, worker'[w].pc # "submit",
             Deciding(w)' => Deciding(w) /\ worker'[w].labels = worker[w].labels
      PROVE  OrderInv'
  <2>1. \A v \in Updater : /\ worker'[v].rejected \subseteq worker[v].rejected
                           /\ worker'[v].pc = "submit" => worker[v].pc = "submit"
                           /\ Deciding(v)' => Deciding(v) /\ worker'[v].labels = worker[v].labels
    BY <1>b DEF Deciding
  <2> QED BY <1>a, <1>b, <2>1 DEF history
(* A transaction is appended. *)
<1>c. ASSUME NEW w \in Worker, \A v \in Updater : v # w => worker'[v] = worker[v],
             w \in Updater => /\ worker'[w].rejected \subseteq worker[w].rejected
                              /\ ~Deciding(w)' /\ worker'[w].pc # "submit",
             NEW tx, mempool' = Append(mempool, tx), UNCHANGED <<listed, history>>,
             tx.rejected = {} \/ (w \in Updater /\ worker[w].pc = "submit" /\ tx.rejected = worker[w].rejected),
             tx.leased => w \in Updater /\ Deciding(w) /\ tx.labels = worker[w].labels
      PROVE  OrderInv'
  <2>1. /\ DOMAIN mempool = 1 .. Len(mempool) /\ Len(mempool) \in Nat
        /\ DOMAIN mempool' = 1 .. Len(mempool) + 1
        /\ mempool'[Len(mempool) + 1] = tx
        /\ \A i \in DOMAIN mempool : mempool'[i] = mempool[i]
    BY <1>c, AppendFacts
  <2>2. \A i \in DOMAIN mempool' : \/ i \in DOMAIN mempool /\ mempool'[i] = mempool[i]
                                   \/ i = Len(mempool) + 1 /\ mempool'[i] = tx
    BY <2>1
  <2>3. listed' = listed /\ screenedOut' = screenedOut
    BY <1>c DEF history
  <2>4. ScreeningsInOrder'
    <3>1. tx.leased => tx.labels \cap screenedOut = {}
      BY <1>c, <1>o DEF DecisionOf
    <3> QED BY <1>o, <2>2, <2>3, <3>1 DEF ScreeningsInOrder
  <2>5. AllListed'
    <3>1. tx.rejected \subseteq listed
      BY <1>c, <1>o DEF AllListed
    <3>2. \A v \in Updater : worker'[v].rejected \subseteq worker[v].rejected
      BY <1>c
    <3> QED BY <1>o, <2>2, <2>3, <3>1, <3>2 DEF AllListed
  <2>6. MempoolInOrder'
    <3> SUFFICES ASSUME NEW i \in DOMAIN mempool', NEW j \in DOMAIN mempool', i < j, mempool'[j].leased
                 PROVE  mempool'[j].labels \cap mempool'[i].rejected = {}
      BY DEF MempoolInOrder
    <3>1. i \in DOMAIN mempool /\ mempool'[i] = mempool[i]
      BY <2>1, <2>2
    <3>2. CASE j \in DOMAIN mempool /\ mempool'[j] = mempool[j]
      BY <1>o, <3>1, <3>2 DEF MempoolInOrder
    <3>3. CASE mempool'[j] = tx
      BY <1>c, <1>o, <3>1, <3>3 DEF DecisionOf
    <3> QED BY <2>2, <3>2, <3>3
  <2>7. ASSUME NEW v \in Updater, Deciding(v)' PROVE DecisionOf(v)'
    <3>1. v # w /\ worker'[v] = worker[v] /\ DecisionOf(v) /\ Deciding(v)
      BY <1>c, <1>o, <2>7 DEF Deciding
    <3>2. worker[v].labels \cap tx.rejected = {}
      BY <1>c, <3>1 DEF DecisionOf
    <3>3. \A u \in Updater : u = v \/ worker'[u].pc = "submit" => worker'[u] = worker[u]
      BY <1>c, <3>1
    <3> QED BY <2>2, <2>3, <3>1, <3>2, <3>3 DEF DecisionOf
  <2>8. \A v \in Updater : DecisionOf(v)'
    BY <2>7 DEF DecisionOf
  <2> QED BY <2>4, <2>5, <2>6, <2>8 DEF OrderInv
<1>5. ASSUME NEW w \in Confirmer, NEW l \in Label, Confirm(w, l) PROVE OrderInv'
  <2>1. w \in Updater /\ UNCHANGED <<listed, history>> /\ mempool' = mempool
    BY <1>5 DEF Confirm, Updater, chainVars
  <2>2. worker'[w].pc = "queue" /\ worker'[w].rejected = {} /\ \A v \in Worker : v # w => worker'[v] = worker[v]
    BY <1>5, <2>1, <1>u, <1>w DEF Confirm, Idle
  <2>3. ~Deciding(w)'
    BY <2>2 DEF Deciding
  <2> QED BY <1>b, <1>u, <2>1, <2>2, <2>3
<1>6. ASSUME NEW w \in Cron, Operate(w) PROVE OrderInv'
  <2>1. w \in Updater /\ UNCHANGED <<listed, history>> /\ mempool' = mempool
    BY <1>6 DEF Operate, Updater, chainVars
  <2>2. worker'[w].pc = "lock" /\ worker'[w].rejected = {} /\ \A v \in Worker : v # w => worker'[v] = worker[v]
    BY <1>6, <2>1, <1>u, <1>w DEF Operate, Idle
  <2>3. ~Deciding(w)'
    BY <2>2 DEF Deciding
  <2> QED BY <1>b, <1>u, <2>1, <2>2, <2>3
<1>7. ASSUME NEW w \in Updater, Proceed(w) \/ Throw(w) \/ Crash(w) PROVE OrderInv'
  <2> w \in Worker
    BY <1>u
  <2> USE DEF At
  <2>o. \A v \in Updater : v # w => worker'[v] = worker[v]
    BY <1>u, <1>7, OthersStay
  <2>s. UNCHANGED <<listed, history>>
    BY <1>7 DEF Proceed, Queue, Acquire, Scan, Compare, Check, Submit, Confirmed, TimeOut, WriteRecord,
                Release, Throw, Crash, chainVars
  <2>i. worker' = [worker EXCEPT ![w] = Idle] => worker'[w].pc = "idle" /\ worker'[w].rejected = {}
    <3>1. worker' = [worker EXCEPT ![w] = Idle] => worker'[w] = Idle
      BY IdleFacts
    <3> QED BY <3>1 DEF Idle
  <2>g. \A pc \in PC : Goto(w, pc) =>
          /\ worker'[w].pc = pc /\ worker'[w].lapsed = worker[w].lapsed
          /\ worker'[w].labels = worker[w].labels /\ worker'[w].rejected = worker[w].rejected
    BY GotoFacts
  <2>h. GiveUp(w) => worker'[w].pc = "release" /\ worker'[w].rejected = worker[w].rejected
    BY <2>g DEF GiveUp, PC
  <2>n. ASSUME mempool' = mempool, worker'[w].rejected \subseteq worker[w].rejected, worker'[w].pc # "submit",
               Deciding(w)' => Deciding(w) /\ worker'[w].labels = worker[w].labels
        PROVE  OrderInv'
    BY <1>b, <2>o, <2>s, <2>n
  <2>1. CASE Queue(w) \/ Acquire(w) \/ Confirmed(w) \/ TimeOut(w) \/ WriteRecord(w) \/ Release(w)
    <3>1. mempool' = mempool
      BY <2>1 DEF Queue, Acquire, Confirmed, TimeOut, WriteRecord, Release, chainVars
    <3>2. worker'[w].rejected \subseteq worker[w].rejected
          /\ worker'[w].pc \in {"lock", "idle", "scan", "record", "release"}
      BY <2>1, <2>g, <2>h, <2>i DEF Queue, Acquire, Confirmed, TimeOut, WriteRecord, Release, PC
    <3> QED BY <2>n, <3>1, <3>2 DEF Deciding
  <2>2. CASE Throw(w) \/ Crash(w)
    <3>1. mempool' = Disowned(w)
      BY <2>2 DEF Throw, Crash
    <3>2. worker'[w].rejected \subseteq worker[w].rejected /\ worker'[w].pc \in {"idle", "release"}
      BY <2>2, <2>h, <2>i DEF Throw, Crash
    <3>3. /\ DOMAIN mempool' = DOMAIN mempool
          /\ \A i \in DOMAIN mempool :
               /\ mempool'[i].labels = mempool[i].labels
               /\ mempool'[i].rejected = mempool[i].rejected
               /\ (mempool'[i].leased => mempool[i].leased)
      BY <3>1, DisownedFacts
    <3>4. ~Deciding(w)' /\ worker'[w].pc # "submit"
      BY <3>2 DEF Deciding
    <3> QED BY <1>b, <2>o, <2>s, <3>2, <3>3, <3>4
  <2>3. CASE Scan(w)
    <3>1. mempool' = mempool
      BY <2>3 DEF Scan, chainVars
    <3>2. CASE GiveUp(w)
      BY <2>n, <2>h, <3>1, <3>2 DEF Deciding
    <3>3. ASSUME NEW n \in 0 .. deposited,
                 worker' = [worker EXCEPT ![w].pc = "compare", ![w].labels = (1 .. n) \ listed,
                                          ![w].rejected = (1 .. n) \cap listed]
          PROVE OrderInv'
      <4> DEFINE L == (1 .. n) \ listed  R == (1 .. n) \cap listed
      <4>1. worker' = [worker EXCEPT ![w].pc = "compare", ![w].labels = L, ![w].rejected = R]
        BY <3>3
      <4>2. L \cap listed = {} /\ R \subseteq listed
        OBVIOUS
      <4> HIDE DEF L, R
      <4>3. worker'[w].pc = "compare" /\ worker'[w].labels = L /\ worker'[w].rejected = R
        BY <4>1, <1>w DEF Run
      <4>4. listed' = listed /\ screenedOut' = screenedOut
        BY <2>s DEF history
      <4>5. AllListed'
        BY <1>o, <2>o, <3>1, <4>2, <4>3, <4>4 DEF AllListed
      <4>6. DecisionOf(w)'
        BY <4>2, <4>3, <4>4, <4>5 DEF AllListed, DecisionOf
      <4>7. \A v \in Updater : v # w => DecisionOf(v)'
        BY <1>o, <2>o, <3>1, <4>3, <4>4 DEF DecisionOf, Deciding
      <4>8. ScreeningsInOrder' /\ MempoolInOrder'
        BY <1>o, <3>1, <4>4 DEF ScreeningsInOrder, MempoolInOrder
      <4> QED BY <4>5, <4>6, <4>7, <4>8 DEF OrderInv
    <3> QED BY <2>3, <3>2, <3>3 DEF Scan
  <2>4. CASE Compare(w)
    <3>1. mempool' = mempool /\ worker[w].pc = "compare"
      BY <2>4 DEF Compare, chainVars
    <3>2. /\ worker'[w].pc \in {"record", "check"} /\ worker'[w].lapsed = worker[w].lapsed
          /\ worker'[w].labels = worker[w].labels /\ worker'[w].rejected = worker[w].rejected
      BY <2>4, <2>g DEF Compare, PC
    <3> QED BY <2>n, <3>1, <3>2 DEF Deciding
  <2>5. CASE Check(w)
    <3>1. mempool' = mempool /\ worker[w].pc = "check"
      BY <2>5 DEF Check, chainVars
    <3>2. CASE lock # w
      <4>1. GiveUp(w)
        BY <2>5, <3>2 DEF Check
      <4> QED BY <2>n, <2>h, <3>1, <4>1 DEF Deciding
    <3>3. CASE lock = w
      <4>1. /\ worker'[w].pc = "submit" /\ worker'[w].lapsed = worker[w].lapsed
            /\ worker'[w].labels = worker[w].labels /\ worker'[w].rejected = worker[w].rejected
        BY <2>5, <2>g, <3>3 DEF Check, PC
      <4>2. listed' = listed /\ screenedOut' = screenedOut
        BY <2>s DEF history
      <4>3. ASSUME NEW v \in Updater, v # w PROVE ~Deciding(v)'
        <5>1. worker'[v] = worker[v] /\ LeaseOf(v)
          BY <2>o, <4>3 DEF LeaseInv
        <5> QED BY <3>3, <4>3, <5>1 DEF LeaseOf, Held, Deciding
      <4>4. DecisionOf(w)'
        <5>1. Deciding(w)' => Deciding(w)
          BY <3>1, <4>1 DEF Deciding
        <5>2. DecisionOf(w)
          BY <1>o
        <5> QED BY <2>o, <3>1, <4>1, <4>2, <5>1, <5>2 DEF DecisionOf
      <4>5. \A v \in Updater : DecisionOf(v)'
        BY <4>3, <4>4 DEF DecisionOf
      <4>6. AllListed'
        BY <1>o, <2>o, <3>1, <4>1, <4>2 DEF AllListed
      <4>7. ScreeningsInOrder' /\ MempoolInOrder'
        BY <1>o, <3>1, <4>2 DEF ScreeningsInOrder, MempoolInOrder
      <4> QED BY <4>5, <4>6, <4>7 DEF OrderInv
    <3> QED BY <3>2, <3>3
  <2>6. CASE Submit(w)
    <3>1. worker[w].pc = "submit"
      BY <2>6 DEF Submit
    <3>2. CASE worker[w].labels = {}
      <4>1. mempool' = mempool /\ GiveUp(w)
        BY <2>6, <3>2 DEF Submit
      <4> QED BY <2>n, <2>h, <4>1 DEF Deciding
    <3>3. CASE worker[w].labels # {}
      <4>1. mempool' = Append(mempool, [by |-> w, labels |-> worker[w].labels, rejected |-> worker[w].rejected,
                                        leased |-> worker[w].lapsed # "late"])
            /\ Goto(w, "wait")
        BY <2>6, <3>3 DEF Submit
      <4>2. PICK tx : /\ mempool' = Append(mempool, tx)
                      /\ tx.labels = worker[w].labels /\ tx.rejected = worker[w].rejected
                      /\ tx.leased => worker[w].lapsed # "late"
        <5> DEFINE tx == [by |-> w, labels |-> worker[w].labels, rejected |-> worker[w].rejected,
                          leased |-> worker[w].lapsed # "late"]
        <5>1. /\ mempool' = Append(mempool, tx)
              /\ tx.labels = worker[w].labels /\ tx.rejected = worker[w].rejected
              /\ tx.leased => worker[w].lapsed # "late"
          BY <4>1
        <5> HIDE DEF tx
        <5> QED BY <5>1
      <4>3. worker'[w].pc = "wait" /\ worker'[w].rejected = worker[w].rejected
        BY <4>1, <2>g DEF PC
      <4>4. ~Deciding(w)'
        BY <4>3 DEF Deciding
      <4>5. tx.leased => Deciding(w)
        <5>1. LeaseOf(w) /\ worker[w].lapsed \in {"no", "early", "late"}
          BY <1>w DEF LeaseInv, Run
        <5> QED BY <3>1, <4>2, <5>1 DEF LeaseOf, Deciding
      <4> QED BY <1>c, <2>o, <2>s, <3>1, <4>2, <4>3, <4>4, <4>5
    <3> QED BY <3>2, <3>3
  <2> QED
    BY <1>7, <2>1, <2>2, <2>3, <2>4, <2>5, <2>6 DEF Proceed
<1>8. ASSUME NEW w \in Withdrawer, WithdrawStep(w) PROVE OrderInv'
  <2>1. w \in Worker /\ w \notin Updater
    BY DEF Worker, Updater
  <2>2. UNCHANGED <<listed, history>>
    BY <1>8 DEF WithdrawStep, WithdrawScan, WithdrawCompare, WithdrawSubmit, WithdrawEnds, chainVars
  <2>3. \A v \in Updater : worker'[v] = worker[v]
    <3>1. \A v \in Worker : v # w => worker'[v] = worker[v]
      BY <1>8, <2>1, <1>w DEF WithdrawStep, WithdrawScan, WithdrawCompare, WithdrawSubmit, WithdrawEnds, Goto
    <3> QED BY <2>1, <3>1, <1>u
  <2>4. CASE mempool' = mempool
    <3>1. \A v \in Updater : Deciding(v)' => Deciding(v)
      BY <2>3 DEF Deciding
    <3> QED BY <1>a, <2>2, <2>3, <2>4, <3>1 DEF history
  <2>5. CASE WithdrawSubmit(w)
    <3>1. mempool' = Append(mempool, [by |-> Orphan, labels |-> worker[w].labels, rejected |-> {}, leased |-> FALSE])
      BY <2>5 DEF WithdrawSubmit
    <3>2. PICK tx : mempool' = Append(mempool, tx) /\ tx.rejected = {} /\ ~tx.leased
      BY <3>1
    <3> QED BY <1>c, <2>1, <2>2, <2>3, <3>2
  <2> QED BY <1>8, <2>4, <2>5 DEF WithdrawStep, WithdrawScan, WithdrawCompare, WithdrawEnds, chainVars
<1> QED
  BY <1>1, <1>2, <1>3, <1>4, <1>5, <1>6, <1>7, <1>8 DEF Next, Updater

-----------------------------------------------------------------------------
(* Theorems *)

IInv == TypeOK /\ LeaseInv /\ ApprovalInv /\ OrderInv

(* The inductive invariant: types, the lease, the approvals, the order. *)
THEOREM Invariance == Spec => []IInv
<1>1. Init => IInv
  <2> SUFFICES ASSUME Init PROVE IInv
    OBVIOUS
  <2>1. Idle \in Run
    BY DEF Idle, Run, PC
  <2>2. TypeOK
    BY <2>1, BoundAssumption DEF Init, TypeOK, Label, Status
  <2>3. DOMAIN mempool = {} /\ latest = {} /\ screenedOut = {} /\ lock = None
        /\ \A l \in Label : record[l] = "none"
    BY DEF Init
  <2>4. ASSUME NEW w \in Updater
        PROVE  /\ worker[w].pc = "idle" /\ worker[w].lapsed = "no" /\ worker[w].rejected = {}
               /\ ~worker[w].mined /\ w # None
    <3>1. w \in Worker /\ w # None
      BY WorkerAssumption DEF Updater, Worker
    <3>2. worker[w] = Idle
      BY <3>1 DEF Init
    <3> QED BY <3>1, <3>2 DEF Idle
  <2>5. LeaseInv
    BY <2>3, <2>4 DEF LeaseInv, LeaseOf, Held
  <2>6. ApprovalInv
    BY <2>3, <2>4 DEF ApprovalInv, ApprovalOf, PendingOf, IncludedWasApproved
  <2>7. OrderInv
    BY <2>3, <2>4 DEF OrderInv, ScreeningsInOrder, AllListed, MempoolInOrder, DecisionOf, Deciding
  <2> QED BY <2>2, <2>5, <2>6, <2>7 DEF IInv
<1>2. IInv /\ [Next]_vars => IInv'
  BY TypeNext, LeaseNext, ApprovalNext, OrderNext DEF IInv
<1> QED BY <1>1, <1>2, PTL DEF Spec

(* The variables stay within their types. *)
THEOREM TypeSafety == Spec => []TypeOK
<1>1. IInv => TypeOK
  BY DEF IInv
<1> QED BY <1>1, Invariance, PTL

(* A run whose lease has not lapsed is alone with it from its scan to its      *)
(* release (refreshAspRoot).                                                   *)
THEOREM LeaseSafety == Spec => []LeaseIsExclusive
<1>1. IInv => LeaseIsExclusive
  BY DEF IInv, LeaseInv, LeaseOf, LeaseIsExclusive, Held, Updater
<1> QED BY <1>1, Invariance, PTL

(* A deposit recorded as included has been under the latest root, whatever     *)
(* became of the lease of the run that says so (confirm POST).                 *)
THEOREM Inclusion == Spec => []IncludedWasApproved
<1>1. IInv => IncludedWasApproved
  BY DEF IInv, ApprovalInv
<1> QED BY <1>1, Invariance, PTL

(* Screenings take effect in the order they were made, if the lease outlives   *)
(* the step from the check to the submission (maySubmitUpdate).                *)
THEOREM Ordering == Spec => []ScreeningsInOrder
<1>1. IInv => ScreeningsInOrder
  BY DEF IInv, OrderInv
<1> QED BY <1>1, Invariance, PTL

(* A put changes no terminal record. *)
LEMMA PutFinal ==
  ASSUME TypeOK, NEW l \in Label \cup {0}, NEW s, Put(l, s)
  PROVE  \A k \in Label : record[k] \in {"included", "rejected"} => record'[k] = record[k]
<1>1. record \in [Label -> Status]
  BY DEF TypeOK
<1> QED BY <1>1 DEF Put

(* "included" and "rejected" are final, also against a run that writes late.   *)
THEOREM Finality == Spec => TerminalIsFinal
<1> DEFINE Final == \A l \in Label : record[l] \in {"included", "rejected"} => record'[l] = record[l]
<1>1. TypeOK /\ [Next]_vars => [Final]_vars
  <2> SUFFICES ASSUME TypeOK, Next PROVE Final
    BY DEF vars
  <2>1. \A w \in Worker : worker[w].label \in Label \cup {0}
    BY DEF TypeOK, Run
  <2>2. CASE record' = record
    BY <2>2
  <2>3. ASSUME NEW w \in Updater, Proceed(w) \/ Throw(w) \/ Crash(w) PROVE Final
    <3>1. \/ record' = record
          \/ \E s : Put(worker[w].label, s)
      BY <2>3 DEF Proceed, Queue, Acquire, Scan, Compare, Check, Submit, Confirmed, TimeOut, WriteRecord,
                  Release, Throw, Crash, GiveUp
    <3>2. worker[w].label \in Label \cup {0}
      BY <2>1 DEF Updater, Worker
    <3> QED BY <2>2, <3>1, <3>2, PutFinal
  <2>4. \/ record' = record
        \/ \E w \in Updater : Proceed(w) \/ Throw(w) \/ Crash(w)
    BY DEF Next, Updater, Deposit, Mine, Drop, LapseOrphan, Lapse, List, Confirm, Operate, WithdrawStep,
           WithdrawScan, WithdrawCompare, WithdrawSubmit, WithdrawEnds
  <2> QED BY <2>2, <2>3, <2>4
<1> QED BY <1>1, TypeSafety, PTL DEF Spec, TerminalIsFinal
=============================================================================
