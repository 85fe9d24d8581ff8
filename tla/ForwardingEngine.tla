--------------------------- MODULE ForwardingEngine ---------------------------
(***************************************************************************)
(* The forwarding rail: the daemon scripts/forwarding-engine.ts, its scan, *)
(* screening (src/lib/forwarding-watcher.ts) and batch                     *)
(* (src/lib/forwarding-engine.ts), its state file, the registry of watched *)
(* addresses and the chain.                                                *)
(*                                                                         *)
(* A block holds one inbound transfer, which is named by its block.  The   *)
(* precommitment registered for an address is its slot: re-registering     *)
(* takes the next.  The two seams of the core have these implementations:  *)
(*   authority  "dryRun" logs and succeeds; "disarmed" is what --live does *)
(*              now, makeAuthority throws; "sweep" deposits in one         *)
(*              transaction (createB1DepositAuthority);                    *)
(*   source     "public" is what loadRegistry fetches, the view of GET     *)
(*              /api/forwarding/register without precommitments;           *)
(*              "registry" is the record of the registry itself.           *)
(***************************************************************************)
EXTENDS Naturals, Sequences, FiniteSets

CONSTANTS
  Address,      \* receiving addresses
  Payer,
  Amount,       \* amounts of a transfer, a set of naturals
  MinAmount,    \* the dust floor
  MaxSpend,     \* the budget of one run of the daemon
  Lookback,     \* blocks a first scan goes back, 100 in the code
  Wirings,      \* the authorities and sources the daemon may be given, as pairs
  MaxBlocks,    \* bound: length of the chain
  MaxSlots,     \* bound: registrations of an address
  MaxStarts,    \* bound: starts of the daemon
  MaxSent       \* bound: deposits at once that may still be mined

ASSUME AmountAssumption ==
  /\ Amount \subseteq Nat /\ MinAmount \in Nat /\ MaxSpend \in Nat
  /\ Lookback \in Nat
  /\ MaxBlocks \in Nat /\ MaxSlots \in Nat /\ MaxStarts \in Nat /\ MaxSent \in Nat
ASSUME WiringAssumption ==
  Wirings \subseteq {"dryRun", "disarmed", "sweep"} \X {"public", "registry"}

VARIABLES
  authority, source,
  chain,      \* the inbound transfers, by block
  notes,      \* the deposits in the pool
  sent,       \* deposits whose call threw and that may still be mined
  slot,       \* the registered slot of an address, 0 before it is registered
  listed,     \* the payers on the sanctions list
  file,       \* the state file
  daemon,     \* the memory of the running daemon
  starts,
  due,        \* history: transfers mined while their address was watched
  screened,       \* history: transfers handed to the screening
  tainted,    \* history: transfers it quarantined
  origin      \* history: the block the last scan without a cursor began at

seams == <<authority, source>>
history == <<due, screened, tainted, origin>>
engineVars == <<seams, chain, notes, sent, slot, listed, file, daemon, starts, history>>

NoCursor == 0   \* lastScannedBlock is null; blocks are numbered from 1

Inflow == [to : Address, payer : Payer, amount : Amount]

Saved == [processed : SUBSET (1 .. MaxBlocks), used : SUBSET (Address \X (1 .. MaxSlots)),
          cursor : 0 .. MaxBlocks + 1]
NoFile == [processed |-> {}, used |-> {}, cursor |-> NoCursor]

Daemon == [pc : {"off", "idle", "scan", "screen", "deposit", "save"},
           processed : SUBSET (1 .. MaxBlocks), used : SUBSET (Address \X (1 .. MaxSlots)),
           cursor : 0 .. MaxBlocks + 1, spent : 0 .. MaxSpend,
           view : [Address -> 0 .. MaxSlots], batch : SUBSET (1 .. MaxBlocks)]
Off == [pc |-> "off", processed |-> {}, used |-> {}, cursor |-> NoCursor, spent |-> 0,
        view |-> [a \in Address |-> 0], batch |-> {}]

EngineTypeOK ==
  /\ <<authority, source>> \in Wirings
  /\ chain \in Seq(Inflow) /\ Len(chain) <= MaxBlocks
  /\ notes \cup sent \subseteq [of : 1 .. MaxBlocks, at : Address \X (1 .. MaxSlots)]
  /\ slot \in [Address -> 0 .. MaxSlots]
  /\ listed \subseteq Payer
  /\ file \in Saved
  /\ daemon \in Daemon /\ daemon.batch \subseteq DOMAIN chain
  /\ starts \in 0 .. MaxStarts
  /\ due \cup screened \cup tainted \subseteq DOMAIN chain
  /\ origin \in 0 .. MaxBlocks

EngineInit ==
  /\ \E w \in Wirings : authority = w[1] /\ source = w[2]
  /\ chain = << >> /\ notes = {} /\ sent = {}
  /\ slot = [a \in Address |-> 0]
  /\ listed = {}
  /\ file = NoFile /\ daemon = Off
  /\ starts = 0
  /\ due = {} /\ screened = {} /\ tainted = {} /\ origin = 0

-----------------------------------------------------------------------------
(* The world *)

Watched == {a \in Address : daemon.view[a] # 0}

Transfer(a, payer, amount) ==
  /\ Len(chain) < MaxBlocks
  /\ chain' = Append(chain, [to |-> a, payer |-> payer, amount |-> amount])
  /\ due' = IF a \in Watched THEN due \cup {Len(chain) + 1} ELSE due
  /\ UNCHANGED <<seams, notes, sent, slot, listed, file, daemon, starts, screened, tainted, origin>>

Register(a) ==
  /\ slot[a] < MaxSlots
  /\ slot' = [slot EXCEPT ![a] = @ + 1]
  /\ UNCHANGED <<seams, chain, notes, sent, listed, file, daemon, starts, history>>

List(payer) ==
  /\ payer \notin listed
  /\ listed' = listed \cup {payer}
  /\ UNCHANGED <<seams, chain, notes, sent, slot, file, daemon, starts, history>>

-----------------------------------------------------------------------------
(* The daemon *)

(* main: the state is restored, the budget is new. *)
StartDaemon ==
  /\ daemon.pc = "off" /\ starts < MaxStarts
  /\ starts' = starts + 1
  /\ daemon' = [Off EXCEPT !.pc = "idle", !.processed = file.processed, !.used = file.used,
                           !.cursor = file.cursor]
  /\ UNCHANGED <<seams, chain, notes, sent, slot, listed, file, history>>

(* The process ends, between two cycles or in the middle of one. *)
Crash ==
  /\ daemon.pc # "off"
  /\ daemon' = Off
  /\ UNCHANGED <<seams, chain, notes, sent, slot, listed, file, starts, history>>

(* loadRegistry; a failure ends the cycle. *)
LoadRegistry ==
  /\ daemon.pc = "idle"
  /\ \/ daemon' = [daemon EXCEPT !.pc = "scan", !.view = slot]
     \/ daemon' = [daemon EXCEPT !.pc = "save"]
  /\ UNCHANGED <<seams, chain, notes, sent, slot, listed, file, starts, history>>

ScanFrom(latest) ==
  IF daemon.cursor # NoCursor THEN daemon.cursor
  ELSE IF latest > Lookback THEN latest - Lookback ELSE 1

(* Fault: a chunk that fails is passed over. *)
ScannedPast(first, latest) ==
  IF first > latest THEN {[to |-> latest, blocks |-> {}]}
  ELSE {[to |-> latest, blocks |-> first .. last] : last \in (first - 1) .. latest}

(* scanInbound: the node may lag, and the chunks after "to" failed. *)
Scanned(first, latest) ==
  IF first > latest THEN {[to |-> latest, blocks |-> {}]}
  ELSE {[to |-> last, blocks |-> first .. last] : last \in (first - 1) .. latest}

Inbound(blocks) == {i \in blocks : chain[i].to \in Watched}

(* The cursor moves on before anything is done with what was found. *)
Scan ==
  /\ daemon.pc = "scan" /\ Watched # {}
  /\ \E latest \in DOMAIN chain : \E scan \in Scanned(ScanFrom(latest), latest) :
       /\ daemon' = [daemon EXCEPT !.pc = "screen", !.cursor = scan.to + 1,
                                   !.batch = Inbound(scan.blocks)]
       /\ origin' = IF daemon.cursor = NoCursor THEN ScanFrom(latest) ELSE origin
       /\ screened' = screened \cup Inbound(scan.blocks)
  /\ UNCHANGED <<seams, chain, notes, sent, slot, listed, file, starts, due, tainted>>

ScanNothing ==
  /\ daemon.pc = "scan" /\ Watched = {}
  /\ daemon' = [daemon EXCEPT !.pc = "screen", !.batch = {}]
  /\ UNCHANGED <<seams, chain, notes, sent, slot, listed, file, starts, history>>

(* The head of the chain cannot be read. *)
ScanFails ==
  /\ daemon.pc = "scan" /\ Watched # {}
  /\ daemon' = [daemon EXCEPT !.pc = "save"]
  /\ UNCHANGED <<seams, chain, notes, sent, slot, listed, file, starts, history>>

(* Fault: the quarantined transfers stay in the batch. *)
ScreenReportsOnly ==
  LET fresh == daemon.batch \ daemon.processed
  IN /\ daemon.pc = "screen"
     /\ daemon' = IF authority = "disarmed"
                  THEN [daemon EXCEPT !.pc = "save", !.batch = {}]
                  ELSE [daemon EXCEPT !.pc = "deposit", !.batch = fresh]
     /\ tainted' = tainted \cup {i \in fresh : chain[i].payer \in listed}
     /\ UNCHANGED <<seams, chain, notes, sent, slot, listed, file, starts, due, screened, origin>>

(* screenInbound, then makeAuthority. *)
Screen ==
  LET fresh == daemon.batch \ daemon.processed
      clean == {i \in fresh : chain[i].payer \notin listed}
  IN /\ daemon.pc = "screen"
     /\ daemon' = IF authority = "disarmed"
                  THEN [daemon EXCEPT !.pc = "save", !.batch = {}]
                  ELSE [daemon EXCEPT !.pc = "deposit", !.batch = clean]
     /\ tainted' = tainted \cup (fresh \ clean)
     /\ UNCHANGED <<seams, chain, notes, sent, slot, listed, file, starts, due, screened, origin>>

(* The sanctions provider throws: the batch is gone with the cycle. *)
ScreenFails ==
  /\ daemon.pc = "screen"
  /\ daemon' = [daemon EXCEPT !.pc = "save", !.batch = {}]
  /\ UNCHANGED <<seams, chain, notes, sent, slot, listed, file, starts, history>>

-----------------------------------------------------------------------------
(* processPendingDeposits *)

(* The batch is worked through in the order of the chain. *)
HeadOf(i) == daemon.pc = "deposit" /\ i \in daemon.batch /\ \A j \in daemon.batch : i <= j

Precommitment(i) == <<chain[i].to, daemon.view[chain[i].to]>>

Skipped(i) ==
  \/ i \in daemon.processed
  \/ chain[i].amount < MinAmount
  \/ daemon.spent + chain[i].amount > MaxSpend
  \/ source = "public"
  \/ Precommitment(i) \in daemon.used

Skip(i) ==
  /\ HeadOf(i) /\ Skipped(i)
  /\ daemon' = [daemon EXCEPT !.batch = @ \ {i}]
  /\ UNCHANGED <<seams, chain, notes, sent, slot, listed, file, starts, history>>

Note(i) == [of |-> i, at |-> Precommitment(i)]

(* The pool takes a precommitment once. *)
Taken(precommitment) == \E n \in notes : n.at = precommitment

(* The deposit is mined, and its receipt read; a dry run asks the pool for nothing. *)
Succeed(i) ==
  /\ HeadOf(i) /\ ~Skipped(i)
  /\ \/ authority = "sweep" /\ ~Taken(Precommitment(i)) /\ notes' = notes \cup {Note(i)}
     \/ authority = "dryRun" /\ UNCHANGED notes
  /\ daemon' = [daemon EXCEPT !.batch = @ \ {i}, !.processed = @ \cup {i},
                              !.used = @ \cup {Precommitment(i)}, !.spent = @ + chain[i].amount]
  /\ UNCHANGED <<seams, chain, sent, slot, listed, file, starts, history>>

(* Fault: a failed deposit is marked processed as well. *)
FailMarked(i) ==
  /\ HeadOf(i) /\ ~Skipped(i) /\ authority = "sweep"
  /\ UNCHANGED sent
  /\ daemon' = [daemon EXCEPT !.batch = @ \ {i}, !.processed = @ \cup {i}]
  /\ UNCHANGED <<seams, chain, notes, slot, listed, file, starts, history>>

(* The authority throws, before or after the deposit was sent: the wait for  *)
(* the receipt may end long before the transaction is mined.                 *)
FailDeposit(i) ==
  /\ HeadOf(i) /\ ~Skipped(i) /\ authority = "sweep"
  /\ \/ UNCHANGED sent
     \/ Cardinality(sent) < MaxSent /\ sent' = sent \cup {Note(i)}
  /\ daemon' = [daemon EXCEPT !.batch = @ \ {i}]
  /\ UNCHANGED <<seams, chain, notes, slot, listed, file, starts, history>>

(* A deposit nobody waits for any more is mined, or reverts; it may also never be. *)
Mined(n) ==
  /\ notes' = IF Taken(n.at) THEN notes ELSE notes \cup {n}
  /\ sent' = sent \ {n}
  /\ UNCHANGED <<seams, chain, slot, listed, file, daemon, starts, history>>

BatchDone ==
  /\ daemon.pc = "deposit" /\ daemon.batch = {}
  /\ daemon' = [daemon EXCEPT !.pc = "save"]
  /\ UNCHANGED <<seams, chain, notes, sent, slot, listed, file, starts, history>>

(* savePersistedState: temp file and rename; a failure is logged. *)
Save ==
  /\ daemon.pc = "save"
  /\ daemon' = [daemon EXCEPT !.pc = "idle"]
  /\ \/ file' = [processed |-> daemon.processed, used |-> daemon.used, cursor |-> daemon.cursor]
     \/ UNCHANGED file
  /\ UNCHANGED <<seams, chain, notes, sent, slot, listed, starts, history>>

-----------------------------------------------------------------------------
EngineNext ==
  \/ \E a \in Address, payer \in Payer, amount \in Amount : Transfer(a, payer, amount)
  \/ \E a \in Address : Register(a)
  \/ \E payer \in Payer : List(payer)
  \/ StartDaemon \/ Crash \/ LoadRegistry \/ Scan \/ ScanNothing \/ ScanFails
  \/ Screen \/ ScreenFails \/ BatchDone \/ Save
  \/ \E i \in DOMAIN chain : Skip(i) \/ Succeed(i) \/ FailDeposit(i)
  \/ \E n \in sent : Mined(n)

EngineSpec == EngineInit /\ [][EngineNext]_engineVars

-----------------------------------------------------------------------------
(* Properties *)

(* Neither cursor passes a block that was not really scanned, whatever chunk   *)
(* failed and whenever the daemon died: a transfer to an address that was      *)
(* being watched is seen once a cursor is past it (scanInbound, AUDIT MEDIUM   *)
(* #7).                                                                        *)
ScanMissesNothing ==
  \A i \in due : \A c \in {daemon.cursor, file.cursor} :
    origin <= i /\ i < c => i \in screened

(* The memory and the file call a transfer processed only when the pool holds  *)
(* its note, and know the precommitment it took, also after a crash, a failed  *)
(* save and a rescan (processPendingDeposits).  A dry run is exempt: it marks  *)
(* what it did not deposit.                                                    *)
ProcessedIsDeposited ==
  authority # "dryRun" =>
    \A i \in daemon.processed \cup file.processed : \E n \in notes :
      /\ n.of = i
      /\ i \in daemon.processed => n.at \in daemon.used
      /\ i \in file.processed => n.at \in file.used

(* No deposit of a transfer is sent once it was quarantined, from whatever     *)
(* cursor or restart it is met again (screenInbound).  One that was sent while *)
(* its payer was not yet listed may still be mined.                            *)
QuarantineHolds ==
  [][\A n \in (notes' \cup sent') \ (notes \cup sent) : n.of \notin tainted]_engineVars

(* A transfer the daemon has seen and not dealt with is still ahead: in the    *)
(* batch, past the cursor, processed, or rightly left alone because of its     *)
(* payer or its amount ("no dropped inbounds").                                *)
NothingDropped ==
  \A i \in screened :
    \/ daemon.pc = "off"
    \/ i >= daemon.cursor
    \/ i \in daemon.batch \cup daemon.processed \cup tainted
    \/ chain[i].amount < MinAmount
=============================================================================
