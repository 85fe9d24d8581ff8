----------------------------- MODULE DepositVault -----------------------------
(***************************************************************************)
(* The encrypted deposit vault of one wallet: the tabs that hold its notes *)
(* (src/lib/deposit-vault.ts), the localStorage of the browsers they run   *)
(* in, and the route /api/vault that keeps one versioned record.           *)
(*                                                                         *)
(* A list of deposits is the set of notes it holds and the subset marked   *)
(* spent; the ciphertext is its plaintext, since only the wallet's tabs    *)
(* have the key.  Every persist() of a tab is a "put": a request the route *)
(* checks and writes in two steps, which outlives the tab that sent it.    *)
(* Nothing serialises the puts in the route, the saves of a tab or the     *)
(* tabs of a browser.  "raced" records what comes of that: each kind names *)
(* a step that took something away, and the properties say what holds      *)
(* until then.                                                             *)
(***************************************************************************)
EXTENDS Naturals, FiniteSets

CONSTANTS
  Note,        \* the notes the user may come to own
  Nothing,     \* no note, no seed
  Seed,        \* the mnemonics the tabs may generate
  Browser,
  Tab,
  BrowserOf,   \* the browser a tab runs in
  AppTab,      \* the tabs that show app/app/page.tsx, the others DepositWithdraw.tsx
  Put,         \* bound: persists under way at once
  MaxVersion,  \* bound: the version of the record
  MaxFaults    \* bound: failed calls, closed tabs, server restarts

ASSUME NothingAssumption == Nothing \notin Note \cup Seed \cup Tab
ASSUME BrowserAssumption == BrowserOf \in [Tab -> Browser]
ASSUME AppTabAssumption == AppTab \subseteq Tab
ASSUME BoundsAssumption == MaxVersion \in Nat /\ MaxFaults \in Nat

VARIABLES
  durable,   \* the backend is "upstash", not "memory"
  vault,     \* the stored record; version 0 when there is none
  local,     \* the deposits in localStorage, by browser
  tab,       \* the memory of the tabs
  puts,      \* the persists under way
  saved,     \* history: the notes saveVaultDeposits was given
  made,      \* history: the seeds generated
  handed,    \* history: the seeds ensureNoteSeed returned
  raced,     \* history: the kinds of race that took something away
  faults     \* faults so far

vars == <<durable, vault, local, tab, puts, saved, made, handed, raced, faults>>

Deposits == [held : SUBSET Note, spent : SUBSET Note]
NoDeposits == [held |-> {}, spent |-> {}]

(* mergeDeposits: the union, in which a spent mark wins. *)
Merge(a, b) == [held |-> a.held \cup b.held, spent |-> a.spent \cup b.spent]

Covers(a, b) == b.held \subseteq a.held /\ b.spent \subseteq a.spent

(* The kinds of race:                                                          *)
(*   "put"      a put is written although the record has moved on since its    *)
(*              version was checked;                                           *)
(*   "list"     a withdrawal saves the list it read before it was awaited,     *)
(*              which has grown since;                                         *)
(*   "browser"  a tab writes localStorage over what another tab left there;    *)
(*   "clear"    a confirmed put clears from localStorage what it did not hold. *)
Races == {"put", "list", "browser", "clear"}

(* Replacing the deposits "old" by "new" is a race if something is missing. *)
Lost(old, new, kind) == IF Covers(new, old) THEN {} ELSE {kind}

Payload == [version : Nat, deposits : Deposits, seed : Seed \cup {Nothing}]
NoVault == [version |-> 0, deposits |-> NoDeposits, seed |-> Nothing]

Memory == [status : {"locked", "unlocking", "unlocked", "error"}, cache : Deposits,
           seed : Seed \cup {Nothing}, known : Nat, remote : Payload,
           paying : Note \cup {Nothing}, snapshot : Deposits]
NewTab == [status |-> "locked", cache |-> NoDeposits, seed |-> Nothing, known |-> 0,
           remote |-> NoVault, paying |-> Nothing, snapshot |-> NoDeposits]

(* Where a put is: on its way; past the version check; written; refused with *)
(* 409; its tab has refetched the vault.  Its tab is the one that waits for   *)
(* the answer, Nothing when none does any more.                               *)
Request == [pc : {"sent", "checked", "written", "refused", "fetched"},
            tab : Tab \cup {Nothing}, kind : {"save", "unlock", "seed"}, attempt : 1 .. 2, payload : Payload]
Idle == [pc |-> "idle"]

(* A request the route has not finished with goes on without its tab, and what *)
(* it was for no longer matters; an answer is lost.                            *)
Abandoned(r) ==
  IF r.pc \in {"sent", "checked"}
  THEN [r EXCEPT !.tab = Nothing, !.kind = "save", !.attempt = 1] ELSE Idle

TypeOK ==
  /\ durable \in BOOLEAN
  /\ vault \in Payload
  /\ local \in [Browser -> Deposits]
  /\ tab \in [Tab -> Memory]
  /\ puts \in [Put -> Request \cup {Idle}]
  /\ saved \subseteq Note
  /\ made \subseteq Seed /\ handed \subseteq made
  /\ raced \subseteq Races
  /\ faults \in 0 .. MaxFaults

Init ==
  /\ durable \in BOOLEAN
  /\ vault = NoVault
  /\ local = [b \in Browser |-> NoDeposits]
  /\ tab = [t \in Tab |-> NewTab]
  /\ puts = [p \in Put |-> Idle]
  /\ saved = {} /\ made = {} /\ handed = {} /\ raced = {}
  /\ faults = 0

Fault == faults < MaxFaults /\ faults' = faults + 1

-----------------------------------------------------------------------------
(* What a tab sends *)

Waiting(t) == {p \in Put : puts[p] # Idle /\ puts[p].tab = t}

PayloadOf(m) == [version |-> m.known + 1, deposits |-> m.cache, seed |-> m.seed]

(* persist() takes its snapshot of the cache when it is called. *)
Persist(t, m, kind) ==
  /\ m.known < MaxVersion
  /\ \E p \in Put :
       /\ puts[p] = Idle
       /\ puts' = [puts EXCEPT ![p] = [pc |-> "sent", tab |-> t, kind |-> kind, attempt |-> 1,
                                       payload |-> PayloadOf(m)]]

(* getVaultDeposits *)
Current(t) == IF tab[t].status = "unlocked" THEN tab[t].cache ELSE local[BrowserOf[t]]

(* Fault: localStorage is left to the end. *)
SaveRemoteOnly(t, m, next) ==
  /\ IF m.status = "unlocked"
     THEN /\ tab' = [tab EXCEPT ![t] = [m EXCEPT !.cache = next]]
          /\ Persist(t, [m EXCEPT !.cache = next], "save")
          /\ UNCHANGED local
     ELSE /\ tab' = [tab EXCEPT ![t] = m]
          /\ local' = [local EXCEPT ![BrowserOf[t]] = next]
          /\ UNCHANGED puts
  /\ UNCHANGED raced

(* saveVaultDeposits: localStorage first, then the cache and the put. *)
Save(t, m, next) ==
  /\ local' = [local EXCEPT ![BrowserOf[t]] = next]
  /\ IF m.status = "unlocked"
     THEN /\ tab' = [tab EXCEPT ![t] = [m EXCEPT !.cache = next]]
          /\ Persist(t, [m EXCEPT !.cache = next], "save")
     ELSE /\ tab' = [tab EXCEPT ![t] = m]
          /\ UNCHANGED puts
  /\ raced' = raced \cup Lost(Current(t), next, "list")
                     \cup Lost(local[BrowserOf[t]], next, "browser")

(* A confirmed deposit of either page, and a withdrawal of DepositWithdraw.tsx, *)
(* are saved by functional updates.                                             *)
Deposit(t, n) ==
  /\ n \notin saved
  /\ saved' = saved \cup {n}
  /\ Save(t, tab[t], Merge(Current(t), [held |-> {n}, spent |-> {}]))
  /\ UNCHANGED <<durable, vault, made, handed, faults>>

MarkSpent(t, n) ==
  /\ t \notin AppTab
  /\ n \in Current(t).held \ Current(t).spent
  /\ Save(t, tab[t], [Current(t) EXCEPT !.spent = @ \cup {n}])
  /\ UNCHANGED <<durable, vault, saved, made, handed, faults>>

(* The withdrawal of app/app/page.tsx: the list is read before /api/withdraw is *)
(* called, and saved with the change note, if any, when it answers.              *)
BeginWithdraw(t, n) ==
  /\ t \in AppTab
  /\ n \in Current(t).held \ Current(t).spent
  /\ tab[t].paying = Nothing
  /\ tab' = [tab EXCEPT ![t].paying = n, ![t].snapshot = Current(t)]
  /\ UNCHANGED <<durable, vault, local, puts, saved, made, handed, raced, faults>>

FinishWithdraw(t, change) ==
  LET spentNote == [held |-> change, spent |-> {tab[t].paying}]
  IN /\ tab[t].paying # Nothing
     /\ change \cap saved = {}
     /\ saved' = saved \cup change
     /\ Save(t, [tab[t] EXCEPT !.paying = Nothing, !.snapshot = NoDeposits],
             Merge(tab[t].snapshot, spentNote))
     /\ UNCHANGED <<durable, vault, made, handed, faults>>

(* unlockVault asks for the record and, when it is there, merges what this *)
(* browser has in localStorage and pushes the union.                       *)
Unlock(t) ==
  /\ tab[t].status \in {"locked", "error"}
  /\ tab' = [tab EXCEPT ![t].status = "unlocking", ![t].remote = vault]
  /\ UNCHANGED <<durable, vault, local, puts, saved, made, handed, raced, faults>>

UnlockFails(t) ==
  /\ tab[t].status = "unlocking" /\ Fault
  /\ tab' = [tab EXCEPT ![t].status = "error", ![t].remote = NoVault]
  /\ UNCHANGED <<durable, vault, local, puts, saved, made, handed, raced>>

UnlockApplies(t) ==
  LET here == local[BrowserOf[t]]
      remote == tab[t].remote
      m == [tab[t] EXCEPT !.status = "unlocked", !.cache = Merge(remote.deposits, here),
                          !.known = remote.version, !.remote = NoVault,
                          !.seed = IF remote.seed # Nothing THEN remote.seed ELSE @]
  IN /\ tab[t].status = "unlocking"
     /\ tab' = [tab EXCEPT ![t] = m]
     /\ IF here # NoDeposits \/ remote.version = 0 THEN Persist(t, m, "unlock") ELSE UNCHANGED puts
     /\ UNCHANGED <<durable, vault, local, saved, made, handed, raced, faults>>

(* ensureNoteSeed, when the tab has no seed yet. *)
EnsureSeed(t, s) ==
  /\ tab[t].status = "unlocked" /\ tab[t].seed = Nothing
  /\ s \notin made
  /\ made' = made \cup {s}
  /\ tab' = [tab EXCEPT ![t].seed = s]
  /\ Persist(t, [tab[t] EXCEPT !.seed = s], "seed")
  /\ UNCHANGED <<durable, vault, local, saved, handed, raced, faults>>

-----------------------------------------------------------------------------
(* The route PUT /api/vault *)

(* The version the put was checked against is no longer the one to follow. *)
Stale(p) == vault.version # 0 /\ puts[p].payload.version <= vault.version

Check(p) ==
  /\ puts[p].pc = "sent"
  /\ IF Stale(p)
     THEN puts' = [puts EXCEPT ![p] = IF @.tab # Nothing THEN [@ EXCEPT !.pc = "refused"] ELSE Idle]
     ELSE puts' = [puts EXCEPT ![p].pc = "checked"]
  /\ UNCHANGED <<durable, vault, local, tab, saved, made, handed, raced, faults>>

(* The record is written whatever it has become since the check. *)
Write(p) ==
  /\ puts[p].pc = "checked"
  /\ vault' = puts[p].payload
  /\ raced' = IF Stale(p) THEN raced \cup {"put"} ELSE raced
  /\ puts' = [puts EXCEPT ![p] = IF @.tab # Nothing THEN [@ EXCEPT !.pc = "written"] ELSE Idle]
  /\ UNCHANGED <<durable, local, tab, saved, made, handed, faults>>

-----------------------------------------------------------------------------
(* What a tab makes of the answer *)

(* Fault: the version is counted up from what the tab knows by then. *)
CountedUp(p) == tab[puts[p].tab].known + 1

(* The version a tab knows once its put is confirmed. *)
ConfirmedVersion(p) == puts[p].payload.version

(* A write confirmed by a durable backend clears localStorage, whole, or hands  *)
(* out the new seed; a seed a memory backend confirmed is taken back.           *)
Confirm(p) ==
  LET t == puts[p].tab
      here == local[BrowserOf[t]]
      seedKind == puts[p].kind = "seed"
  IN /\ puts[p].pc = "written"
     /\ tab' = [tab EXCEPT ![t].known = ConfirmedVersion(p),
                           ![t].seed = IF seedKind /\ ~durable THEN Nothing ELSE @]
     /\ IF durable /\ ~seedKind
        THEN /\ local' = [local EXCEPT ![BrowserOf[t]] = NoDeposits]
             /\ raced' = raced \cup Lost(here, puts[p].payload.deposits, "clear")
        ELSE UNCHANGED <<local, raced>>
     /\ handed' = IF durable /\ seedKind THEN handed \cup {puts[p].payload.seed} ELSE handed
     /\ puts' = [puts EXCEPT ![p] = Idle]
     /\ UNCHANGED <<durable, vault, saved, made, faults>>

(* A first 409 makes the tab read the record again. *)
Refetch(p) ==
  /\ puts[p].pc = "refused" /\ puts[p].attempt = 1
  /\ puts' = [puts EXCEPT ![p].pc = "fetched", ![p].payload = vault]
  /\ UNCHANGED <<durable, vault, local, tab, saved, made, handed, raced, faults>>

(* Fault: the version of the refetched record is taken, its deposits are not. *)
RetryUnmerged(p) ==
  LET t == puts[p].tab
      remote == puts[p].payload
      m == [tab[t] EXCEPT !.known = IF remote.version = 0 THEN @ ELSE remote.version]
  IN /\ puts[p].pc = "fetched" /\ m.known < MaxVersion
     /\ tab' = [tab EXCEPT ![t] = m]
     /\ puts' = [puts EXCEPT ![p].pc = "sent", ![p].attempt = @ + 1, ![p].payload = PayloadOf(m)]
     /\ UNCHANGED <<durable, vault, local, saved, made, handed, raced, faults>>

(* The second attempt of persist(): merge, adopt a seed if the tab has none. *)
Retry(p) ==
  LET t == puts[p].tab
      remote == puts[p].payload
      m == IF remote.version = 0 THEN tab[t]
           ELSE [tab[t] EXCEPT !.cache = Merge(@, remote.deposits), !.known = remote.version,
                               !.seed = IF @ = Nothing THEN remote.seed ELSE @]
  IN /\ puts[p].pc = "fetched" /\ m.known < MaxVersion
     /\ tab' = [tab EXCEPT ![t] = m]
     /\ puts' = [puts EXCEPT ![p].pc = "sent", ![p].attempt = @ + 1, ![p].payload = PayloadOf(m)]
     /\ UNCHANGED <<durable, vault, local, saved, made, handed, raced, faults>>

(* persist() returns false: no answer, another status than 409, a second 409. *)
Fail(p) ==
  LET t == puts[p].tab
      here == local[BrowserOf[t]]
      kind == puts[p].kind
  IN /\ puts[p] # Idle /\ t # Nothing
     /\ IF puts[p].pc = "refused" /\ puts[p].attempt = 2 THEN UNCHANGED faults ELSE Fault
     /\ IF kind = "unlock"
        THEN /\ local' = [local EXCEPT ![BrowserOf[t]] = tab[t].cache]
             /\ raced' = raced \cup Lost(here, tab[t].cache, "browser")
        ELSE UNCHANGED <<local, raced>>
     /\ tab' = IF kind = "seed" THEN [tab EXCEPT ![t].seed = Nothing] ELSE tab
     /\ puts' = [puts EXCEPT ![p] = Abandoned(@)]
     /\ UNCHANGED <<durable, vault, saved, made, handed>>

(* A request nobody waits for never arrives. *)
Lose(p) ==
  /\ puts[p].pc = "sent" /\ puts[p].tab = Nothing
  /\ puts' = [puts EXCEPT ![p] = Idle]
  /\ UNCHANGED <<durable, vault, local, tab, saved, made, handed, raced, faults>>

Close(t) ==
  /\ Fault
  /\ tab' = [tab EXCEPT ![t] = NewTab]
  /\ puts' = [p \in Put |-> IF p \in Waiting(t) THEN Abandoned(puts[p]) ELSE puts[p]]
  /\ UNCHANGED <<durable, vault, local, saved, made, handed, raced>>

(* A memory backend forgets its record. *)
Restart ==
  /\ ~durable /\ Fault
  /\ vault' = NoVault
  /\ UNCHANGED <<durable, local, tab, puts, saved, made, handed, raced>>

-----------------------------------------------------------------------------
TabStep(t) ==
  \/ \E n \in Note : Deposit(t, n) \/ MarkSpent(t, n) \/ BeginWithdraw(t, n)
  \/ \E change \in {{}} \cup {{n} : n \in Note} : FinishWithdraw(t, change)
  \/ Unlock(t) \/ UnlockFails(t) \/ UnlockApplies(t)
  \/ \E s \in Seed : EnsureSeed(t, s)
  \/ Close(t)

PutStep(p) ==
  Check(p) \/ Write(p) \/ Confirm(p) \/ Refetch(p) \/ Retry(p) \/ Fail(p) \/ Lose(p)

Next ==
  \/ \E t \in Tab : TabStep(t)
  \/ \E p \in Put : PutStep(p)
  \/ Restart

Spec == Init /\ [][Next]_vars

-----------------------------------------------------------------------------
(* Properties *)

(* The list a put is made from knows the version it claims to follow. *)
Ordered == raced \cap {"put", "list"} = {}

(* A durable vault never loses a note it stored and never forgets that one is  *)
(* spent, however many tabs write it (the version check of PUT, the merge of   *)
(* persist and unlockVault), until a put is written that was checked against   *)
(* an older record, or a withdrawal brings back an older list.                 *)
VaultKeeps == [][durable /\ Ordered' => Covers(vault'.deposits, vault.deposits)]_vars

(* Why the version check is enough: a tab that knows the current version holds *)
(* all the vault holds, and so does a request that the check would let pass.   *)
VersionIsKnowledge ==
  durable /\ Ordered =>
    /\ \A t \in Tab : tab[t].status = "unlocked" /\ tab[t].known >= vault.version
                        => Covers(tab[t].cache, vault.deposits)
    /\ \A p \in Put : puts[p].pc \in {"sent", "checked"} /\ puts[p].payload.version > vault.version
                        => Covers(puts[p].payload.deposits, vault.deposits)

(* Secrets are never memory-only, but for the four races: a saved note is in   *)
(* some localStorage or in a durable vault, whatever fails or closes (the      *)
(* crash-safety order of saveVaultDeposits and unlockVault).                   *)
NeverMemoryOnly ==
  raced = {} =>
    \A n \in saved :
      \/ \E b \in Browser : n \in local[b].held
      \/ durable /\ n \in vault.deposits.held

(* What the comments claim: no race loses a note ("Two tabs racing can never   *)
(* silently clobber each other's deposits", "Secrets are NEVER memory-only").  *)
NeverClobbered == [][durable => Covers(vault'.deposits, vault.deposits)]_vars
NoteSomewhere ==
  \A n \in saved :
    \/ \E b \in Browser : n \in local[b].held
    \/ durable /\ n \in vault.deposits.held

(* A seed handed out to derive notes from stays in the vault (persist, "first  *)
(* seed wins").                                                                *)
SeedKept == \A s \in handed : vault.seed = s
=============================================================================
