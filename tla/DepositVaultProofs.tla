-------------------------- MODULE DepositVaultProofs --------------------------
(***************************************************************************)
(* Proofs about the deposit vault, for any wallet, tabs, browsers, puts,   *)
(* bounds and faults, and with every race the code allows.                 *)
(*                                                                         *)
(* The argument.  Until a put is written that was checked against an older *)
(* record, versions grow with every write, and nothing carries a version   *)
(* ahead of the vault's but a request, by one.  Until a withdrawal brings  *)
(* back an older list, a tab's cache only grows, so it covers every put it *)
(* waits for.  Whoever knows the current version then got it with the      *)
(* deposits of that version, from the record or by writing them, and what  *)
(* a put that moves the version on writes holds all the vault holds.  What *)
(* a durable backend has confirmed is therefore still there when           *)
(* localStorage is cleared.                                                *)
(***************************************************************************)
EXTENDS DepositVault, TLAPS

InUse(p) == puts[p] # Idle

(* A record read from the vault or written to it is the current one, or of   *)
(* an older version.                                                         *)
UpTo(payload) ==
  /\ payload.version <= vault.version
  /\ payload.version = vault.version => Covers(payload.deposits, vault.deposits)

(* A tab knows no version but with its deposits, no seed that was not made. *)
TabOK(t) ==
  /\ tab[t].seed \in made \cup {Nothing} /\ tab[t].remote.seed \in made \cup {Nothing}
  /\ durable /\ Ordered =>
       /\ tab[t].known <= vault.version /\ UpTo(tab[t].remote)
       /\ tab[t].status = "unlocked" /\ tab[t].known >= vault.version
            => Covers(tab[t].cache, vault.deposits)

(* A put has a tab that is unlocked, or nobody waits for it; what it carries *)
(* the tab still holds, and it is no further than one version on.            *)
PutOK(p) ==
  /\ puts[p].pc \in {"written", "refused", "fetched"} => puts[p].tab # Nothing
  /\ puts[p].pc = "fetched" => puts[p].attempt = 1
  /\ puts[p].tab # Nothing => tab[puts[p].tab].status = "unlocked"
  /\ puts[p].payload.seed \in made \cup {Nothing}
  /\ puts[p].kind = "seed" =>
       /\ puts[p].tab # Nothing /\ tab[puts[p].tab].seed # Nothing
       /\ puts[p].pc # "fetched" => puts[p].payload.seed # Nothing
  /\ durable /\ Ordered =>
       /\ puts[p].tab # Nothing /\ puts[p].pc # "fetched"
            => Covers(tab[puts[p].tab].cache, puts[p].payload.deposits)
       /\ puts[p].pc \in {"sent", "checked"} =>
            /\ puts[p].payload.version \in 1 .. vault.version + 1
            /\ puts[p].payload.version > vault.version => Covers(puts[p].payload.deposits, vault.deposits)
       /\ puts[p].pc \in {"written", "fetched"} => UpTo(puts[p].payload)
       /\ puts[p].pc = "written" => Covers(vault.deposits, puts[p].payload.deposits)

(* A tab waits for one put of a new seed at most. *)
SeedAlone ==
  \A p, q \in Put :
    InUse(p) /\ InUse(q) /\ puts[p].kind = "seed" /\ puts[q].kind = "seed" /\ puts[p].tab = puts[q].tab
      => p = q

(* The record that nobody has written yet. *)
VaultOK ==
  /\ vault.seed \in made \cup {Nothing}
  /\ durable /\ Ordered => UpTo(NoVault)

KInv ==
  /\ TypeOK
  /\ VaultOK
  /\ \A t \in Tab : TabOK(t)
  /\ \A p \in Put : InUse(p) => PutOK(p)
  /\ SeedAlone
  /\ NeverMemoryOnly

-----------------------------------------------------------------------------
LEMMA PutType ==
  ASSUME TypeOK, NEW p \in Put
  PROVE  /\ InUse(p) => puts[p] \in Request
         /\ ~InUse(p) => puts[p].pc = "idle"
         /\ InUse(p) <=> puts[p].pc \in {"sent", "checked", "written", "refused", "fetched"}
BY DEF TypeOK, InUse, Idle, Request

LEMMA EmptyType == NoDeposits \in Deposits /\ NoVault \in Payload /\ NewTab \in Memory
BY DEF NoDeposits, Deposits, NoVault, Payload, NewTab, Memory

LEMMA MergeType ==
  ASSUME NEW a \in Deposits, NEW b \in Deposits
  PROVE  /\ Merge(a, b) \in Deposits
         /\ Covers(Merge(a, b), a) /\ Covers(Merge(a, b), b)
BY DEF Merge, Deposits, Covers

LEMMA CoversTransitive ==
  ASSUME NEW a, NEW b, NEW c, Covers(a, b), Covers(b, c)
  PROVE  Covers(a, c)
BY DEF Covers

LEMMA CoversItself ==
  ASSUME NEW a
  PROVE  Covers(a, a)
BY DEF Covers

(* Init satisfies the invariant. *)
LEMMA InitKInv == Init => KInv
<1> SUFFICES ASSUME Init PROVE KInv
  OBVIOUS
<1>1. TypeOK
  BY EmptyType, BoundsAssumption DEF Init, TypeOK
<1>2. \A p \in Put : ~InUse(p)
  BY DEF Init, InUse
<1>3. VaultOK
  BY DEF Init, VaultOK, UpTo, NoVault, Covers
<1>4. \A t \in Tab : TabOK(t)
  BY DEF Init, TabOK, UpTo, NewTab, NoVault, Covers
<1>5. NeverMemoryOnly
  BY DEF Init, NeverMemoryOnly
<1> QED
  BY <1>1, <1>2, <1>3, <1>4, <1>5 DEF KInv, SeedAlone

-----------------------------------------------------------------------------
(* Steps that leave the record alone *)

(* The rest of such a step. *)
Around ==
  /\ UNCHANGED <<durable, vault>>
  /\ local' \in [Browser -> Deposits]
  /\ saved' \subseteq Note
  /\ made \subseteq made' /\ made' \subseteq Seed /\ handed' \subseteq made'
  /\ raced \subseteq raced' /\ raced' \subseteq Races
  /\ faults' \in 0 .. MaxFaults
  /\ NeverMemoryOnly'

(* The memory m that a tab may come to have. *)
Fits(m) ==
  /\ m \in Memory
  /\ m.seed \in made' \cup {Nothing} /\ m.remote.seed \in made' \cup {Nothing}
  /\ durable /\ Ordered' =>
       /\ m.known <= vault.version /\ UpTo(m.remote)
       /\ m.status = "unlocked" /\ m.known >= vault.version => Covers(m.cache, vault.deposits)

(* The puts that tab t waits for are still in order when it has come to hold m. *)
Grows(t, m) ==
  tab[t].status = "unlocked" =>
    /\ m.status = "unlocked"
    /\ durable /\ Ordered' => Covers(m.cache, tab[t].cache)

KeepsSeed(t, m) == tab[t].seed # Nothing => m.seed # Nothing

LEMMA OrderedBefore ==
  ASSUME raced \subseteq raced', Ordered'
  PROVE  Ordered
BY DEF Ordered

(* What is true of every tab. *)
LEMMA TabFits ==
  ASSUME KInv, NEW t \in Tab, made \subseteq made', raced \subseteq raced'
  PROVE  Fits(tab[t])
<1>1. tab[t] \in Memory /\ TabOK(t)
  BY DEF KInv, TypeOK
<1> QED
  BY <1>1, OrderedBefore DEF Fits, TabOK

LEMMA TabStill ==
  ASSUME KInv, Around, NEW t \in Tab, Fits(tab'[t])
  PROVE  TabOK(t)'
BY DEF TabOK, Fits, Around, UpTo

LEMMA VaultStill ==
  ASSUME KInv, Around
  PROVE  VaultOK'
BY OrderedBefore DEF KInv, VaultOK, Around, UpTo

(* A put that stays as it is, while its tab goes on. *)
LEMMA PutStill ==
  ASSUME KInv, Around, NEW p \in Put, InUse(p), puts'[p] = puts[p],
         puts[p].tab # Nothing =>
           /\ Grows(puts[p].tab, tab'[puts[p].tab])
           /\ puts[p].kind = "seed" => tab'[puts[p].tab].seed # Nothing
  PROVE  PutOK(p)'
<1>1. PutOK(p) /\ UNCHANGED <<durable, vault>> /\ made \subseteq made'
  BY DEF KInv, Around
<1>2. durable /\ Ordered' =>
        (puts[p].tab # Nothing /\ puts[p].pc # "fetched"
           => Covers(tab'[puts[p].tab].cache, puts[p].payload.deposits))
  <2> SUFFICES ASSUME durable, Ordered', puts[p].tab # Nothing, puts[p].pc # "fetched"
               PROVE  Covers(tab'[puts[p].tab].cache, puts[p].payload.deposits)
    OBVIOUS
  <2>1. Covers(tab[puts[p].tab].cache, puts[p].payload.deposits) /\ tab[puts[p].tab].status = "unlocked"
    BY <1>1, OrderedBefore DEF PutOK, Around
  <2>2. Covers(tab'[puts[p].tab].cache, tab[puts[p].tab].cache)
    BY <2>1 DEF Grows
  <2> QED
    BY <2>1, <2>2, CoversTransitive
<1>3. puts[p].tab # Nothing => tab'[puts[p].tab].status = "unlocked"
  BY <1>1 DEF PutOK, Grows
<1>4. Ordered' => Ordered
  BY OrderedBefore DEF Around
<1> QED
  BY <1>1, <1>2, <1>3, <1>4 DEF PutOK, UpTo

(* A step of one tab that sends nothing. *)
LEMMA QuietKInv ==
  ASSUME KInv, NEW t \in Tab, NEW m, Fits(m), Grows(t, m), KeepsSeed(t, m), Around,
         tab' = [tab EXCEPT ![t] = m], UNCHANGED puts
  PROVE  KInv'
<1>1. /\ tab'[t] = m /\ \A u \in Tab : u # t => tab'[u] = tab[u]
      /\ m \in Memory
  BY DEF KInv, TypeOK, Fits
<1>2. TypeOK'
  BY DEF KInv, TypeOK, Fits, Around
<1>3. ASSUME NEW u \in Tab
      PROVE  TabOK(u)'
  <2>1. Fits(tab'[u])
    BY <1>1, TabFits DEF Around
  <2> QED
    BY <2>1, TabStill
<1>4. ASSUME NEW p \in Put, InUse(p)'
      PROVE  PutOK(p)'
  <2>1. InUse(p) /\ PutOK(p) /\ puts[p].tab \in Tab \cup {Nothing}
    BY <1>4, PutType DEF InUse, KInv, Request
  <2>2. ASSUME puts[p].tab # Nothing
        PROVE  /\ Grows(puts[p].tab, tab'[puts[p].tab])
               /\ puts[p].kind = "seed" => tab'[puts[p].tab].seed # Nothing
    <3>1. CASE puts[p].tab = t
      BY <1>1, <2>1, <3>1 DEF KeepsSeed, PutOK
    <3>2. CASE puts[p].tab # t
      BY <1>1, <2>1, <2>2, <3>2, CoversItself DEF Grows, PutOK
    <3> QED
      BY <3>1, <3>2
  <2> QED
    BY <2>1, <2>2, PutStill
<1>5. SeedAlone'
  BY DEF KInv, SeedAlone, InUse
<1> QED
  BY <1>2, <1>3, <1>4, <1>5, VaultStill DEF KInv, Around

(* The same, with a put of what the tab then holds. *)
LEMMA PersistKInv ==
  ASSUME KInv, NEW t \in Tab, NEW m, Fits(m), Grows(t, m), KeepsSeed(t, m), Around,
         NEW kind \in {"save", "unlock", "seed"},
         kind = "seed" => m.seed # Nothing /\ tab[t].seed = Nothing,
         m.status = "unlocked", tab' = [tab EXCEPT ![t] = m], Persist(t, m, kind)
  PROVE  KInv'
<1>1. /\ tab'[t] = m /\ \A u \in Tab : u # t => tab'[u] = tab[u]
      /\ m \in Memory /\ t # Nothing
  BY NothingAssumption DEF KInv, TypeOK, Fits
<1>2. PICK p \in Put :
        /\ ~InUse(p)
        /\ puts' = [puts EXCEPT ![p] = [pc |-> "sent", tab |-> t, kind |-> kind, attempt |-> 1,
                                       payload |-> PayloadOf(m)]]
  BY DEF Persist, InUse
<1> DEFINE r == [pc |-> "sent", tab |-> t, kind |-> kind, attempt |-> 1, payload |-> PayloadOf(m)]
<1>3. r \in Request /\ PayloadOf(m) \in Payload /\ m.known \in Nat
  BY <1>1 DEF Request, PayloadOf, Payload, Memory
<1>4. /\ puts'[p] = r /\ \A q \in Put : q # p => puts'[q] = puts[q]
  BY <1>2 DEF KInv, TypeOK
<1>5. /\ r.pc = "sent" /\ r.tab = t /\ r.kind = kind
      /\ r.payload.version = m.known + 1 /\ r.payload.deposits = m.cache /\ r.payload.seed = m.seed
  BY DEF PayloadOf
<1> HIDE DEF r
<1>6. TypeOK'
  BY <1>2, <1>3, <1>4 DEF KInv, TypeOK, Fits, Around, r
<1>7. ASSUME NEW u \in Tab
      PROVE  TabOK(u)'
  <2>1. Fits(tab'[u])
    BY <1>1, TabFits DEF Around
  <2> QED
    BY <2>1, TabStill
<1>8. PutOK(p)'
  <2>1. /\ puts'[p].payload.seed \in made' \cup {Nothing}
        /\ puts'[p].kind = "seed" => puts'[p].payload.seed # Nothing /\ tab'[t].seed # Nothing
    BY <1>1, <1>4, <1>5 DEF Fits
  <2>2. durable /\ Ordered' =>
          /\ puts'[p].payload.version \in 1 .. vault.version + 1
          /\ puts'[p].payload.version > vault.version => Covers(puts'[p].payload.deposits, vault.deposits)
    BY <1>3, <1>4, <1>5 DEF Fits, KInv, TypeOK, Payload
  <2>3. Covers(tab'[t].cache, puts'[p].payload.deposits)
    BY <1>1, <1>4, <1>5, CoversItself
  <2> QED
    BY <1>1, <1>4, <1>5, <2>1, <2>2, <2>3 DEF PutOK, Around
<1>9. ASSUME NEW q \in Put, q # p, InUse(q)'
      PROVE  PutOK(q)'
  <2>1. InUse(q) /\ PutOK(q) /\ puts'[q] = puts[q] /\ puts[q].tab \in Tab \cup {Nothing}
    BY <1>4, <1>9, PutType DEF InUse, KInv, Request
  <2>2. ASSUME puts[q].tab # Nothing
        PROVE  /\ Grows(puts[q].tab, tab'[puts[q].tab])
               /\ puts[q].kind = "seed" => tab'[puts[q].tab].seed # Nothing
    <3>1. CASE puts[q].tab = t
      BY <1>1, <2>1, <3>1 DEF KeepsSeed, PutOK
    <3>2. CASE puts[q].tab # t
      BY <1>1, <2>1, <2>2, <3>2, CoversItself DEF Grows, PutOK
    <3> QED
      BY <3>1, <3>2
  <2> QED
    BY <2>1, <2>2, PutStill
<1>10. SeedAlone'
  <2>1. ASSUME NEW q \in Put, q # p, InUse(q)', puts'[q].kind = "seed", kind = "seed"
        PROVE  puts'[q].tab # t
    BY <1>4, <2>1 DEF KInv, PutOK, InUse
  <2>2. ASSUME NEW o \in Put, NEW q \in Put, InUse(o)', InUse(q)', puts'[o].kind = "seed",
               puts'[q].kind = "seed", puts'[o].tab = puts'[q].tab
        PROVE  o = q
    <3>1. CASE o = p /\ q # p
      BY <1>4, <1>5, <2>1, <2>2, <3>1
    <3>2. CASE q = p /\ o # p
      BY <1>4, <1>5, <2>1, <2>2, <3>2
    <3>3. CASE o # p /\ q # p
      BY <1>4, <2>2, <3>3 DEF KInv, SeedAlone, InUse
    <3> QED
      BY <3>1, <3>2, <3>3
  <2> QED
    BY <2>2 DEF SeedAlone
<1> QED
  BY <1>6, <1>7, <1>8, <1>9, <1>10, VaultStill DEF KInv, Around

-----------------------------------------------------------------------------
(* What a tab does *)

(* Nothing is taken from any browser. *)
LEMMA StoredStill ==
  ASSUME KInv, UNCHANGED <<durable, vault, local>>, saved' \subseteq saved, raced \subseteq raced'
  PROVE  NeverMemoryOnly'
BY DEF KInv, NeverMemoryOnly

(* A browser's list is replaced by one that has all of it, and what is new. *)
LEMMA StoredReplaced ==
  ASSUME KInv, UNCHANGED <<durable, vault>>, NEW b \in Browser, NEW next,
         local' = [local EXCEPT ![b] = next], raced \subseteq raced',
         raced' = {} => Covers(next, local[b]), saved' \subseteq saved \cup next.held
  PROVE  NeverMemoryOnly'
<1> SUFFICES ASSUME raced' = {}, NEW n \in saved'
             PROVE  (\E a \in Browser : n \in local'[a].held) \/ (durable /\ n \in vault.deposits.held)
  BY DEF NeverMemoryOnly
<1>1. local'[b] = next /\ \A a \in Browser : a # b => local'[a] = local[a]
  BY DEF KInv, TypeOK
<1>2. CASE n \in next.held
  BY <1>1, <1>2
<1>3. CASE n \notin next.held
  <2>1. n \in saved /\ n \notin local[b].held
    BY <1>3 DEF Covers
  <2>2. (\E a \in Browser : n \in local[a].held) \/ (durable /\ n \in vault.deposits.held)
    BY <2>1 DEF KInv, NeverMemoryOnly
  <2> QED
    BY <1>1, <2>1, <2>2
<1> QED
  BY <1>2, <1>3

LEMMA LostIs ==
  ASSUME NEW old, NEW new, NEW kind \in Races
  PROVE  Lost(old, new, kind) \subseteq Races /\ (~Covers(new, old) => kind \in Lost(old, new, kind))
BY DEF Lost

LEMMA CurrentType ==
  ASSUME KInv, NEW t \in Tab
  PROVE  Current(t) \in Deposits /\ local[BrowserOf[t]] \in Deposits /\ BrowserOf[t] \in Browser
BY BrowserAssumption DEF KInv, TypeOK, Current, Memory

(* A list that is saved holds what was held, or one of the races has happened. *)
LEMMA SaveKInv ==
  ASSUME KInv, NEW t \in Tab, NEW m \in Memory, NEW next \in Deposits, Save(t, m, next),
         m.status = tab[t].status, m.cache = tab[t].cache, m.seed = tab[t].seed,
         m.known = tab[t].known, m.remote = tab[t].remote,
         UNCHANGED <<durable, vault, made, handed, faults>>,
         saved' \subseteq Note, saved' \subseteq saved \cup next.held
  PROVE  KInv'
<1> DEFINE list == Lost(Current(t), next, "list")
           browser == Lost(local[BrowserOf[t]], next, "browser")
<1>1. /\ local' = [local EXCEPT ![BrowserOf[t]] = next]
      /\ raced' = raced \cup list \cup browser
  BY DEF Save
<1>2. /\ list \subseteq Races /\ (~Covers(next, Current(t)) => "list" \in list)
      /\ browser \subseteq Races /\ (~Covers(next, local[BrowserOf[t]]) => "browser" \in browser)
  BY LostIs DEF Races
<1> HIDE DEF list, browser
<1>3. raced \subseteq raced' /\ raced' \subseteq Races
  BY <1>1, <1>2 DEF KInv, TypeOK
<1>4. Ordered' => Covers(next, Current(t))
  BY <1>1, <1>2 DEF Ordered
<1>5. raced' = {} => Covers(next, local[BrowserOf[t]])
  BY <1>1, <1>2
<1>6. NeverMemoryOnly'
  BY <1>1, <1>3, <1>5, CurrentType, StoredReplaced
<1>7. Around
  BY <1>1, <1>3, <1>6, CurrentType DEF Around, KInv, TypeOK
<1>8. Fits(tab[t])
  BY <1>3, TabFits
<1>9. CASE m.status = "unlocked"
  <2> DEFINE n == [m EXCEPT !.cache = next]
  <2>1. tab' = [tab EXCEPT ![t] = n] /\ Persist(t, n, "save")
    BY <1>9 DEF Save
  <2>2. /\ n \in Memory /\ n.status = "unlocked" /\ n.cache = next /\ n.seed = m.seed
        /\ n.known = m.known /\ n.remote = m.remote
    BY <1>9 DEF Memory
  <2> HIDE DEF n
  <2>3. Ordered' => Covers(next, tab[t].cache)
    BY <1>4, <1>9 DEF Current
  <2>4. Grows(t, n) /\ KeepsSeed(t, n)
    BY <2>2, <2>3 DEF Grows, KeepsSeed
  <2>5. Fits(n)
    BY <1>8, <1>9, <2>2, <2>3, CoversTransitive DEF Fits
  <2> QED
    BY <1>7, <2>1, <2>2, <2>4, <2>5, PersistKInv
<1>10. CASE m.status # "unlocked"
  <2>1. tab' = [tab EXCEPT ![t] = m] /\ UNCHANGED puts
    BY <1>10 DEF Save
  <2>2. Fits(m) /\ Grows(t, m) /\ KeepsSeed(t, m)
    BY <1>8, <1>10 DEF Fits, Grows, KeepsSeed
  <2> QED
    BY <1>7, <2>1, <2>2, QuietKInv
<1> QED
  BY <1>9, <1>10

LEMMA DepositKInv ==
  ASSUME KInv, NEW t \in Tab, NEW n \in Note, Deposit(t, n)
  PROVE  KInv'
<1> DEFINE one == [held |-> {n}, spent |-> {}]
           next == Merge(Current(t), one)
<1>1. one \in Deposits /\ n \in one.held
  BY DEF Deposits
<1>2. next \in Deposits /\ n \in next.held
  BY <1>1, CurrentType, MergeType DEF Covers
<1>3. Save(t, tab[t], next) /\ saved' = saved \cup {n}
      /\ UNCHANGED <<durable, vault, made, handed, faults>>
  BY DEF Deposit
<1> HIDE DEF next
<1>4. tab[t] \in Memory /\ saved' \subseteq Note
  BY <1>3 DEF KInv, TypeOK
<1> QED
  BY <1>2, <1>3, <1>4, SaveKInv

LEMMA MarkSpentKInv ==
  ASSUME KInv, NEW t \in Tab, NEW n \in Note, MarkSpent(t, n)
  PROVE  KInv'
<1> DEFINE next == [Current(t) EXCEPT !.spent = @ \cup {n}]
<1>1. next \in Deposits
  BY CurrentType DEF Deposits
<1>2. Save(t, tab[t], next) /\ UNCHANGED <<durable, vault, saved, made, handed, faults>>
  BY DEF MarkSpent
<1> HIDE DEF next
<1>3. tab[t] \in Memory /\ saved' \subseteq Note
  BY <1>2 DEF KInv, TypeOK
<1> QED
  BY <1>1, <1>2, <1>3, SaveKInv

LEMMA BeginWithdrawKInv ==
  ASSUME KInv, NEW t \in Tab, NEW n \in Note, BeginWithdraw(t, n)
  PROVE  KInv'
<1> DEFINE m == [tab[t] EXCEPT !.paying = n, !.snapshot = Current(t)]
<1>1. tab' = [tab EXCEPT ![t] = m]
  <2>1. tab[t] \in Memory
    BY DEF KInv, TypeOK
  <2>2. tab' = [[tab EXCEPT ![t] = [tab[t] EXCEPT !.paying = n]] EXCEPT ![t] = m]
    BY <2>1 DEF BeginWithdraw, KInv, TypeOK
  <2> QED
    BY <2>2
<1>2. UNCHANGED <<durable, vault, local, puts, saved, made, handed, raced, faults>>
  BY DEF BeginWithdraw
<1>3. Fits(tab[t])
  BY <1>2, TabFits
<1>4. /\ m \in Memory /\ m.status = tab[t].status /\ m.cache = tab[t].cache /\ m.seed = tab[t].seed
      /\ m.known = tab[t].known /\ m.remote = tab[t].remote
  BY <1>3, CurrentType DEF Fits, Memory
<1> HIDE DEF m
<1>5. Fits(m) /\ Grows(t, m) /\ KeepsSeed(t, m)
  BY <1>3, <1>4, CoversItself DEF Fits, Grows, KeepsSeed
<1>6. Around
  BY <1>2, StoredStill DEF Around, KInv, TypeOK
<1> QED
  BY <1>1, <1>2, <1>5, <1>6, QuietKInv

LEMMA FinishWithdrawKInv ==
  ASSUME KInv, NEW t \in Tab, NEW change \in SUBSET Note, FinishWithdraw(t, change)
  PROVE  KInv'
<1> DEFINE spentNote == [held |-> change, spent |-> {tab[t].paying}]
           m == [tab[t] EXCEPT !.paying = Nothing, !.snapshot = NoDeposits]
           next == Merge(tab[t].snapshot, spentNote)
<1>1. /\ tab[t].paying # Nothing /\ saved' = saved \cup change /\ Save(t, m, next)
      /\ UNCHANGED <<durable, vault, made, handed, faults>>
  BY DEF FinishWithdraw
<1>2. tab[t] \in Memory /\ saved' \subseteq Note
  BY <1>1 DEF KInv, TypeOK
<1>3. tab[t].snapshot \in Deposits /\ spentNote \in Deposits
  BY <1>1, <1>2 DEF Memory, Deposits
<1>4. next \in Deposits /\ change \subseteq next.held
  BY <1>3, MergeType DEF Covers
<1>5. /\ m \in Memory /\ m.status = tab[t].status /\ m.cache = tab[t].cache /\ m.seed = tab[t].seed
      /\ m.known = tab[t].known /\ m.remote = tab[t].remote
  BY <1>2, EmptyType DEF Memory
<1> HIDE DEF m, next
<1> QED
  BY <1>1, <1>2, <1>4, <1>5, SaveKInv

LEMMA UnlockKInv ==
  ASSUME KInv, NEW t \in Tab, Unlock(t)
  PROVE  KInv'
<1> DEFINE m == [tab[t] EXCEPT !.status = "unlocking", !.remote = vault]
<1>1. tab[t] \in Memory /\ vault \in Payload
  BY DEF KInv, TypeOK
<1>2. tab' = [tab EXCEPT ![t] = m]
  <2>1. tab' = [[tab EXCEPT ![t] = [tab[t] EXCEPT !.status = "unlocking"]] EXCEPT ![t] = m]
    BY <1>1 DEF Unlock, KInv, TypeOK
  <2> QED
    BY <2>1
<1>3. tab[t].status # "unlocked" /\ UNCHANGED <<durable, vault, local, puts, saved, made, handed, raced, faults>>
  BY DEF Unlock
<1>4. Fits(tab[t])
  BY <1>3, TabFits
<1>5. /\ m \in Memory /\ m.status = "unlocking" /\ m.seed = tab[t].seed
      /\ m.known = tab[t].known /\ m.remote = vault
  BY <1>1 DEF Memory
<1> HIDE DEF m
<1>6. UpTo(vault) /\ vault.seed \in made \cup {Nothing}
  BY <1>1, CoversItself DEF UpTo, Payload, KInv, VaultOK
<1>7. Fits(m) /\ Grows(t, m) /\ KeepsSeed(t, m)
  BY <1>3, <1>4, <1>5, <1>6 DEF Fits, Grows, KeepsSeed
<1>8. Around
  BY <1>3, StoredStill DEF Around, KInv, TypeOK
<1> QED
  BY <1>2, <1>3, <1>7, <1>8, QuietKInv

LEMMA UnlockFailsKInv ==
  ASSUME KInv, NEW t \in Tab, UnlockFails(t)
  PROVE  KInv'
<1> DEFINE m == [tab[t] EXCEPT !.status = "error", !.remote = NoVault]
<1>1. tab[t] \in Memory
  BY DEF KInv, TypeOK
<1>2. tab' = [tab EXCEPT ![t] = m]
  <2>1. tab' = [[tab EXCEPT ![t] = [tab[t] EXCEPT !.status = "error"]] EXCEPT ![t] = m]
    BY <1>1 DEF UnlockFails, KInv, TypeOK
  <2> QED
    BY <2>1
<1>3. tab[t].status = "unlocking" /\ Fault /\ UNCHANGED <<durable, vault, local, puts, saved, made, handed, raced>>
  BY DEF UnlockFails
<1>4. Fits(tab[t])
  BY <1>3, TabFits
<1>5. /\ m \in Memory /\ m.status = "error" /\ m.seed = tab[t].seed
      /\ m.known = tab[t].known /\ m.remote = NoVault
  BY <1>1, EmptyType DEF Memory
<1> HIDE DEF m
<1>6. NoVault.seed = Nothing /\ (durable /\ Ordered' => UpTo(NoVault))
  BY <1>3, OrderedBefore DEF NoVault, KInv, VaultOK
<1>7. Fits(m) /\ Grows(t, m) /\ KeepsSeed(t, m)
  BY <1>3, <1>4, <1>5, <1>6 DEF Fits, Grows, KeepsSeed
<1>8. Around
  BY <1>3, BoundsAssumption, StoredStill DEF Around, KInv, TypeOK, Fault
<1> QED
  BY <1>2, <1>3, <1>7, <1>8, QuietKInv

LEMMA UnlockAppliesKInv ==
  ASSUME KInv, NEW t \in Tab, UnlockApplies(t)
  PROVE  KInv'
<1> DEFINE here == local[BrowserOf[t]]
           remote == tab[t].remote
           m == [tab[t] EXCEPT !.status = "unlocked", !.cache = Merge(remote.deposits, here),
                               !.known = remote.version, !.remote = NoVault,
                               !.seed = IF remote.seed # Nothing THEN remote.seed ELSE @]
<1>1. tab[t] \in Memory /\ here \in Deposits /\ remote \in Payload
  BY CurrentType DEF KInv, TypeOK, Memory
<1>2. /\ tab[t].status = "unlocking" /\ tab' = [tab EXCEPT ![t] = m]
      /\ Persist(t, m, "unlock") \/ UNCHANGED puts
      /\ UNCHANGED <<durable, vault, local, saved, made, handed, raced, faults>>
  BY DEF UnlockApplies
<1>3. Fits(tab[t])
  BY <1>2, TabFits
<1>4. remote.deposits \in Deposits /\ remote.version \in Nat /\ remote.seed \in Seed \cup {Nothing}
  BY <1>1 DEF Payload
<1>5. Merge(remote.deposits, here) \in Deposits /\ Covers(Merge(remote.deposits, here), remote.deposits)
  BY <1>1, <1>4, MergeType
<1>6. /\ m \in Memory /\ m.status = "unlocked" /\ m.cache = Merge(remote.deposits, here)
      /\ m.seed = (IF remote.seed # Nothing THEN remote.seed ELSE tab[t].seed)
      /\ m.known = remote.version /\ m.remote = NoVault
  BY <1>1, <1>4, <1>5, EmptyType DEF Memory
<1> HIDE DEF m
<1>7. NoVault.seed = Nothing /\ (durable /\ Ordered' => UpTo(NoVault) /\ UpTo(remote))
  BY <1>2, <1>3, OrderedBefore DEF NoVault, KInv, VaultOK, Fits
<1>8. durable /\ Ordered' /\ remote.version >= vault.version => Covers(m.cache, vault.deposits)
  <2>1. vault.version \in Nat
    BY DEF KInv, TypeOK, Payload
  <2> QED
    BY <1>4, <1>5, <1>6, <1>7, <2>1, CoversTransitive DEF UpTo
<1>9. Fits(m)
  BY <1>3, <1>6, <1>7, <1>8 DEF Fits, UpTo
<1>10. Grows(t, m) /\ KeepsSeed(t, m)
  BY <1>2, <1>6 DEF Grows, KeepsSeed
<1>11. Around
  BY <1>2, StoredStill DEF Around, KInv, TypeOK
<1> QED
  BY <1>2, <1>6, <1>9, <1>10, <1>11, QuietKInv, PersistKInv

LEMMA EnsureSeedKInv ==
  ASSUME KInv, NEW t \in Tab, NEW s \in Seed, EnsureSeed(t, s)
  PROVE  KInv'
<1> DEFINE m == [tab[t] EXCEPT !.seed = s]
<1>1. tab[t] \in Memory
  BY DEF KInv, TypeOK
<1>2. /\ tab[t].status = "unlocked" /\ tab[t].seed = Nothing /\ made' = made \cup {s}
      /\ tab' = [tab EXCEPT ![t] = m] /\ Persist(t, m, "seed")
      /\ UNCHANGED <<durable, vault, local, saved, handed, raced, faults>>
  BY DEF EnsureSeed
<1>3. Fits(tab[t])
  BY <1>2, TabFits
<1>4. /\ m \in Memory /\ m.status = "unlocked" /\ m.seed = s /\ m.cache = tab[t].cache
      /\ m.known = tab[t].known /\ m.remote = tab[t].remote
  BY <1>1, <1>2 DEF Memory
<1> HIDE DEF m
<1>5. s # Nothing
  BY NothingAssumption
<1>6. Fits(m) /\ Grows(t, m) /\ KeepsSeed(t, m)
  BY <1>2, <1>3, <1>4, <1>5, CoversItself DEF Fits, Grows, KeepsSeed
<1>7. Around
  BY <1>2, StoredStill DEF Around, KInv, TypeOK
<1> QED
  BY <1>2, <1>4, <1>5, <1>6, <1>7, PersistKInv

-----------------------------------------------------------------------------
(* What becomes of a put *)

(* The request r that put p may become, once the tabs are as tab' says. *)
Follows(p, r) ==
  /\ r \in Request
  /\ r.tab \in {puts[p].tab, Nothing}
  /\ r.kind \in {puts[p].kind, "save"}
  /\ r.pc \in {"written", "refused", "fetched"} => r.tab # Nothing
  /\ r.pc = "fetched" => r.attempt = 1
  /\ r.tab # Nothing => tab'[r.tab].status = "unlocked"
  /\ r.payload.seed \in made \cup {Nothing}
  /\ r.kind = "seed" =>
       /\ r.tab # Nothing /\ tab'[r.tab].seed # Nothing
       /\ r.pc # "fetched" => r.payload.seed # Nothing
  /\ durable /\ Ordered' =>
       /\ r.tab # Nothing /\ r.pc # "fetched" => Covers(tab'[r.tab].cache, r.payload.deposits)
       /\ r.pc \in {"sent", "checked"} =>
            /\ r.payload.version \in 1 .. vault.version + 1
            /\ r.payload.version > vault.version => Covers(r.payload.deposits, vault.deposits)
       /\ r.pc \in {"written", "fetched"} => UpTo(r.payload)
       /\ r.pc = "written" => Covers(vault.deposits, r.payload.deposits)

(* What happens to the tab that waits for put p. *)
TabFollows(p) ==
  /\ tab' \in [Tab -> Memory]
  /\ \A u \in Tab : u # puts[p].tab => tab'[u] = tab[u]
  /\ puts[p].tab # Nothing =>
       /\ Fits(tab'[puts[p].tab]) /\ Grows(puts[p].tab, tab'[puts[p].tab])
       /\ puts[p].kind = "seed" \/ KeepsSeed(puts[p].tab, tab'[puts[p].tab])

LEMMA PutKInv ==
  ASSUME KInv, NEW p \in Put, InUse(p), NEW r, r = Idle \/ Follows(p, r),
         puts' = [puts EXCEPT ![p] = r], TabFollows(p), Around, made' = made
  PROVE  KInv'
<1> DEFINE t == puts[p].tab
<1>1. /\ puts'[p] = r /\ \A q \in Put : q # p => puts'[q] = puts[q]
      /\ t \in Tab \cup {Nothing} /\ Nothing \notin Tab
  BY PutType, NothingAssumption DEF KInv, TypeOK, Request
<1>2. TypeOK'
  BY <1>1 DEF KInv, TypeOK, TabFollows, Around, Follows
<1>3. ASSUME NEW u \in Tab
      PROVE  TabOK(u)'
  <2>1. Fits(tab'[u])
    BY <1>1, TabFits DEF Around, TabFollows
  <2> QED
    BY <2>1, TabStill
<1>4. ASSUME InUse(p)'
      PROVE  PutOK(p)' /\ Follows(p, r)
  <2>1. Follows(p, r) /\ puts'[p] = r
    BY <1>1, <1>4 DEF InUse
  <2> QED
    BY <2>1 DEF Follows, PutOK, UpTo, Around
<1>5. ASSUME NEW q \in Put, q # p, InUse(q)'
      PROVE  PutOK(q)'
  <2>1. InUse(q) /\ PutOK(q) /\ puts'[q] = puts[q] /\ puts[q].tab \in Tab \cup {Nothing}
    BY <1>1, <1>5, PutType DEF InUse, KInv, Request
  <2>2. ASSUME puts[q].tab # Nothing
        PROVE  /\ Grows(puts[q].tab, tab'[puts[q].tab])
               /\ puts[q].kind = "seed" => tab'[puts[q].tab].seed # Nothing
    <3>1. CASE puts[q].tab = t
      <4>1. puts[q].kind = "seed" => puts[p].kind # "seed"
        BY <1>5, <2>1, <3>1 DEF KInv, SeedAlone
      <4> QED
        BY <2>1, <2>2, <3>1, <4>1 DEF TabFollows, KeepsSeed, PutOK
    <3>2. CASE puts[q].tab # t
      BY <2>1, <2>2, <3>2, CoversItself DEF Grows, PutOK, TabFollows
    <3> QED
      BY <3>1, <3>2
  <2> QED
    BY <2>1, <2>2, PutStill
<1>6. SeedAlone'
  <2>1. \A q \in Put : InUse(q)' /\ puts'[q].kind = "seed" =>
          InUse(q) /\ puts[q].kind = "seed" /\ puts[q].tab = puts'[q].tab
    <3> SUFFICES ASSUME NEW q \in Put, InUse(q)', puts'[q].kind = "seed"
                 PROVE  InUse(q) /\ puts[q].kind = "seed" /\ puts[q].tab = puts'[q].tab
      OBVIOUS
    <3>1. CASE q = p
      BY <1>1, <1>4, <3>1 DEF Follows
    <3>2. CASE q # p
      BY <1>1, <3>2 DEF InUse
    <3> QED
      BY <3>1, <3>2
  <2> QED
    BY <2>1 DEF KInv, SeedAlone
<1> QED
  BY <1>2, <1>3, <1>4, <1>5, <1>6, VaultStill DEF KInv, Around

(* What is true of every put and of the tab that waits for it. *)
LEMMA PutFollows ==
  ASSUME KInv, NEW p \in Put, InUse(p), UNCHANGED <<tab, made>>, raced \subseteq raced'
  PROVE  Follows(p, puts[p]) /\ TabFollows(p)
<1>1. puts[p] \in Request /\ PutOK(p)
  BY PutType DEF KInv
<1>2. Follows(p, puts[p])
  BY <1>1, OrderedBefore DEF Follows, PutOK
<1>3. puts[p].tab # Nothing =>
        /\ Fits(tab[puts[p].tab]) /\ Grows(puts[p].tab, tab[puts[p].tab])
        /\ KeepsSeed(puts[p].tab, tab[puts[p].tab])
  BY <1>1, TabFits, CoversItself DEF Grows, KeepsSeed, Request
<1> QED
  BY <1>2, <1>3 DEF TabFollows, KInv, TypeOK

LEMMA CheckKInv ==
  ASSUME KInv, NEW p \in Put, Check(p)
  PROVE  KInv'
<1>1. puts[p].pc = "sent" /\ UNCHANGED <<durable, vault, local, tab, saved, made, handed, raced, faults>>
  BY DEF Check
<1>2. InUse(p) /\ puts[p] \in Request
  BY <1>1, PutType DEF KInv
<1>3. Follows(p, puts[p]) /\ TabFollows(p)
  BY <1>1, <1>2, PutFollows
<1>4. Around
  BY <1>1, StoredStill DEF Around, KInv, TypeOK
<1>5. CASE Stale(p) /\ puts[p].tab = Nothing
  <2>1. puts' = [puts EXCEPT ![p] = Idle]
    BY <1>5 DEF Check
  <2> QED
    BY <1>1, <1>2, <1>3, <1>4, <2>1, PutKInv
<1>6. CASE Stale(p) /\ puts[p].tab # Nothing
  <2> DEFINE r == [puts[p] EXCEPT !.pc = "refused"]
  <2>1. puts' = [puts EXCEPT ![p] = r]
    BY <1>6 DEF Check
  <2>2. /\ r \in Request /\ r.pc = "refused" /\ r.tab = puts[p].tab /\ r.payload = puts[p].payload
        /\ r.kind = puts[p].kind
    BY <1>2 DEF Request
  <2> HIDE DEF r
  <2>3. Follows(p, r)
    BY <1>1, <1>3, <1>6, <2>2 DEF Follows
  <2> QED
    BY <1>1, <1>2, <1>3, <1>4, <2>1, <2>3, PutKInv
<1>7. CASE ~Stale(p)
  <2> DEFINE r == [puts[p] EXCEPT !.pc = "checked"]
  <2>1. puts' = [puts EXCEPT ![p] = r]
    BY <1>2, <1>7 DEF Check, KInv, TypeOK
  <2>2. /\ r \in Request /\ r.pc = "checked" /\ r.tab = puts[p].tab /\ r.payload = puts[p].payload
        /\ r.kind = puts[p].kind
    BY <1>2 DEF Request
  <2> HIDE DEF r
  <2>3. Follows(p, r)
    BY <1>1, <1>3, <2>2 DEF Follows
  <2> QED
    BY <1>1, <1>2, <1>3, <1>4, <2>1, <2>3, PutKInv
<1> QED
  BY <1>5, <1>6, <1>7

(* localStorage is cleared when the vault holds all of it. *)
LEMMA ConfirmKInv ==
  ASSUME KInv, NEW p \in Put, Confirm(p)
  PROVE  KInv'
<1> DEFINE t == puts[p].tab
           b == BrowserOf[t]
           seedKind == puts[p].kind = "seed"
           clear == Lost(local[b], puts[p].payload.deposits, "clear")
           m == [tab[t] EXCEPT !.known = puts[p].payload.version,
                               !.seed = IF seedKind /\ ~durable THEN Nothing ELSE @]
<1>1. /\ puts[p].pc = "written" /\ puts' = [puts EXCEPT ![p] = Idle]
      /\ handed' = IF durable /\ seedKind THEN handed \cup {puts[p].payload.seed} ELSE handed
      /\ UNCHANGED <<durable, vault, saved, made, faults>>
  BY DEF Confirm
<1>2. /\ durable /\ ~seedKind =>
           local' = [local EXCEPT ![b] = NoDeposits] /\ raced' = raced \cup clear
      /\ ~(durable /\ ~seedKind) => UNCHANGED <<local, raced>>
  BY DEF Confirm
<1>3. /\ InUse(p) /\ puts[p] \in Request /\ puts[p].payload \in Payload /\ t \in Tab /\ PutOK(p)
      /\ tab[t] \in Memory /\ tab[t].status = "unlocked" /\ vault.version \in Nat
  BY <1>1, PutType DEF KInv, TypeOK, PutOK, Request, Payload
<1>4. clear \subseteq Races /\ (~Covers(puts[p].payload.deposits, local[b]) => "clear" \in clear)
  BY LostIs DEF Races
<1> HIDE DEF clear
<1>5. raced \subseteq raced' /\ raced' \subseteq Races
  BY <1>2, <1>4 DEF KInv, TypeOK
<1>6. tab' = [tab EXCEPT ![t] = m]
  <2>1. tab' = [[tab EXCEPT ![t] = [tab[t] EXCEPT !.known = puts[p].payload.version]] EXCEPT ![t] = m]
    BY <1>3 DEF Confirm, ConfirmedVersion, KInv, TypeOK
  <2> QED
    BY <2>1
<1>7. /\ m \in Memory /\ m.status = "unlocked" /\ m.cache = tab[t].cache
      /\ m.known = puts[p].payload.version /\ m.seed \in {Nothing, tab[t].seed}
      /\ m.remote = tab[t].remote /\ (seedKind \/ m.seed = tab[t].seed)
  BY <1>3 DEF Memory, Payload
<1> HIDE DEF m
<1>8. tab'[t] = m /\ tab' \in [Tab -> Memory] /\ \A u \in Tab : u # t => tab'[u] = tab[u]
  BY <1>3, <1>6, <1>7 DEF KInv, TypeOK
<1>9. Fits(tab[t])
  BY <1>1, <1>3, <1>5, TabFits
<1>10. durable /\ Ordered' =>
         /\ UpTo(puts[p].payload) /\ Covers(vault.deposits, puts[p].payload.deposits)
         /\ Covers(tab[t].cache, puts[p].payload.deposits)
  BY <1>1, <1>3, <1>5, OrderedBefore, NothingAssumption DEF PutOK
<1>11. durable /\ Ordered' /\ m.known >= vault.version => Covers(m.cache, vault.deposits)
  BY <1>3, <1>7, <1>10, CoversTransitive DEF UpTo, Payload
<1>12. Fits(m)
  BY <1>7, <1>9, <1>10, <1>11 DEF Fits, UpTo
<1>13. TabFollows(p)
  BY <1>7, <1>8, <1>12, CoversItself DEF TabFollows, Grows, KeepsSeed
<1>14. NeverMemoryOnly'
  <2>1. CASE ~(durable /\ ~seedKind)
    BY <1>1, <1>2, <1>5, <2>1, StoredStill
  <2>2. CASE durable /\ ~seedKind
    <3> SUFFICES ASSUME raced' = {}, NEW n \in saved
                 PROVE  (\E a \in Browser : n \in local'[a].held) \/ n \in vault.deposits.held
      BY <1>1, <2>2 DEF NeverMemoryOnly
    <3>1. Covers(puts[p].payload.deposits, local[b]) /\ Ordered'
      BY <1>2, <1>4, <2>2 DEF Ordered
    <3>2. (\E a \in Browser : n \in local[a].held) \/ n \in vault.deposits.held
      BY <1>5 DEF KInv, NeverMemoryOnly
    <3>3. n \in local[b].held => n \in vault.deposits.held
      BY <1>10, <2>2, <3>1 DEF Covers
    <3>4. \A a \in Browser : a # b => local'[a] = local[a]
      BY <1>2, <2>2 DEF KInv, TypeOK
    <3> QED
      BY <3>2, <3>3, <3>4
  <2> QED
    BY <2>1, <2>2
<1>15. seedKind => puts[p].payload.seed \in made
  BY <1>1, <1>3 DEF PutOK
<1>16. Around
  BY <1>1, <1>2, <1>3, <1>5, <1>14, <1>15, CurrentType, EmptyType DEF Around, KInv, TypeOK
<1> QED
  BY <1>1, <1>3, <1>13, <1>16, PutKInv

LEMMA RefetchKInv ==
  ASSUME KInv, NEW p \in Put, Refetch(p)
  PROVE  KInv'
<1> DEFINE r == [puts[p] EXCEPT !.pc = "fetched", !.payload = vault]
<1>1. /\ puts[p].pc = "refused" /\ puts[p].attempt = 1
      /\ UNCHANGED <<durable, vault, local, tab, saved, made, handed, raced, faults>>
  BY DEF Refetch
<1>2. InUse(p) /\ puts[p] \in Request /\ vault \in Payload
  BY <1>1, PutType DEF KInv, TypeOK
<1>3. puts' = [puts EXCEPT ![p] = r]
  <2>1. puts' = [[puts EXCEPT ![p] = [puts[p] EXCEPT !.pc = "fetched"]] EXCEPT ![p] = r]
    BY <1>2 DEF Refetch, KInv, TypeOK, Request
  <2> QED
    BY <2>1
<1>4. /\ r \in Request /\ r.pc = "fetched" /\ r.tab = puts[p].tab /\ r.payload = vault
      /\ r.kind = puts[p].kind /\ r.attempt = 1
  BY <1>1, <1>2 DEF Request
<1> HIDE DEF r
<1>5. Follows(p, puts[p]) /\ TabFollows(p)
  BY <1>1, <1>2, PutFollows
<1>6. UpTo(vault) /\ vault.seed \in made \cup {Nothing}
  BY <1>2, CoversItself DEF UpTo, Payload, KInv, VaultOK
<1>7. Follows(p, r)
  BY <1>1, <1>4, <1>5, <1>6 DEF Follows
<1>8. Around
  BY <1>1, StoredStill DEF Around, KInv, TypeOK
<1> QED
  BY <1>1, <1>2, <1>3, <1>5, <1>7, <1>8, PutKInv

LEMMA RetryKInv ==
  ASSUME KInv, NEW p \in Put, Retry(p)
  PROVE  KInv'
<1> DEFINE t == puts[p].tab
           remote == puts[p].payload
           full == [tab[t] EXCEPT !.cache = Merge(@, remote.deposits), !.known = remote.version,
                                  !.seed = IF @ = Nothing THEN remote.seed ELSE @]
           m == IF remote.version = 0 THEN tab[t] ELSE full
           r == [puts[p] EXCEPT !.pc = "sent", !.attempt = @ + 1, !.payload = PayloadOf(m)]
<1>1. /\ puts[p].pc = "fetched" /\ tab' = [tab EXCEPT ![t] = m]
      /\ UNCHANGED <<durable, vault, local, saved, made, handed, raced, faults>>
  BY DEF Retry
<1>2. /\ InUse(p) /\ puts[p] \in Request /\ remote \in Payload /\ t \in Tab /\ t # Nothing
      /\ tab[t] \in Memory /\ tab[t].status = "unlocked" /\ vault \in Payload
      /\ puts[p].attempt = 1 /\ PutOK(p)
  BY <1>1, PutType, NothingAssumption DEF KInv, TypeOK, PutOK, Request
<1>3. puts' = [puts EXCEPT ![p] = r]
  <2> DEFINE r1 == [puts[p] EXCEPT !.pc = "sent"]
             r2 == [r1 EXCEPT !.attempt = puts[p].attempt + 1]
  <2>1. puts' = [[[puts EXCEPT ![p] = r1] EXCEPT ![p] = r2] EXCEPT ![p] = r]
    BY <1>2 DEF Retry, KInv, TypeOK, Request
  <2> QED
    BY <2>1
<1>4. Fits(tab[t])
  BY <1>1, <1>2, TabFits
<1>5. /\ Merge(tab[t].cache, remote.deposits) \in Deposits
      /\ Covers(Merge(tab[t].cache, remote.deposits), tab[t].cache)
      /\ Covers(Merge(tab[t].cache, remote.deposits), remote.deposits)
  BY <1>2, MergeType DEF Memory, Payload
<1>6. /\ full \in Memory /\ full.status = "unlocked" /\ full.cache = Merge(tab[t].cache, remote.deposits)
      /\ full.known = remote.version /\ full.remote = tab[t].remote
      /\ full.seed = IF tab[t].seed = Nothing THEN remote.seed ELSE tab[t].seed
  BY <1>2, <1>5 DEF Memory, Payload
<1> HIDE DEF full
<1>7. m \in Memory /\ m.status = "unlocked" /\ m.remote = tab[t].remote /\ Covers(m.cache, tab[t].cache)
  BY <1>2, <1>5, <1>6, CoversItself
<1>8. remote.seed \in made \cup {Nothing} /\ (puts[p].kind = "seed" => tab[t].seed # Nothing)
  BY <1>2 DEF PutOK
<1>9. m.seed \in made \cup {Nothing} /\ KeepsSeed(t, m)
  BY <1>1, <1>4, <1>6, <1>8 DEF Fits, KeepsSeed
<1>10. durable /\ Ordered' => UpTo(remote)
  BY <1>1, <1>2, OrderedBefore DEF PutOK
<1>11. durable /\ Ordered' => m.known <= vault.version
  BY <1>4, <1>6, <1>10 DEF Fits, UpTo
<1>12. durable /\ Ordered' /\ m.known >= vault.version => Covers(m.cache, vault.deposits)
  <2>1. CASE remote.version = 0
    BY <1>2, <1>4, <2>1 DEF Fits
  <2>2. CASE remote.version # 0
    BY <1>2, <1>5, <1>6, <1>10, <2>2, CoversTransitive DEF UpTo, Payload
  <2> QED
    BY <2>1, <2>2
<1> HIDE DEF m
<1>13. Fits(m) /\ Grows(t, m)
  BY <1>1, <1>4, <1>7, <1>9, <1>11, <1>12 DEF Fits, Grows
<1>14. PayloadOf(m) \in Payload /\ PayloadOf(m).version = m.known + 1
       /\ PayloadOf(m).deposits = m.cache /\ PayloadOf(m).seed = m.seed /\ m.known \in Nat
  BY <1>7 DEF PayloadOf, Payload, Memory
<1>15. /\ r \in Request /\ r.pc = "sent" /\ r.tab = t /\ r.payload = PayloadOf(m)
       /\ r.kind = puts[p].kind
  <2> DEFINE r1 == [puts[p] EXCEPT !.pc = "sent"]
             r2 == [r1 EXCEPT !.attempt = 2]
  <2>1. r1 \in Request /\ r1.pc = "sent" /\ r1.tab = t /\ r1.kind = puts[p].kind /\ r1.attempt = 1
    BY <1>2 DEF Request
  <2>2. r = [r2 EXCEPT !.payload = PayloadOf(m)]
    BY <1>2
  <2> HIDE DEF r, r1
  <2>3. r2 \in Request /\ r2.pc = "sent" /\ r2.tab = t /\ r2.kind = puts[p].kind
    BY <2>1 DEF Request
  <2> HIDE DEF r2
  <2> QED
    BY <1>14, <2>2, <2>3 DEF Request
<1> HIDE DEF r
<1>16. tab'[t] = m /\ tab' \in [Tab -> Memory] /\ \A u \in Tab : u # t => tab'[u] = tab[u]
  BY <1>1, <1>2, <1>7 DEF KInv, TypeOK
<1>17. durable /\ Ordered' =>
         /\ r.payload.version \in 1 .. vault.version + 1
         /\ r.payload.version > vault.version => Covers(r.payload.deposits, vault.deposits)
  BY <1>2, <1>11, <1>12, <1>14, <1>15 DEF Payload
<1>18. Covers(tab'[t].cache, r.payload.deposits)
  BY <1>14, <1>15, <1>16, CoversItself
<1>19. puts[p].kind = "seed" => m.seed # Nothing
  BY <1>8, <1>9 DEF KeepsSeed
<1>20. Follows(p, r)
  BY <1>7, <1>9, <1>14, <1>15, <1>16, <1>17, <1>18, <1>19, <1>2 DEF Follows
<1>21. TabFollows(p)
  BY <1>9, <1>13, <1>16 DEF TabFollows
<1>22. Around
  BY <1>1, StoredStill DEF Around, KInv, TypeOK
<1> QED
  BY <1>1, <1>2, <1>3, <1>20, <1>21, <1>22, PutKInv

(* An abandoned request is one that nobody waits for. *)
LEMMA AbandonedType ==
  ASSUME KInv, NEW p \in Put, InUse(p)
  PROVE  \/ Abandoned(puts[p]) = Idle
         \/ /\ Abandoned(puts[p]) \in Request /\ Abandoned(puts[p]).pc = puts[p].pc
            /\ puts[p].pc \in {"sent", "checked"} /\ Abandoned(puts[p]).kind = "save"
            /\ Abandoned(puts[p]).tab = Nothing /\ Abandoned(puts[p]).payload = puts[p].payload
<1>1. puts[p] \in Request
  BY PutType DEF KInv
<1> DEFINE r1 == [puts[p] EXCEPT !.tab = Nothing]
           r2 == [r1 EXCEPT !.kind = "save"]
           r3 == [r2 EXCEPT !.attempt = 1]
<1>2. /\ r1 \in Request /\ r1.pc = puts[p].pc /\ r1.tab = Nothing /\ r1.payload = puts[p].payload
  BY <1>1 DEF Request
<1>3. Abandoned(puts[p]) = IF puts[p].pc \in {"sent", "checked"} THEN r3 ELSE Idle
  BY DEF Abandoned
<1> HIDE DEF r1
<1>4. /\ r2 \in Request /\ r2.pc = puts[p].pc /\ r2.kind = "save" /\ r2.tab = Nothing
      /\ r2.payload = puts[p].payload
  BY <1>2 DEF Request
<1> HIDE DEF r2
<1>5. /\ r3 \in Request /\ r3.pc = puts[p].pc /\ r3.kind = "save" /\ r3.tab = Nothing
      /\ r3.payload = puts[p].payload
  BY <1>4 DEF Request
<1> HIDE DEF r3
<1> QED
  BY <1>3, <1>5

LEMMA AbandonedFollows ==
  ASSUME KInv, NEW p \in Put, InUse(p), raced \subseteq raced'
  PROVE  Abandoned(puts[p]) = Idle \/ Follows(p, Abandoned(puts[p]))
BY AbandonedType, OrderedBefore DEF Follows, KInv, PutOK

LEMMA FailKInv ==
  ASSUME KInv, NEW p \in Put, Fail(p)
  PROVE  KInv'
<1> DEFINE t == puts[p].tab
           b == BrowserOf[t]
           m == [tab[t] EXCEPT !.seed = Nothing]
           browser == Lost(local[b], tab[t].cache, "browser")
<1>1. /\ InUse(p) /\ t # Nothing
      /\ faults' = faults \/ Fault
      /\ tab' = IF puts[p].kind = "seed" THEN [tab EXCEPT ![t] = m] ELSE tab
      /\ puts' = [puts EXCEPT ![p] = Abandoned(puts[p])]
      /\ UNCHANGED <<durable, vault, saved, made, handed>>
  BY DEF Fail, InUse
<1>2. /\ puts[p].kind = "unlock" =>
           local' = [local EXCEPT ![b] = tab[t].cache] /\ raced' = raced \cup browser
      /\ puts[p].kind # "unlock" => UNCHANGED <<local, raced>>
  BY DEF Fail
<1>3. /\ t \in Tab /\ tab[t] \in Memory /\ tab[t].status = "unlocked"
      /\ tab[t].cache \in Deposits
  BY <1>1, PutType DEF KInv, TypeOK, PutOK, Request, Memory
<1>4. browser \subseteq Races /\ (~Covers(tab[t].cache, local[b]) => "browser" \in browser)
  BY LostIs DEF Races
<1> HIDE DEF browser
<1>5. raced \subseteq raced' /\ raced' \subseteq Races
  BY <1>2, <1>4 DEF KInv, TypeOK
<1>6. /\ m \in Memory /\ m.status = "unlocked" /\ m.cache = tab[t].cache /\ m.known = tab[t].known
      /\ m.seed = Nothing /\ m.remote = tab[t].remote
  BY <1>3 DEF Memory
<1> HIDE DEF m
<1>7. Fits(tab[t])
  BY <1>1, <1>3, <1>5, TabFits
<1>8. Fits(m) /\ Grows(t, m) /\ Grows(t, tab[t]) /\ KeepsSeed(t, tab[t])
  BY <1>3, <1>6, <1>7, CoversItself DEF Fits, Grows, KeepsSeed
<1>9. tab'[t] = (IF puts[p].kind = "seed" THEN m ELSE tab[t]) /\ tab' \in [Tab -> Memory]
      /\ \A u \in Tab : u # t => tab'[u] = tab[u]
  BY <1>1, <1>3, <1>6 DEF KInv, TypeOK
<1>10. TabFollows(p)
  BY <1>7, <1>8, <1>9 DEF TabFollows
<1>11. NeverMemoryOnly'
  <2>1. CASE puts[p].kind = "unlock"
    BY <1>1, <1>2, <1>3, <1>4, <1>5, <2>1, CurrentType, StoredReplaced
  <2>2. CASE puts[p].kind # "unlock"
    BY <1>1, <1>2, <1>5, <2>2, StoredStill
  <2> QED
    BY <2>1, <2>2
<1>12. Around
  BY <1>1, <1>2, <1>3, <1>5, <1>11, CurrentType, BoundsAssumption DEF Around, KInv, TypeOK, Fault
<1> QED
  BY <1>1, <1>5, <1>10, <1>12, AbandonedFollows, PutKInv

LEMMA LoseKInv ==
  ASSUME KInv, NEW p \in Put, Lose(p)
  PROVE  KInv'
<1>1. InUse(p) /\ puts' = [puts EXCEPT ![p] = Idle]
      /\ UNCHANGED <<durable, vault, local, tab, saved, made, handed, raced, faults>>
  BY PutType DEF Lose, KInv
<1>2. Around
  BY <1>1, StoredStill DEF Around, KInv, TypeOK
<1> QED
  BY <1>1, <1>2, PutFollows, PutKInv

(* A tab that closes abandons all its puts. *)
LEMMA CloseKInv ==
  ASSUME KInv, NEW t \in Tab, Close(t)
  PROVE  KInv'
<1>1. /\ Fault /\ tab' = [tab EXCEPT ![t] = NewTab]
      /\ puts' = [p \in Put |-> IF p \in Waiting(t) THEN Abandoned(puts[p]) ELSE puts[p]]
      /\ UNCHANGED <<durable, vault, local, saved, made, handed, raced>>
  BY DEF Close
<1>2. Around
  BY <1>1, BoundsAssumption, StoredStill DEF Around, KInv, TypeOK, Fault
<1>3. tab'[t] = NewTab /\ \A u \in Tab : u # t => tab'[u] = tab[u]
  BY <1>1 DEF KInv, TypeOK
<1>4. Fits(NewTab)
  <2>1. /\ NewTab.status = "locked" /\ NewTab.seed = Nothing /\ NewTab.known = 0
        /\ NewTab.remote = NoVault /\ NoVault.seed = Nothing /\ vault.version \in Nat
    BY DEF NewTab, NoVault, KInv, TypeOK, Payload
  <2>2. durable /\ Ordered' => UpTo(NoVault)
    BY <1>1, OrderedBefore DEF KInv, VaultOK
  <2> QED
    BY <2>1, <2>2, EmptyType DEF Fits
<1>5. ASSUME NEW u \in Tab
      PROVE  TabOK(u)'
  <2>1. Fits(tab'[u])
    BY <1>2, <1>3, <1>4, TabFits DEF Around
  <2> QED
    BY <1>2, <2>1, TabStill
<1>6. ASSUME NEW p \in Put, p \in Waiting(t)
      PROVE  /\ InUse(p)' => PutOK(p)' /\ puts'[p].kind = "save"
             /\ puts'[p] \in Request \cup {Idle}
  <2>1. puts'[p] = Abandoned(puts[p]) /\ InUse(p) /\ PutOK(p)
    BY <1>1, <1>6 DEF KInv, Waiting, InUse
  <2>2. CASE Abandoned(puts[p]) = Idle
    BY <2>1, <2>2 DEF InUse
  <2>3. CASE Abandoned(puts[p]) # Idle
    BY <1>1, <2>1, <2>3, AbandonedType DEF PutOK, Ordered
  <2> QED
    BY <2>2, <2>3
<1>7. ASSUME NEW p \in Put, p \notin Waiting(t)
      PROVE  puts'[p] = puts[p] /\ (InUse(p)' => InUse(p) /\ PutOK(p)')
  <2>1. puts'[p] = puts[p]
    BY <1>1, <1>7
  <2>2. ASSUME InUse(p)
        PROVE  PutOK(p)'
    <3>1. puts[p].tab # t /\ puts[p].tab \in Tab \cup {Nothing} /\ PutOK(p)
      BY <1>7, <2>2, PutType DEF Waiting, InUse, KInv, Request
    <3>2. puts[p].tab # Nothing =>
            /\ Grows(puts[p].tab, tab'[puts[p].tab])
            /\ puts[p].kind = "seed" => tab'[puts[p].tab].seed # Nothing
      BY <1>3, <3>1, CoversItself DEF Grows, PutOK
    <3> QED
      BY <1>2, <2>1, <2>2, <3>2, PutStill
  <2> QED
    BY <2>1, <2>2 DEF InUse
<1>8. TypeOK'
  <2>1. puts' \in [Put -> Request \cup {Idle}]
    BY <1>1, <1>6, <1>7 DEF KInv, TypeOK
  <2>2. tab' \in [Tab -> Memory]
    BY <1>1, EmptyType DEF KInv, TypeOK
  <2> QED
    BY <1>1, <1>2, <2>1, <2>2 DEF KInv, TypeOK, Around
<1>9. SeedAlone'
  BY <1>6, <1>7 DEF SeedAlone, KInv
<1> QED
  BY <1>2, <1>5, <1>6, <1>7, <1>8, <1>9, VaultStill DEF KInv, Around

-----------------------------------------------------------------------------
(* Steps that change the record *)

(* What is written, while no put races, is of a later version than anything *)
(* anyone has seen, and holds all there was.                                *)
LEMMA WriteAdvances ==
  ASSUME KInv, NEW p \in Put, Write(p), durable, Ordered'
  PROVE  /\ Ordered /\ vault' = puts[p].payload
         /\ vault'.version = vault.version + 1
         /\ Covers(vault'.deposits, vault.deposits)
<1>1. /\ puts[p].pc = "checked" /\ vault' = puts[p].payload
      /\ raced' = IF Stale(p) THEN raced \cup {"put"} ELSE raced
  BY DEF Write
<1>2. InUse(p) /\ PutOK(p) /\ puts[p].payload \in Payload /\ vault.version \in Nat
  BY <1>1, PutType DEF KInv, TypeOK, Request, Payload
<1>3. ~Stale(p) /\ Ordered
  BY <1>1 DEF Ordered
<1>4. puts[p].payload.version \in 1 .. vault.version + 1
  BY <1>1, <1>2, <1>3 DEF PutOK
<1>5. puts[p].payload.version > vault.version
  BY <1>2, <1>3, <1>4 DEF Stale, Payload
<1> QED
  BY <1>1, <1>2, <1>3, <1>4, <1>5 DEF PutOK

LEMMA WriteKInv ==
  ASSUME KInv, NEW p \in Put, Write(p)
  PROVE  KInv'
<1>1. /\ puts[p].pc = "checked" /\ vault' = puts[p].payload
      /\ raced \subseteq raced' /\ raced' \subseteq Races
      /\ UNCHANGED <<durable, local, tab, saved, made, handed, faults>>
  BY DEF Write, KInv, TypeOK, Races
<1>2. /\ InUse(p) /\ puts[p] \in Request /\ PutOK(p) /\ puts[p].payload \in Payload
      /\ vault.version \in Nat
  BY <1>1, PutType DEF KInv, TypeOK, Request, Payload
<1> DEFINE written == [puts[p] EXCEPT !.pc = "written"]
           r == IF puts[p].tab # Nothing THEN written ELSE Idle
<1>3. puts' = [puts EXCEPT ![p] = r]
  BY DEF Write
<1>4. /\ written \in Request /\ written.pc = "written" /\ written.tab = puts[p].tab
      /\ written.payload = puts[p].payload /\ written.kind = puts[p].kind /\ written.attempt = puts[p].attempt
  BY <1>2 DEF Request
<1> HIDE DEF written
<1>5. /\ puts'[p] = r /\ \A q \in Put : q # p => puts'[q] = puts[q]
      /\ r \in Request \cup {Idle}
  BY <1>3, <1>4 DEF KInv, TypeOK
<1>6. TypeOK'
  BY <1>1, <1>2, <1>3, <1>5 DEF KInv, TypeOK
<1>7. durable /\ Ordered' =>
        /\ Ordered /\ vault'.version = vault.version + 1 /\ Covers(vault'.deposits, vault.deposits)
  BY WriteAdvances
<1>8. VaultOK'
  BY <1>1, <1>2, <1>7 DEF VaultOK, PutOK, UpTo, NoVault
<1>9. ASSUME NEW u \in Tab
      PROVE  TabOK(u)'
  <2>1. TabOK(u) /\ tab[u].known \in Nat /\ tab[u].remote.version \in Nat
    BY DEF KInv, TypeOK, Memory, Payload
  <2> QED
    BY <1>1, <1>2, <1>7, <2>1 DEF TabOK, UpTo
<1>10. ASSUME InUse(p)'
       PROVE  PutOK(p)'
  <2>1. puts[p].tab # Nothing /\ puts'[p] = written
    BY <1>5, <1>10 DEF InUse
  <2>2. /\ puts'[p].pc = "written" /\ puts'[p].tab = puts[p].tab
        /\ puts'[p].payload = puts[p].payload /\ puts'[p].kind = puts[p].kind
    BY <1>4, <2>1
  <2>3. durable /\ Ordered' => Covers(tab[puts[p].tab].cache, puts[p].payload.deposits)
    BY <1>1, <1>2, <1>7, <2>1 DEF PutOK
  <2>4. UpTo(puts[p].payload)' /\ Covers(vault'.deposits, puts'[p].payload.deposits)
    BY <1>1, <1>2, <2>2, CoversItself DEF UpTo, Payload
  <2>5. /\ puts[p].payload.seed \in made \cup {Nothing} /\ tab[puts[p].tab].status = "unlocked"
        /\ puts[p].kind = "seed" => tab[puts[p].tab].seed # Nothing /\ puts[p].payload.seed # Nothing
    BY <1>1, <1>2, <2>1 DEF PutOK
  <2> QED
    BY <1>1, <2>1, <2>2, <2>3, <2>4, <2>5 DEF PutOK, UpTo
<1>11. ASSUME NEW q \in Put, q # p, InUse(q)'
       PROVE  PutOK(q)'
  <2>1. puts'[q] = puts[q] /\ InUse(q) /\ PutOK(q) /\ puts[q].payload.version \in Nat
    BY <1>5, <1>11, PutType DEF InUse, KInv, Request, Payload
  <2>2. durable /\ Ordered' /\ puts[q].pc \in {"sent", "checked"} =>
          puts[q].payload.version \in 1 .. vault'.version + 1 /\ ~(puts[q].payload.version > vault'.version)
    BY <1>2, <1>7, <2>1 DEF PutOK
  <2>3. durable /\ Ordered' /\ puts[q].pc \in {"written", "fetched"} => UpTo(puts[q].payload)'
    BY <1>2, <1>5, <1>7, <1>11, <2>1 DEF PutOK, UpTo
  <2>4. durable /\ Ordered' /\ puts[q].pc = "written" => Covers(vault'.deposits, puts[q].payload.deposits)
    BY <1>7, <2>1, CoversTransitive DEF PutOK
  <2> QED
    BY <1>1, <1>7, <2>1, <2>2, <2>3, <2>4 DEF PutOK, UpTo
<1>12. SeedAlone'
  <2>1. \A q \in Put : InUse(q)' => InUse(q) /\ puts'[q].kind = puts[q].kind /\ puts'[q].tab = puts[q].tab
    BY <1>2, <1>4, <1>5 DEF InUse
  <2> QED
    BY <2>1 DEF SeedAlone, KInv
<1>13. NeverMemoryOnly'
  <2> SUFFICES ASSUME raced' = {}, NEW n \in saved
               PROVE  (\E b \in Browser : n \in local[b].held) \/ (durable /\ n \in vault'.deposits.held)
    BY <1>1 DEF NeverMemoryOnly
  <2>1. (\E b \in Browser : n \in local[b].held) \/ (durable /\ n \in vault.deposits.held)
    BY <1>1 DEF KInv, NeverMemoryOnly
  <2> QED
    BY <1>7, <2>1 DEF Covers, Ordered
<1> QED
  BY <1>6, <1>8, <1>9, <1>10, <1>11, <1>12, <1>13 DEF KInv

LEMMA RestartKInv ==
  ASSUME KInv, Restart
  PROVE  KInv'
<1>1. ~durable /\ Fault /\ vault' = NoVault
      /\ UNCHANGED <<durable, local, tab, puts, saved, made, handed, raced>>
  BY DEF Restart
<1>2. TypeOK'
  BY <1>1, EmptyType, BoundsAssumption DEF KInv, TypeOK, Fault
<1>3. VaultOK'
  BY <1>1 DEF VaultOK, NoVault
<1>4. \A t \in Tab : TabOK(t)'
  BY <1>1 DEF KInv, TabOK
<1>5. \A p \in Put : InUse(p)' => PutOK(p)'
  BY <1>1 DEF KInv, PutOK, InUse
<1>6. SeedAlone' /\ NeverMemoryOnly'
  BY <1>1 DEF KInv, SeedAlone, NeverMemoryOnly, InUse
<1> QED
  BY <1>2, <1>3, <1>4, <1>5, <1>6 DEF KInv

LEMMA StutterKInv ==
  ASSUME KInv, UNCHANGED vars
  PROVE  KInv'
<1>1. TypeOK'
  BY DEF KInv, TypeOK, vars
<1>2. VaultOK' /\ (\A t \in Tab : TabOK(t)') /\ (\A p \in Put : InUse(p)' => PutOK(p)')
  BY DEF KInv, VaultOK, TabOK, PutOK, InUse, UpTo, Ordered, vars
<1>3. SeedAlone' /\ NeverMemoryOnly'
  BY DEF KInv, SeedAlone, NeverMemoryOnly, InUse, vars
<1> QED
  BY <1>1, <1>2, <1>3 DEF KInv

LEMMA NextKInv ==
  ASSUME KInv, [Next]_vars
  PROVE  KInv'
<1>1. CASE UNCHANGED vars
  BY <1>1, StutterKInv
<1>2. ASSUME NEW t \in Tab, TabStep(t)
      PROVE  KInv'
  <2>1. ASSUME NEW n \in Note, Deposit(t, n) \/ MarkSpent(t, n) \/ BeginWithdraw(t, n)
        PROVE  KInv'
    BY <2>1, DepositKInv, MarkSpentKInv, BeginWithdrawKInv
  <2>2. ASSUME NEW change \in {{}} \cup {{n} : n \in Note}, FinishWithdraw(t, change)
        PROVE  KInv'
    BY <2>2, FinishWithdrawKInv
  <2>3. ASSUME NEW s \in Seed, EnsureSeed(t, s)
        PROVE  KInv'
    BY <2>3, EnsureSeedKInv
  <2> QED
    BY <1>2, <2>1, <2>2, <2>3, UnlockKInv, UnlockFailsKInv, UnlockAppliesKInv, CloseKInv DEF TabStep
<1>3. ASSUME NEW p \in Put, PutStep(p)
      PROVE  KInv'
  BY <1>3, CheckKInv, WriteKInv, ConfirmKInv, RefetchKInv, RetryKInv, FailKInv, LoseKInv DEF PutStep
<1> QED
  BY <1>1, <1>2, <1>3, RestartKInv DEF Next

-----------------------------------------------------------------------------
(* The vault grows *)

LEMMA OnlyWriteChangesVault ==
  ASSUME [Next]_vars
  PROVE  (\E p \in Put : Write(p)) \/ Restart \/ UNCHANGED <<durable, vault>>
<1>1. CASE UNCHANGED vars
  BY <1>1 DEF vars
<1>2. ASSUME NEW t \in Tab, TabStep(t)
      PROVE  UNCHANGED <<durable, vault>>
  BY <1>2 DEF TabStep, Deposit, MarkSpent, BeginWithdraw, FinishWithdraw, Unlock, UnlockFails,
              UnlockApplies, EnsureSeed, Close
<1>3. ASSUME NEW p \in Put, PutStep(p), ~Write(p)
      PROVE  UNCHANGED <<durable, vault>>
  BY <1>3 DEF PutStep, Check, Confirm, Refetch, Retry, Fail, Lose
<1> QED
  BY <1>1, <1>2, <1>3 DEF Next

LEMMA VaultGrows ==
  ASSUME KInv, [Next]_vars
  PROVE  durable /\ Ordered' => Covers(vault'.deposits, vault.deposits)
<1>1. CASE UNCHANGED <<durable, vault>>
  BY <1>1, CoversItself
<1>2. ASSUME NEW p \in Put, Write(p)
      PROVE  durable /\ Ordered' => Covers(vault'.deposits, vault.deposits)
  BY <1>2, WriteAdvances
<1>3. CASE Restart
  BY <1>3 DEF Restart
<1> QED
  BY <1>1, <1>2, <1>3, OnlyWriteChangesVault

-----------------------------------------------------------------------------
(* The theorems *)

(* The inductive invariant of the vault: versions only stand for deposits    *)
(* that their holders have, and a put in flight is no further than the tab   *)
(* that sent it, until a stale put is written or an older list comes back.   *)
THEOREM Invariant == Spec => []KInv
<1>1. KInv /\ [Next]_vars => KInv'
  BY NextKInv
<1> QED
  BY InitKInv, <1>1, PTL DEF Spec

(* The records of the tabs, the requests and the route keep their types. *)
THEOREM TypeCorrect == Spec => []TypeOK
<1>1. KInv => TypeOK
  BY DEF KInv
<1> QED
  BY <1>1, Invariant, PTL

(* Whoever knows the current version of the record holds all it holds: the   *)
(* number that PUT /api/vault compares stands for the deposits.              *)
THEOREM Knowledge == Spec => []VersionIsKnowledge
<1>1. ASSUME KInv
      PROVE  VersionIsKnowledge
  <2>1. \A p \in Put : puts[p].pc \in {"sent", "checked"} => PutOK(p)
    BY <1>1, PutType DEF KInv
  <2> QED
    BY <1>1, <2>1 DEF KInv, VersionIsKnowledge, TabOK, PutOK
<1> QED
  BY <1>1, Invariant, PTL

(* A durable vault loses no note and no spent mark, with any number of tabs  *)
(* and of requests (PUT /api/vault, persist, unlockVault), until a stale put *)
(* is written or an older list comes back.                                   *)
THEOREM Keeps == Spec => VaultKeeps
<1>1. KInv /\ [Next]_vars => [durable /\ Ordered' => Covers(vault'.deposits, vault.deposits)]_vars
  BY VaultGrows
<1> QED
  BY <1>1, Invariant, PTL DEF Spec, VaultKeeps

(* A saved note is in localStorage or in a durable vault, whatever fails or  *)
(* closes, with any number of tabs in a browser, until one of the four races *)
(* takes something away (saveVaultDeposits, unlockVault).                    *)
THEOREM SecretsStored == Spec => []NeverMemoryOnly
<1>1. KInv => NeverMemoryOnly
  BY DEF KInv
<1> QED
  BY <1>1, Invariant, PTL
=============================================================================
