------------------------------ MODULE X402Proofs ------------------------------
(***************************************************************************)
(* Proofs about private x402 payments: the settlement on the EVM, for any  *)
(* sellers and any number of attempts, calls and expiries, and, in the     *)
(* second part, the payments from the Solana pool, for any users' notes,   *)
(* payments, requests, orders and faults.                                  *)
(*                                                                         *)
(* The argument of the first part.  What a post has started is bound to    *)
(* how far it got: its withdrawal is with /api/withdraw only from its      *)
(* dispatch on, in the mempool only from its broadcast on, and at one of   *)
(* these places or on chain, never at two.  So a post that is rejected, or *)
(* that has not dispatched, spends nothing any more; a post that read a    *)
(* successful receipt is the one that spent the note, and what it stores   *)
(* or answers is its own header.  And since a withdrawal in doubt keeps    *)
(* its lease, a lock found free means that none is in doubt.               *)
(***************************************************************************)
EXTENDS SettleX402, SvmPayment, FiniteSetTheorems, SequenceTheorems, TLAPS

(* Only a post that has ended has answered. *)
AnswersOK == \A p \in DOMAIN posts : posts[p].answer # "none" => posts[p].pc = "ended"

(* The withdrawal of a post goes from /api/withdraw to the mempool to the    *)
(* chain, while the post goes on or ends.                                    *)
WithdrawalsOK ==
  /\ \A p \in asked : posts[p].pc \in {"dispatched", "ended"} /\ p \notin mempool /\ p # spentBy
  /\ \A p \in mempool : posts[p].pc \in {"sent", "ended"} /\ p # spentBy
  /\ spentBy # 0 => posts[spentBy].pc \in {"sent", "paid", "ended"}

PaidOK == \A p \in DOMAIN posts : posts[p].pc = "paid" => spentBy = p

(* A call under way pays somebody. *)
ClientOK == client.active => client.payTo \in Seller

IInv ==
  /\ TypeOK
  /\ ClientOK
  /\ AnswersOK
  /\ WithdrawalsOK
  /\ PaidOK
  /\ SettledIsFunded
  /\ RecordIsTheSpend
  /\ BareRefusalDidNotSpend
  /\ LeaseCoversDoubt

-----------------------------------------------------------------------------
(* What a step of a post does to the posts. *)
LEMMA PostsDomain ==
  ASSUME posts \in Seq(Post)
  PROVE  /\ Len(posts) \in Nat /\ DOMAIN posts = 1 .. Len(posts)
         /\ \A p \in DOMAIN posts : posts[p] \in Post
BY LenProperties, ElementOfSeq

LEMMA UpdatePosts ==
  ASSUME posts \in Seq(Post), NEW p \in DOMAIN posts, NEW r \in Post,
         posts' = [posts EXCEPT ![p] = r]
  PROVE  /\ posts' \in Seq(Post) /\ Len(posts') = Len(posts) /\ DOMAIN posts' = DOMAIN posts
         /\ \A q \in DOMAIN posts : q # p => posts'[q] = posts[q]
         /\ posts'[p] = r
<1>1. p \in 1 .. Len(posts)
  BY PostsDomain
<1>2. posts' \in Seq(Post) /\ Len(posts') = Len(posts)
  BY <1>1, ExceptSeq
<1> QED
  BY <1>2

LEMMA GotoPosts ==
  ASSUME posts \in Seq(Post), NEW p \in DOMAIN posts, NEW pc \in PC, Goto(p, pc)
  PROVE  /\ posts' \in Seq(Post) /\ Len(posts') = Len(posts) /\ DOMAIN posts' = DOMAIN posts
         /\ \A q \in DOMAIN posts : q # p => posts'[q] = posts[q]
         /\ posts'[p].pc = pc /\ posts'[p].payTo = posts[p].payTo
         /\ posts'[p].answer = posts[p].answer /\ posts'[p].header = posts[p].header
<1>1. posts[p] \in Post
  BY PostsDomain
<1>2. [posts[p] EXCEPT !.pc = pc] \in Post
  BY <1>1 DEF Post
<1>3. posts' = [posts EXCEPT ![p] = [posts[p] EXCEPT !.pc = pc]]
  BY DEF Goto
<1> QED
  BY <1>1, <1>2, <1>3, UpdatePosts DEF Post

LEMMA AnswerPosts ==
  ASSUME posts \in Seq(Post), NEW p \in DOMAIN posts,
         NEW kind \in Kind, NEW header \in Seller \cup {Nobody}, Answer(p, kind, header)
  PROVE  /\ posts' \in Seq(Post) /\ Len(posts') = Len(posts) /\ DOMAIN posts' = DOMAIN posts
         /\ \A q \in DOMAIN posts : q # p => posts'[q] = posts[q]
         /\ posts'[p].pc = "ended" /\ posts'[p].payTo = posts[p].payTo
         /\ posts'[p].answer = kind /\ posts'[p].header = header
<1> DEFINE r == [posts[p] EXCEPT !.pc = "ended", !.answer = kind, !.header = header]
<1>1. posts[p] \in Post
  BY PostsDomain
<1>2. r \in Post
  BY <1>1 DEF Post, PC
<1>3. posts' = [posts EXCEPT ![p] = r]
  <2>1. posts' = [[[posts EXCEPT ![p] = [posts[p] EXCEPT !.pc = "ended"]]
                     EXCEPT ![p] = [posts[p] EXCEPT !.pc = "ended", !.answer = kind]] EXCEPT ![p] = r]
    BY <1>1 DEF Answer
  <2> QED
    BY <2>1
<1>4. r.pc = "ended" /\ r.payTo = posts[p].payTo /\ r.answer = kind /\ r.header = header
  BY <1>1 DEF Post
<1> QED
  BY <1>2, <1>3, <1>4, UpdatePosts

(* Init satisfies the invariant. *)
LEMMA InitIInv == Init => IInv
<1> SUFFICES ASSUME Init PROVE IInv
  OBVIOUS
<1>1. posts \in Seq(Post) /\ Len(posts) = 0 /\ DOMAIN posts = {}
  BY EmptySeq DEF Init
<1>2. TypeOK
  BY <1>1, AttemptsAssumption, BoundsAssumption DEF Init, TypeOK, Client, Outcome
<1> QED
  BY <1>1, <1>2 DEF Init, IInv, ClientOK, AnswersOK, WithdrawalsOK, PaidOK, SettledIsFunded, RecordIsTheSpend,
     BareRefusalDidNotSpend, LeaseCoversDoubt

-----------------------------------------------------------------------------
(* The buyer *)

(* All of the invariant but the type of the buyer is about the route. *)
LEMMA ClientIInv ==
  ASSUME IInv, UNCHANGED <<storeVars, chainVars, posts>>,
         client' \in Client, client'.awaiting \in 0 .. Len(posts), ClientOK'
  PROVE  IInv'
BY DEF IInv, TypeOK, ClientOK, AnswersOK, WithdrawalsOK, PaidOK, SettledIsFunded, RecordIsTheSpend,
   BareRefusalDidNotSpend, LeaseCoversDoubt, storeVars, chainVars

LEMMA CallIInv ==
  ASSUME IInv, NEW seller \in Seller, Call(seller)
  PROVE  IInv'
<1>1. client \in Client /\ posts \in Seq(Post) /\ Len(posts) \in Nat
  BY PostsDomain DEF IInv, TypeOK
<1>2. client.calls + 1 \in 0 .. MaxCalls
  BY <1>1, BoundsAssumption DEF Call, Client
<1>3. client' \in Client /\ client'.awaiting = 0 /\ client'.payTo \in Seller
  BY <1>1, <1>2, AttemptsAssumption DEF Call, Client, Outcome
<1> QED
  BY <1>1, <1>3, ClientIInv DEF Call, ClientOK

LEMMA EndIInv ==
  ASSUME IInv, NEW outcome \in Outcome, NEW header \in Seller \cup {Nobody}, End(outcome, header),
         UNCHANGED <<storeVars, chainVars, posts>>
  PROVE  IInv'
<1>1. client \in Client /\ posts \in Seq(Post) /\ Len(posts) \in Nat
  BY PostsDomain DEF IInv, TypeOK
<1>2. client' \in Client /\ client'.awaiting = 0 /\ ~client'.active
  BY <1>1 DEF End, Client
<1> QED
  BY <1>1, <1>2, ClientIInv DEF ClientOK

LEMMA ReceiveIInv ==
  ASSUME IInv, Receive
  PROVE  IInv'
<1>1. client \in Client /\ posts \in Seq(Post) /\ client.awaiting \in DOMAIN posts
  BY PostsDomain DEF IInv, TypeOK, Receive
<1>2. posts[client.awaiting] \in Post
  BY <1>1, PostsDomain
<1>3. CASE End("settled", posts[client.awaiting].header)
  BY <1>2, <1>3, EndIInv DEF Receive, Post, Outcome
<1>4. CASE End("unspent", Nobody)
  BY <1>4, EndIInv DEF Receive, Outcome
<1>5. CASE client' = [client EXCEPT !.awaiting = 0]
  BY <1>1, <1>5, PostsDomain, ClientIInv DEF Receive, Client, ClientOK, IInv
<1> QED
  BY <1>3, <1>4, <1>5 DEF Receive

LEMMA LoseAnswerIInv ==
  ASSUME IInv, LoseAnswer
  PROVE  IInv'
<1>1. client \in Client /\ posts \in Seq(Post) /\ Len(posts) \in Nat
  BY PostsDomain DEF IInv, TypeOK
<1> QED
  BY <1>1, ClientIInv DEF LoseAnswer, Client, ClientOK, IInv

LEMMA GiveUpIInv ==
  ASSUME IInv, GiveUp
  PROVE  IInv'
BY EndIInv DEF GiveUp, Outcome

(* A new post has done nothing yet. *)
LEMMA AttemptIInv ==
  ASSUME IInv, Attempt
  PROVE  IInv'
<1> DEFINE n == Len(posts) + 1
           r == [payTo |-> client.payTo, pc |-> "arrived", answer |-> "none", header |-> Nobody]
<1>1. client \in Client /\ posts \in Seq(Post) /\ Len(posts) \in Nat /\ DOMAIN posts = 1 .. Len(posts)
  BY PostsDomain DEF IInv, TypeOK
<1>2. r \in Post
  BY DEF IInv, ClientOK, Attempt, Post, PC, Kind
<1>3. /\ posts' = Append(posts, r)
      /\ client' = [client EXCEPT !.attempts = @ + 1, !.awaiting = n]
      /\ UNCHANGED <<storeVars, chainVars>>
  BY DEF Attempt
<1>4. r.pc = "arrived" /\ r.answer = "none"
  OBVIOUS
<1> HIDE DEF r
<1>5. posts' \in Seq(Post) /\ Len(posts') = n /\ DOMAIN posts' = 1 .. n
  BY <1>1, <1>2, <1>3, AppendProperties, LenProperties
<1>6. posts'[n] = r /\ \A p \in DOMAIN posts : posts'[p] = posts[p]
  BY <1>1, <1>2, <1>3, AppendProperties
<1>7. n \notin DOMAIN posts /\ \A p \in DOMAIN posts' : p = n \/ p \in DOMAIN posts
  BY <1>1, <1>5
<1>8. client' \in Client /\ client'.awaiting = n /\ client'.payTo = client.payTo
      /\ client'.active = client.active
  <2>1. client.attempts + 1 \in 0 .. Attempts /\ n \in Nat
    BY <1>1, AttemptsAssumption DEF Attempt, Client
  <2> QED
    BY <1>1, <1>3, <2>1 DEF Client
<1>9. TypeOK'
  <2>1. lock' \in 0 .. n /\ spentBy' \in 0 .. n /\ client'.awaiting \in 0 .. n
    BY <1>1, <1>3, <1>8 DEF IInv, TypeOK, storeVars, chainVars
  <2>2. lapsed' \subseteq 1 .. n /\ asked' \cup mempool' \subseteq 1 .. n
    BY <1>1, <1>3 DEF IInv, TypeOK, storeVars, chainVars
  <2> QED
    BY <1>3, <1>5, <1>8, <2>1, <2>2 DEF IInv, TypeOK, storeVars
<1>12. ClientOK'
  BY <1>8 DEF IInv, ClientOK
<1>10. AnswersOK' /\ PaidOK' /\ WithdrawalsOK' /\ SettledIsFunded' /\ RecordIsTheSpend'
  BY <1>1, <1>3, <1>4, <1>6, <1>7 DEF IInv, TypeOK, AnswersOK, PaidOK, WithdrawalsOK, SettledIsFunded, RecordIsTheSpend,
     storeVars, chainVars
<1>11. BareRefusalDidNotSpend' /\ LeaseCoversDoubt'
  BY <1>1, <1>3, <1>4, <1>6, <1>7 DEF IInv, TypeOK, BareRefusalDidNotSpend, LeaseCoversDoubt,
     storeVars, chainVars
<1> QED
  BY <1>9, <1>10, <1>11, <1>12 DEF IInv

-----------------------------------------------------------------------------
(* The route *)

(* A step that moves one post and touches neither the store nor the chain   *)
(* keeps the invariant if the place the post comes to fits what it started. *)
LEMMA MoveIInv ==
  ASSUME IInv, NEW p \in DOMAIN posts,
         UNCHANGED <<storeVars, chainVars, client>>,
         posts' \in Seq(Post), Len(posts') = Len(posts), DOMAIN posts' = DOMAIN posts,
         \A q \in DOMAIN posts : q # p => posts'[q] = posts[q],
         posts'[p].payTo = posts[p].payTo,
         posts'[p].answer # "none" => posts'[p].pc = "ended",
         p \in asked => posts'[p].pc \in {"dispatched", "ended"},
         p \in mempool => posts'[p].pc \in {"sent", "ended"},
         p = spentBy => posts'[p].pc \in {"sent", "paid", "ended"},
         posts'[p].pc = "paid" => spentBy = p,
         posts'[p].answer = "settled" => spentBy # 0 /\ posts'[p].header = posts[spentBy].payTo,
         posts'[p].answer = "refused" => spentBy # p /\ p \notin asked \cup mempool,
         posts'[p].pc \in {"dispatched", "sent"} => posts[p].pc \in {"dispatched", "sent"}
  PROVE  IInv'
<1> USE DEF IInv
<1>1. TypeOK' /\ ClientOK'
  BY DEF TypeOK, ClientOK, storeVars, chainVars
<1>2. DOMAIN posts = 1 .. Len(posts) /\ Len(posts) \in Nat
  BY PostsDomain DEF TypeOK
<1>3. spentBy # 0 => spentBy \in DOMAIN posts /\ posts'[spentBy].payTo = posts[spentBy].payTo
  BY <1>2 DEF TypeOK
<1>4. AnswersOK' /\ PaidOK'
  BY DEF AnswersOK, PaidOK, chainVars
<1>5. WithdrawalsOK'
  BY <1>3 DEF WithdrawalsOK, TypeOK, chainVars
<1>6. SettledIsFunded' /\ RecordIsTheSpend'
  BY <1>3 DEF SettledIsFunded, RecordIsTheSpend, chainVars, storeVars
<1>7. BareRefusalDidNotSpend'
  BY DEF BareRefusalDidNotSpend, chainVars
<1>8. LeaseCoversDoubt'
  BY DEF LeaseCoversDoubt, chainVars, storeVars
<1> QED
  BY <1>1, <1>4, <1>5, <1>6, <1>7, <1>8

(* A post that has not got as far as its dispatch has started nothing, and  *)
(* neither has one whose withdrawal was rejected.                           *)
Blameless == {"arrived", "noRecord", "noLock", "unspent", "rejected"}

LEMMA BlamelessSpendsNothing ==
  ASSUME IInv, NEW p \in DOMAIN posts, posts[p].pc \in Blameless
  PROVE  p \notin asked /\ p \notin mempool /\ p # spentBy
<1>1. p # 0
  BY PostsDomain DEF IInv, TypeOK
<1> QED
  BY <1>1 DEF IInv, WithdrawalsOK, Blameless

(* On to another place before the dispatch. *)
LEMMA OnwardIInv ==
  ASSUME IInv, NEW p \in DOMAIN posts, NEW pc \in Blameless, posts[p].pc \in Blameless,
         Goto(p, pc), UNCHANGED <<storeVars, chainVars, client>>
  PROVE  IInv'
<1>1. posts \in Seq(Post) /\ pc \in PC
  BY DEF IInv, TypeOK, Blameless, PC
<1>2. posts[p].answer = "none"
  BY DEF IInv, AnswersOK, Blameless
<1> QED
  BY <1>1, <1>2, GotoPosts, BlamelessSpendsNothing, MoveIInv DEF Blameless

(* An answer that promises nothing. *)
LEMMA UncertainIInv ==
  ASSUME IInv, NEW p \in DOMAIN posts, NEW kind \in {"busy", "uncertain", "lost"},
         Answer(p, kind, Nobody), UNCHANGED <<storeVars, chainVars, client>>
  PROVE  IInv'
<1>1. posts \in Seq(Post) /\ kind \in Kind
  BY DEF IInv, TypeOK, Kind
<1> QED
  BY <1>1, AnswerPosts, MoveIInv

LEMMA RefusedIInv ==
  ASSUME IInv, NEW p \in DOMAIN posts, posts[p].pc \in Blameless,
         Answer(p, "refused", Nobody), UNCHANGED <<storeVars, chainVars, client>>
  PROVE  IInv'
<1>1. posts \in Seq(Post) /\ "refused" \in Kind
  BY DEF IInv, TypeOK, Kind
<1> QED
  BY <1>1, AnswerPosts, BlamelessSpendsNothing, MoveIInv

LEMMA SettledIInv ==
  ASSUME IInv, NEW p \in DOMAIN posts, NEW header \in Seller,
         spentBy # 0, header = posts[spentBy].payTo,
         Answer(p, "settled", header), UNCHANGED <<storeVars, chainVars, client>>
  PROVE  IInv'
<1>1. posts \in Seq(Post) /\ "settled" \in Kind
  BY DEF IInv, TypeOK, Kind
<1> QED
  BY <1>1, AnswerPosts, MoveIInv

(* The steps before the withdrawal is asked for. *)
LEMMA EarlyIInv ==
  ASSUME IInv, NEW p \in DOMAIN posts, Refuse(p) \/ GetRecord(p) \/ GetLock(p) \/ CheckChain(p)
  PROVE  IInv'
<1>1. CASE Refuse(p)
  BY <1>1, RefusedIInv DEF Refuse, At, Blameless
<1>2. CASE GetRecord(p)
  <2>1. posts[p].pc \in Blameless
    BY <1>2 DEF GetRecord, At, Blameless
  <2>2. CASE record # Nobody /\ Answer(p, "settled", record)
    <3>1. record \in Seller /\ spentBy # 0 /\ record = posts[spentBy].payTo
      BY <2>2 DEF IInv, TypeOK, RecordIsTheSpend
    <3> QED
      BY <1>2, <2>2, <3>1, SettledIInv DEF GetRecord
  <2>3. CASE Goto(p, "noRecord")
    BY <1>2, <2>1, <2>3, OnwardIInv DEF GetRecord, Blameless
  <2>4. CASE Answer(p, "refused", Nobody)
    BY <1>2, <2>1, <2>4, RefusedIInv DEF GetRecord
  <2> QED
    BY <1>2, <2>2, <2>3, <2>4 DEF GetRecord
<1>3. CASE GetLock(p)
  <2>1. posts[p].pc \in Blameless
    BY <1>3 DEF GetLock, At, Blameless
  <2>2. CASE Answer(p, "busy", Nobody)
    BY <1>3, <2>2, UncertainIInv DEF GetLock
  <2>3. CASE Goto(p, "noLock")
    BY <1>3, <2>1, <2>3, OnwardIInv DEF GetLock, Blameless
  <2>4. CASE Answer(p, "refused", Nobody)
    BY <1>3, <2>1, <2>4, RefusedIInv DEF GetLock
  <2> QED
    BY <1>3, <2>2, <2>3, <2>4 DEF GetLock
<1>4. CASE CheckChain(p)
  <2>1. posts[p].pc \in Blameless
    BY <1>4 DEF CheckChain, At, Blameless
  <2>2. CASE Answer(p, "uncertain", Nobody)
    BY <1>4, <2>2, UncertainIInv DEF CheckChain
  <2>3. CASE Goto(p, "unspent")
    BY <1>4, <2>1, <2>3, OnwardIInv DEF CheckChain, Blameless
  <2> QED
    BY <1>4, <2>2, <2>3 DEF CheckChain
<1> QED
  BY <1>1, <1>2, <1>3, <1>4

(* Answers of the withdrawal that touch nothing but the post. *)
LEMMA LateIInv ==
  ASSUME IInv, NEW p \in DOMAIN posts, WithdrawFailed(p) \/ WithdrawSucceeded(p) \/ Crash(p)
  PROVE  IInv'
<1>1. CASE WithdrawFailed(p)
  BY <1>1, UncertainIInv DEF WithdrawFailed
<1>2. CASE WithdrawSucceeded(p)
  <2>1. posts[p].pc = "sent" /\ spentBy = p /\ Goto(p, "paid")
        /\ UNCHANGED <<storeVars, chainVars, client>>
    BY <1>2 DEF WithdrawSucceeded, At
  <2>2. posts \in Seq(Post) /\ "paid" \in PC
    BY DEF IInv, TypeOK, PC
  <2>3. posts[p].answer = "none" /\ p \notin asked /\ p \notin mempool
    BY <2>1 DEF IInv, AnswersOK, WithdrawalsOK
  <2> QED
    BY <2>1, <2>2, <2>3, GotoPosts, MoveIInv
<1>3. CASE Crash(p)
  BY <1>3, UncertainIInv DEF Crash
<1> QED
  BY <1>1, <1>2, <1>3

(* The lease is taken and the withdrawal is asked for in one step.  A lock  *)
(* found free means that no withdrawal under a live lease is in doubt.      *)
LEMMA DispatchIInv ==
  ASSUME IInv, NEW p \in DOMAIN posts, posts[p].pc = "unspent", Dispatch(p),
         storeOn => lock = 0 /\ lock' = p,
         ~storeOn => lock' = lock,
         UNCHANGED <<storeOn, record, expiries, lapsed, mempool, spentBy, client>>
  PROVE  IInv'
<1> USE DEF IInv
<1>1. posts \in Seq(Post) /\ "dispatched" \in PC
  BY DEF TypeOK, PC
<1>2. /\ posts' \in Seq(Post) /\ Len(posts') = Len(posts) /\ DOMAIN posts' = DOMAIN posts
      /\ \A q \in DOMAIN posts : q # p => posts'[q] = posts[q]
      /\ posts'[p].pc = "dispatched" /\ posts'[p].payTo = posts[p].payTo
      /\ posts'[p].answer = posts[p].answer /\ posts'[p].header = posts[p].header
      /\ asked' = asked \cup {p}
  BY <1>1, GotoPosts DEF Dispatch
<1>3. p # 0 /\ 0 \notin DOMAIN posts /\ DOMAIN posts = 1 .. Len(posts) /\ Len(posts) \in Nat
  BY <1>1, PostsDomain
<1>4. posts[p].answer = "none" /\ p \notin asked /\ p \notin mempool /\ p # spentBy
  BY BlamelessSpendsNothing DEF AnswersOK, Blameless
<1>5. TypeOK' /\ ClientOK'
  BY <1>2, <1>3 DEF TypeOK, ClientOK
<1>6. AnswersOK' /\ PaidOK' /\ WithdrawalsOK'
  <2>1. AnswersOK'
    BY <1>2, <1>4 DEF AnswersOK
  <2>2. PaidOK'
    BY <1>2 DEF PaidOK
  <2>3. asked \subseteq DOMAIN posts /\ mempool \subseteq DOMAIN posts /\ spentBy \in {0} \cup DOMAIN posts
    BY <1>3 DEF TypeOK
  <2>4. \A q \in asked' : posts'[q].pc \in {"dispatched", "ended"} /\ q \notin mempool /\ q # spentBy
    BY <1>2, <1>4, <2>3 DEF WithdrawalsOK
  <2>5. \A q \in mempool : posts'[q].pc \in {"sent", "ended"} /\ q # spentBy
    BY <1>2, <1>4, <2>3 DEF WithdrawalsOK
  <2>6. spentBy # 0 => posts'[spentBy].pc \in {"sent", "paid", "ended"}
    BY <1>2, <1>4, <2>3 DEF WithdrawalsOK
  <2> QED
    BY <2>1, <2>2, <2>4, <2>5, <2>6 DEF WithdrawalsOK
<1>7. SettledIsFunded' /\ RecordIsTheSpend' /\ BareRefusalDidNotSpend'
  BY <1>2, <1>3, <1>4 DEF SettledIsFunded, RecordIsTheSpend, BareRefusalDidNotSpend, TypeOK
<1>8. LeaseCoversDoubt'
  BY <1>2, <1>3 DEF LeaseCoversDoubt
<1> QED
  BY <1>5, <1>6, <1>7, <1>8

(* A step of a post that is in no doubt may free the lock it holds, or take *)
(* a free one and end: it leaves every withdrawal in doubt its lease.       *)
LEMMA LockIInv ==
  ASSUME IInv, NEW p \in DOMAIN posts, NEW kind \in Kind, NEW header \in Seller \cup {Nobody},
         Answer(p, kind, header),
         p \notin asked, p \notin mempool,
         spentBy = p \/ posts[p].pc \notin {"dispatched", "sent"},
         lock' \in {0, lock, p}, lock \in {0, p} \/ lock' = lock,
         record' \in Seller \cup {Nobody},
         record' # Nobody => spentBy # 0 /\ record' = posts[spentBy].payTo,
         kind = "settled" => spentBy = p /\ header = posts[p].payTo,
         kind = "refused" => spentBy # p,
         kind # "none",
         UNCHANGED <<storeOn, expiries, lapsed, chainVars, client>>
  PROVE  IInv'
<1> USE DEF IInv
<1>1. posts \in Seq(Post)
  BY DEF TypeOK
<1>2. /\ posts' \in Seq(Post) /\ Len(posts') = Len(posts) /\ DOMAIN posts' = DOMAIN posts
      /\ \A q \in DOMAIN posts : q # p => posts'[q] = posts[q]
      /\ posts'[p].pc = "ended" /\ posts'[p].payTo = posts[p].payTo
      /\ posts'[p].answer = kind /\ posts'[p].header = header
  BY <1>1, AnswerPosts
<1>3. p # 0 /\ 0 \notin DOMAIN posts /\ DOMAIN posts = 1 .. Len(posts) /\ Len(posts) \in Nat
  BY <1>1, PostsDomain
<1>4. \A q \in DOMAIN posts : posts'[q].payTo = posts[q].payTo
  BY <1>2
<1>5. TypeOK' /\ ClientOK'
  BY <1>2, <1>3 DEF TypeOK, ClientOK, chainVars
<1>6. AnswersOK' /\ PaidOK' /\ WithdrawalsOK'
  BY <1>2, <1>3 DEF AnswersOK, PaidOK, WithdrawalsOK, TypeOK, chainVars
<1>7. SettledIsFunded' /\ RecordIsTheSpend' /\ BareRefusalDidNotSpend'
  BY <1>2, <1>3, <1>4 DEF SettledIsFunded, RecordIsTheSpend, BareRefusalDidNotSpend, TypeOK, chainVars
<1>8. LeaseCoversDoubt'
  BY <1>2, <1>3 DEF LeaseCoversDoubt, chainVars
<1> QED
  BY <1>5, <1>6, <1>7, <1>8

LEMMA ReserveIInv ==
  ASSUME IInv, NEW p \in DOMAIN posts, Reserve(p)
  PROVE  IInv'
<1>1. /\ posts[p].pc = "unspent" /\ p \notin asked /\ p \notin mempool /\ p # spentBy
      /\ UNCHANGED <<storeOn, record, expiries, lapsed, mempool, spentBy, client>>
  BY BlamelessSpendsNothing DEF Reserve, At, Blameless
<1>2. CASE Dispatch(p)
  BY <1>1, <1>2, DispatchIInv DEF Reserve, Dispatch, Goto, Answer
<1>3. CASE Answer(p, "busy", Nobody) /\ UNCHANGED <<lock, asked>>
  BY <1>1, <1>3, UncertainIInv DEF storeVars, chainVars
<1>4. CASE /\ lock' \in {lock, IF lock = 0 THEN p ELSE lock}
           /\ Answer(p, "refused", Nobody) /\ UNCHANGED asked
  <2>1. "refused" \in Kind
    BY DEF Kind
  <2> QED
    BY <1>1, <1>4, <2>1, LockIInv DEF chainVars, IInv, TypeOK, RecordIsTheSpend
<1> QED
  BY <1>2, <1>3, <1>4 DEF Reserve

LEMMA ReleaseIInv ==
  ASSUME IInv, NEW p \in DOMAIN posts, Release(p)
  PROVE  IInv'
<1>1. /\ posts[p].pc = "rejected" /\ p \notin asked /\ p \notin mempool /\ p # spentBy
      /\ UNCHANGED <<storeOn, record, expiries, lapsed, chainVars, client>>
  BY BlamelessSpendsNothing DEF Release, At, Blameless
<1>2. lock' \in {0, lock} /\ (lock = p \/ lock' = lock)
  BY DEF Release
<1>3. PICK kind \in {"refused", "uncertain"} : Answer(p, kind, Nobody)
  BY DEF Release
<1>4. kind \in Kind
  BY DEF Kind
<1> QED
  BY <1>1, <1>2, <1>3, <1>4, LockIInv DEF IInv, TypeOK, RecordIsTheSpend

LEMMA FinalizeIInv ==
  ASSUME IInv, NEW p \in DOMAIN posts, Finalize(p)
  PROVE  IInv'
<1>1. /\ posts[p].pc = "paid" /\ Answer(p, "settled", posts[p].payTo)
      /\ UNCHANGED <<storeOn, expiries, lapsed, chainVars, client>>
  BY DEF Finalize, At
<1>2. spentBy = p /\ p # 0 /\ p \notin asked /\ p \notin mempool
  BY <1>1, PostsDomain DEF IInv, TypeOK, PaidOK, WithdrawalsOK
<1>3. posts[p].payTo \in Seller /\ "settled" \in Kind
  BY PostsDomain DEF IInv, TypeOK, Post, Kind
<1>4. record' \in {record, posts[p].payTo} /\ lock' \in {0, lock} /\ (lock = p \/ lock' = lock)
  BY DEF Finalize
<1> QED
  BY <1>1, <1>2, <1>3, <1>4, LockIInv DEF IInv, TypeOK, RecordIsTheSpend

-----------------------------------------------------------------------------
(* /api/withdraw and the chain *)

LEMMA WithdrawRejectedIInv ==
  ASSUME IInv, NEW p \in DOMAIN posts, WithdrawRejected(p)
  PROVE  IInv'
<1> USE DEF IInv
<1>1. /\ posts[p].pc = "dispatched" /\ p \in asked /\ Goto(p, "rejected") /\ asked' = asked \ {p}
      /\ UNCHANGED <<storeVars, mempool, spentBy, client>>
  BY DEF WithdrawRejected, At
<1>2. posts \in Seq(Post) /\ "rejected" \in PC
  BY DEF TypeOK, PC
<1>3. /\ posts' \in Seq(Post) /\ Len(posts') = Len(posts) /\ DOMAIN posts' = DOMAIN posts
      /\ \A q \in DOMAIN posts : q # p => posts'[q] = posts[q]
      /\ posts'[p].pc = "rejected" /\ posts'[p].payTo = posts[p].payTo
      /\ posts'[p].answer = posts[p].answer /\ posts'[p].header = posts[p].header
  BY <1>1, <1>2, GotoPosts
<1>4. posts[p].answer = "none" /\ p \notin mempool /\ p # spentBy
  BY <1>1 DEF AnswersOK, WithdrawalsOK
<1>5. 0 \notin DOMAIN posts /\ DOMAIN posts = 1 .. Len(posts) /\ Len(posts) \in Nat
  BY <1>2, PostsDomain
<1>6. \A q \in DOMAIN posts : posts'[q].payTo = posts[q].payTo
  BY <1>3
<1>7. TypeOK' /\ ClientOK' /\ AnswersOK' /\ PaidOK'
  <2>1. TypeOK'
    BY <1>1, <1>3, <1>5 DEF TypeOK, storeVars
  <2>2. ClientOK'
    BY <1>1 DEF ClientOK
  <2>3. AnswersOK'
    BY <1>3, <1>4 DEF AnswersOK
  <2>4. PaidOK'
    BY <1>1, <1>3 DEF PaidOK
  <2> QED
    BY <2>1, <2>2, <2>3, <2>4
<1>8. WithdrawalsOK'
  BY <1>1, <1>3, <1>4, <1>5 DEF WithdrawalsOK, TypeOK
<1>9. SettledIsFunded' /\ RecordIsTheSpend' /\ BareRefusalDidNotSpend'
  BY <1>1, <1>3, <1>4, <1>5, <1>6 DEF SettledIsFunded, RecordIsTheSpend, BareRefusalDidNotSpend, TypeOK, storeVars
<1>10. LeaseCoversDoubt'
  BY <1>1, <1>3, <1>4 DEF LeaseCoversDoubt, storeVars
<1> QED
  BY <1>7, <1>8, <1>9, <1>10

LEMMA WithdrawBroadcastIInv ==
  ASSUME IInv, NEW p \in DOMAIN posts, WithdrawBroadcast(p)
  PROVE  IInv'
<1> USE DEF IInv
<1>1. /\ p \in asked /\ asked' = asked \ {p} /\ mempool' = mempool \cup {p}
      /\ UNCHANGED <<storeVars, spentBy, client>>
      /\ IF posts[p].pc = "dispatched" THEN Goto(p, "sent") ELSE UNCHANGED posts
  BY DEF WithdrawBroadcast, At
<1>2. posts \in Seq(Post) /\ "sent" \in PC
  BY DEF TypeOK, PC
<1>3. /\ posts' \in Seq(Post) /\ Len(posts') = Len(posts) /\ DOMAIN posts' = DOMAIN posts
      /\ \A q \in DOMAIN posts : q # p => posts'[q] = posts[q]
      /\ posts'[p].payTo = posts[p].payTo
      /\ posts'[p].answer = posts[p].answer /\ posts'[p].header = posts[p].header
      /\ posts'[p].pc = IF posts[p].pc = "dispatched" THEN "sent" ELSE posts[p].pc
  BY <1>1, <1>2, GotoPosts
<1>4. posts[p].pc \in {"dispatched", "ended"} /\ p \notin mempool /\ p # spentBy
  BY <1>1 DEF WithdrawalsOK
<1>5. 0 \notin DOMAIN posts /\ DOMAIN posts = 1 .. Len(posts) /\ Len(posts) \in Nat
  BY <1>2, PostsDomain
<1>6. \A q \in DOMAIN posts :
        /\ posts'[q].payTo = posts[q].payTo
        /\ posts'[q].answer = posts[q].answer /\ posts'[q].header = posts[q].header
  BY <1>3
<1>7. TypeOK' /\ ClientOK' /\ AnswersOK' /\ PaidOK'
  <2>1. TypeOK'
    BY <1>1, <1>3, <1>5 DEF TypeOK, storeVars
  <2>2. ClientOK'
    BY <1>1 DEF ClientOK
  <2>3. AnswersOK'
    BY <1>3, <1>4 DEF AnswersOK
  <2>4. PaidOK'
    BY <1>1, <1>3 DEF PaidOK
  <2> QED
    BY <2>1, <2>2, <2>3, <2>4
<1>8. WithdrawalsOK'
  BY <1>1, <1>3, <1>4, <1>5 DEF WithdrawalsOK, TypeOK
<1>9. SettledIsFunded' /\ RecordIsTheSpend'
  BY <1>1, <1>3, <1>5, <1>6 DEF SettledIsFunded, RecordIsTheSpend, TypeOK, storeVars
<1>11. BareRefusalDidNotSpend'
  BY <1>1, <1>3, <1>6 DEF BareRefusalDidNotSpend
<1>10. LeaseCoversDoubt'
  BY <1>1, <1>3, <1>4 DEF LeaseCoversDoubt, storeVars
<1> QED
  BY <1>7, <1>8, <1>9, <1>10, <1>11

(* What is given up spends nothing and leaves its lease where it is. *)
LEMMA ForgetIInv ==
  ASSUME IInv, asked' \subseteq asked, mempool' \subseteq mempool,
         UNCHANGED <<storeVars, spentBy, posts, client>>
  PROVE  IInv'
<1> USE DEF IInv
<1>1. TypeOK' /\ ClientOK' /\ AnswersOK' /\ PaidOK' /\ WithdrawalsOK'
  BY DEF TypeOK, ClientOK, AnswersOK, PaidOK, WithdrawalsOK, storeVars
<1>2. SettledIsFunded' /\ RecordIsTheSpend' /\ BareRefusalDidNotSpend' /\ LeaseCoversDoubt'
  BY DEF SettledIsFunded, RecordIsTheSpend, BareRefusalDidNotSpend, LeaseCoversDoubt, storeVars
<1> QED
  BY <1>1, <1>2

LEMMA MineIInv ==
  ASSUME IInv, NEW p \in mempool, Mine(p)
  PROVE  IInv'
<1> USE DEF IInv
<1>1. mempool' = mempool \ {p} /\ UNCHANGED <<storeVars, asked, posts, client>>
  BY DEF Mine
<1>2. CASE spentBy # 0
  <2>1. UNCHANGED spentBy
    BY <1>2 DEF Mine
  <2> QED
    BY <1>1, <2>1, ForgetIInv
<1>3. CASE spentBy = 0
  <2>1. spentBy' = p
    BY <1>3 DEF Mine
  <2>2. p \in DOMAIN posts /\ p # 0 /\ p \notin asked /\ posts[p].pc \in {"sent", "ended"}
    BY PostsDomain DEF TypeOK, WithdrawalsOK
  <2>3. posts \in Seq(Post) /\ DOMAIN posts = 1 .. Len(posts) /\ Len(posts) \in Nat
    BY PostsDomain DEF TypeOK
  <2>4. TypeOK' /\ ClientOK' /\ AnswersOK'
    BY <1>1, <2>1, <2>2, <2>3 DEF TypeOK, ClientOK, AnswersOK, storeVars
  <2>5. PaidOK'
    BY <1>1, <1>3, <2>3 DEF PaidOK
  <2>6. WithdrawalsOK'
    BY <1>1, <2>1, <2>2 DEF WithdrawalsOK
  <2>7. SettledIsFunded' /\ RecordIsTheSpend'
    BY <1>1, <1>3 DEF SettledIsFunded, RecordIsTheSpend, storeVars
  <2>8. BareRefusalDidNotSpend' /\ LeaseCoversDoubt'
    BY <1>1, <1>3, <2>1, <2>2, <2>3 DEF BareRefusalDidNotSpend, LeaseCoversDoubt, storeVars
  <2> QED
    BY <2>4, <2>5, <2>6, <2>7, <2>8
<1> QED
  BY <1>2, <1>3

(* A lease that runs out is remembered; a record that does says nothing.    *)
LEMMA ExpireIInv ==
  ASSUME IInv, ExpireLock \/ ExpireRecord
  PROVE  IInv'
<1> USE DEF IInv
<1>1. lock \in 0 .. Len(posts) /\ DOMAIN posts = 1 .. Len(posts) /\ Len(posts) \in Nat
  BY PostsDomain DEF TypeOK
<1>2. TypeOK' /\ ClientOK'
  BY <1>1 DEF ExpireLock, ExpireRecord, TypeOK, ClientOK, chainVars
<1>3. AnswersOK' /\ PaidOK' /\ WithdrawalsOK' /\ SettledIsFunded' /\ BareRefusalDidNotSpend'
  BY DEF ExpireLock, ExpireRecord, AnswersOK, PaidOK, WithdrawalsOK, SettledIsFunded, BareRefusalDidNotSpend,
     chainVars
<1>4. RecordIsTheSpend'
  BY DEF ExpireLock, ExpireRecord, RecordIsTheSpend, chainVars
<1>5. LeaseCoversDoubt'
  BY DEF ExpireLock, ExpireRecord, LeaseCoversDoubt, chainVars
<1> QED
  BY <1>2, <1>3, <1>4, <1>5

-----------------------------------------------------------------------------
LEMMA RouteStepIInv ==
  ASSUME IInv, NEW p \in DOMAIN posts, RouteStep(p)
  PROVE  IInv'
<1>1. CASE Refuse(p) \/ GetRecord(p) \/ GetLock(p) \/ CheckChain(p)
  BY <1>1, EarlyIInv
<1>2. CASE Reserve(p)
  BY <1>2, ReserveIInv
<1>3. CASE WithdrawRejected(p)
  BY <1>3, WithdrawRejectedIInv
<1>4. CASE WithdrawBroadcast(p)
  BY <1>4, WithdrawBroadcastIInv
<1>5. CASE WithdrawDies(p)
  BY <1>5, ForgetIInv DEF WithdrawDies
<1>6. CASE WithdrawFailed(p) \/ WithdrawSucceeded(p) \/ Crash(p)
  BY <1>6, LateIInv
<1>7. CASE Release(p)
  BY <1>7, ReleaseIInv
<1>8. CASE Finalize(p)
  BY <1>8, FinalizeIInv
<1> QED
  BY <1>1, <1>2, <1>3, <1>4, <1>5, <1>6, <1>7, <1>8 DEF RouteStep

(* Every step preserves the invariant. *)
LEMMA NextIInv == IInv /\ [Next]_vars => IInv'
<1> SUFFICES ASSUME IInv, [Next]_vars PROVE IInv'
  OBVIOUS
<1>1. CASE \E seller \in Seller : Call(seller)
  BY <1>1, CallIInv
<1>2. CASE Attempt
  BY <1>2, AttemptIInv
<1>3. CASE Receive
  BY <1>3, ReceiveIInv
<1>4. CASE LoseAnswer
  BY <1>4, LoseAnswerIInv
<1>5. CASE GiveUp
  BY <1>5, GiveUpIInv
<1>6. CASE \E p \in DOMAIN posts : RouteStep(p)
  BY <1>6, RouteStepIInv
<1>7. ASSUME NEW p \in mempool, Mine(p) PROVE IInv'
  BY <1>7, MineIInv
<1>8. ASSUME NEW p \in mempool, Drop(p) PROVE IInv'
  BY <1>8, ForgetIInv DEF Drop
<1>9. CASE ExpireLock \/ ExpireRecord
  BY <1>9, ExpireIInv
<1>10. CASE UNCHANGED vars
  <2>1. UNCHANGED <<storeVars, chainVars, posts>> /\ client' = client
    BY <1>10 DEF vars
  <2> QED
    BY <2>1, ClientIInv DEF IInv, TypeOK, ClientOK
<1> QED
  BY <1>1, <1>2, <1>3, <1>4, <1>5, <1>6, <1>7, <1>8, <1>9, <1>10 DEF Next

(* The inductive invariant of the settlement: where the withdrawal of each  *)
(* post is, and what the lease, the record and the answers say of it.       *)
THEOREM Invariant == Spec => []IInv
BY InitIInv, NextIInv, PTL DEF Spec

(* The variables have their types: every lock, record and withdrawal is a   *)
(* post's or a seller's.                                                    *)
THEOREM TypeCorrect == Spec => []TypeOK
BY Invariant, PTL DEF IInv

(* Every settled answer, replayed or fresh, hands out the header of the     *)
(* payer that the withdrawal of the note funded.                            *)
THEOREM Funded == Spec => []SettledIsFunded
BY Invariant, PTL DEF IInv

(* The stored record is the withdrawal that spent the note, whoever wrote   *)
(* it and whenever (FINALIZE_LUA).                                          *)
THEOREM Recorded == Spec => []RecordIsTheSpend
BY Invariant, PTL DEF IInv

(* A bare settled:false is final: the post that answered it has spent       *)
(* nothing and will not.                                                    *)
THEOREM BareRefusal == Spec => []BareRefusalDidNotSpend
BY Invariant, PTL DEF IInv

(* A withdrawal that may still land has its lease, unless that ran out.     *)
THEOREM Leased == Spec => []LeaseCoversDoubt
BY Invariant, PTL DEF IInv

-----------------------------------------------------------------------------
(***************************************************************************)
(* Payments from the Solana pool.                                          *)
(*                                                                         *)
(* The tree.  An id names one note among the leaves, the books and the     *)
(* changes of payments, so no two payments insert the same leaf; a payment *)
(* whose change is in the tree has spent its note; and since a payment     *)
(* spends a leaf of its label and inserts one, a label has one live leaf.  *)
(*                                                                         *)
(* The books.  A change is kept as pending while a request may still land, *)
(* and a note leaves the locked ones only with what is known of it: by an  *)
(* answer that it was spent, by a record that says so, or by a rejection   *)
(* of the one request there was.  An entry that is not in doubt therefore  *)
(* has no other request under way, and only requests spend notes of the    *)
(* books: the payments handed to relayers are of another's notes.          *)
(***************************************************************************)


(* The payments that were prepared, and the notes there are or will be. *)
Payments ==
  {draft.payment : draft \in drafts} \cup {requests[i].payment : i \in DOMAIN requests} \cup handed

Notes == Leaves \cup DOMAIN books \cup {payment.change : payment \in Payments}

(* An id names one note. *)
NotesOK ==
  /\ \A note \in Notes : note \in Note /\ note.id <= made /\ note.label \in DOMAIN depositRecords
  /\ \A m, n \in Notes : m.id = n.id => m = n

(* A nullifier on record is of a leaf, and a label has one live leaf. *)
LeavesOK ==
  /\ \A n \in nullifierRecords : \E leaf \in Leaves : leaf.id = n
  /\ \A m, n \in Leaves : Live(m) /\ Live(n) /\ m.label = n.label => m = n

(* What the withdrawal circuit asked when a payment was prepared. *)
Spends(payment, leaf) ==
  /\ leaf.id = payment.nullifier
  /\ leaf.label = payment.change.label
  /\ leaf.value = payment.amount + payment.change.value

PaymentOK(payment) ==
  /\ payment.recipient \in Shops \cup Orders
  /\ payment.amount \in Nat /\ payment.relayFeeBps \in Nat
  /\ payment.aspRoot = {payment.change.label}
  /\ \E leaf \in Leaves : Spends(payment, leaf)
  /\ payment.change \in Leaves => payment.nullifier \in nullifierRecords

PaymentsOK ==
  /\ \A payment \in Payments : PaymentOK(payment)
  /\ \A p, q \in Payments : p.change = q.change => p = q

(* A withdrawal that landed left its event. *)
Paid(payment) ==
  \E j \in DOMAIN events :
    /\ events[j].leaf = payment.change
    /\ events[j].recipient = payment.recipient
    /\ events[j].value = payment.amount

RequestOK(r) ==
  /\ r.payment.relayFeeBps = 0
  /\ r.pc = "settled" => r.tx = "landed"
  /\ r.pc \in {"verify", "verified", "rejected"} => r.tx = "none"
  /\ r.tx = "landed" => r.payment.nullifier \in nullifierRecords /\ Paid(r.payment)

RequestsOK == \A i \in DOMAIN requests : RequestOK(requests[i])

DraftsAreFree == \A draft \in drafts : draft.payment.relayFeeBps = 0

OrderOK(order) ==
  intents[order].fulfilled =>
    /\ intents[order].nullifier \in nullifierRecords
    /\ tokens[order] >= intents[order].expectedAmount
    /\ \E j \in DOMAIN events :
         /\ events[j].nullifier = intents[order].nullifier
         /\ events[j].recipient = order
         /\ events[j].value = intents[order].expectedAmount

OrdersOK ==
  /\ \A order \in Orders : OrderOK(order)
  /\ \A order, other \in Orders :
       intents[order].fulfilled /\ intents[other].fulfilled /\ order # other
       => intents[order].nullifier # intents[other].nullifier

-----------------------------------------------------------------------------
(* Numbers and shapes *)

LEMMA FeeType ==
  ASSUME NEW value \in Nat, NEW bps \in Nat
  PROVE  Fee(value, bps) \in Nat
<1>1. PICK n \in Nat : n = value * bps
  OBVIOUS
<1>2. n \div 10000 \in Nat
  OBVIOUS
<1> QED
  BY <1>1, <1>2 DEF Fee

(* The scheme's payments agree to no relay fee. *)
LEMMA FreeOfFee ==
  ASSUME NEW payment, payment.amount \in Nat, payment.relayFeeBps = 0
  PROVE  RelayFee(payment) = 0 /\ Payout(payment) = payment.amount
BY DEF RelayFee, Payout, Fee

LEMMA NextRootSlot ==
  ASSUME NEW idx \in Slots
  PROVE  (idx + 1) % HISTORICAL_ROOTS \in Slots
<1>1. PICK h \in Nat \ {0} : h = HISTORICAL_ROOTS
  BY RootsAssumption
<1>2. idx \in 0 .. h - 1
  BY <1>1 DEF Slots
<1>3. (idx + 1) % h \in 0 .. h - 1
  <2>1. idx + 1 \in Nat
    BY <1>2
  <2> QED
    BY <2>1
<1> QED
  BY <1>1, <1>3 DEF Slots

LEMMA InsertShape ==
  ASSUME NEW f, NEW leaf
  PROVE  Insert(f, leaf).size = f.size + 1 /\ DOMAIN Insert(f, leaf).sideNodes = Levels
BY DEF Insert

LEMMA EventsShape ==
  ASSUME PoolTypeOK
  PROVE  /\ Len(events) \in Nat /\ DOMAIN events = 1 .. Len(events)
         /\ \A j \in DOMAIN events : events[j] \in Event
BY LenProperties, ElementOfSeq DEF PoolTypeOK

LEMMA DepositsShape ==
  ASSUME PoolTypeOK
  PROVE  /\ Len(depositRecords) \in Nat /\ DOMAIN depositRecords = 1 .. Len(depositRecords)
         /\ \A label \in DOMAIN depositRecords : depositRecords[label] \in Users
BY LenProperties, ElementOfSeq DEF PoolTypeOK

LEMMA RequestsShape ==
  ASSUME requests \in Seq(Request)
  PROVE  /\ Len(requests) \in Nat /\ DOMAIN requests = 1 .. Len(requests)
         /\ \A i \in DOMAIN requests : requests[i] \in Request
BY LenProperties, ElementOfSeq

(* insert: a leaf is added to the events, and little else is of interest. *)
LEMMA LeafAdded ==
  ASSUME PoolTypeOK, NEW note, NEW event \in Event, InsertLeaf(note, event)
  PROVE  /\ events' \in Seq(Event) /\ Len(events') = Len(events) + 1
         /\ DOMAIN events' = DOMAIN events \cup {Len(events')}
         /\ \A j \in DOMAIN events : events'[j] = events[j]
         /\ events'[Len(events')] = event
         /\ Leaves' = Leaves \cup {event.leaf}
         /\ DOMAIN pool' = DOMAIN pool
         /\ pool'.paused = pool.paused /\ pool'.aspRoot = pool.aspRoot
         /\ pool'.frontier.size = Len(events') /\ DOMAIN pool'.frontier.sideNodes = Levels
         /\ pool'.knownStateRootsIdx \in Slots
<1>1. PICK n \in Nat : n = Len(events) /\ DOMAIN events = 1 .. n
  BY EventsShape
<1>2. events' = Append(events, event) /\ events \in Seq(Event)
  BY DEF InsertLeaf, PoolTypeOK
<1>3. /\ events' \in Seq(Event) /\ Len(events') = n + 1
      /\ \A j \in 1 .. n : events'[j] = events[j]
      /\ events'[n + 1] = event
  BY <1>1, <1>2, AppendProperties
<1>4. DOMAIN events' = 1 .. n + 1
  BY <1>3, LenProperties
<1>5. DOMAIN events' = DOMAIN events \cup {n + 1}
  BY <1>1, <1>4
<1>6. Leaves' = Leaves \cup {event.leaf}
  <2>1. Leaves' = {events'[j].leaf : j \in DOMAIN events \cup {n + 1}}
    BY <1>5 DEF Leaves
  <2>2. Leaves = {events[j].leaf : j \in DOMAIN events}
    BY DEF Leaves
  <2>3. \A j \in DOMAIN events : events'[j].leaf = events[j].leaf
    BY <1>1, <1>3
  <2> QED
    BY <2>1, <2>2, <2>3, <1>3
<1>7. /\ DOMAIN pool' = DOMAIN pool
      /\ pool'.paused = pool.paused /\ pool'.aspRoot = pool.aspRoot
      /\ pool'.frontier = Insert(pool.frontier, note.id)
      /\ pool'.knownStateRootsIdx = (pool.knownStateRootsIdx + 1) % HISTORICAL_ROOTS
  BY DEF InsertLeaf, PoolTypeOK
<1>8. /\ pool'.frontier.size = Len(events') /\ DOMAIN pool'.frontier.sideNodes = Levels
      /\ pool'.knownStateRootsIdx \in Slots
  <2>1. pool.frontier.size = n /\ pool.knownStateRootsIdx \in Slots
    BY <1>1 DEF PoolTypeOK
  <2> QED
    BY <1>3, <1>7, <2>1, InsertShape, NextRootSlot
<1> QED
  BY <1>1, <1>3, <1>5, <1>6, <1>7, <1>8

-----------------------------------------------------------------------------
(* Deposits and withdrawals on chain *)

(* deposit: what the chain and the ledger see of it. *)
LEMMA DepositDoes ==
  ASSUME PoolTypeOK, made \in 0 .. MaxNotes, made < MaxNotes, NEW user \in Users,
         Deposit(user, DepositAmount, made + 1), made' = made + 1
  PROVE  \E note \in Note :
           /\ note.id = made + 1 /\ note.label = Len(depositRecords) + 1
           /\ note.value <= DepositAmount /\ NewNote = note
           /\ Leaves' = Leaves \cup {note}
           /\ \A j \in DOMAIN events : j \in DOMAIN events' /\ events'[j] = events[j]
           /\ depositRecords' = Append(depositRecords, user)
           /\ DOMAIN depositRecords' = DOMAIN depositRecords \cup {note.label}
           /\ \A label \in DOMAIN depositRecords : depositRecords'[label] = depositRecords[label]
           /\ depositRecords'[note.label] = user
           /\ note.label \notin DOMAIN depositRecords
           /\ tokens[user] >= DepositAmount
           /\ tokens' = [tokens EXCEPT ![user] = @ - DepositAmount, ![Vault] = @ + DepositAmount]
           /\ retained' = retained + DepositAmount - note.value
           /\ pool'.aspRoot = pool.aspRoot
           /\ UNCHANGED <<nullifierRecords, intents>>
           /\ PoolTypeOK'
<1> DEFINE fee == Fee(DepositAmount, VETTING_FEE_BPS)
           note == [id |-> made + 1, label |-> Len(depositRecords) + 1, value |-> DepositAmount - fee]
           event == [leaf |-> note, nullifier |-> 0, recipient |-> Vault, value |-> note.value]
<1>1. fee \in Nat /\ fee <= DepositAmount /\ DepositAmount \in Nat
  BY FeeType, FeesAssumption, AmountsAssumption DEF Deposit
<1>2. PICK n \in Nat : n = Len(depositRecords) /\ DOMAIN depositRecords = 1 .. n
  BY DepositsShape
<1>3. DepositAmount - fee \in Nat
  <2> HIDE DEF fee
  <2> QED
    BY <1>1
<1>4. made + 1 \in 1 .. MaxNotes /\ n + 1 \in Nat
  BY MaxAssumption, <1>2
<1>5. note \in Note /\ note.id = made + 1 /\ note.label = n + 1 /\ note.value = DepositAmount - fee
  <2> HIDE DEF fee
  <2> QED
    BY <1>2, <1>3, <1>4 DEF Note
<1>6. /\ InsertLeaf(note, event)
      /\ tokens' = [tokens EXCEPT ![user] = @ - DepositAmount, ![Vault] = @ + DepositAmount]
      /\ tokens[user] >= DepositAmount
      /\ depositRecords' = Append(depositRecords, user)
      /\ retained' = retained + fee
      /\ UNCHANGED <<nullifierRecords, intents>>
  BY DEF Deposit
<1> HIDE DEF fee, note
<1>7. event \in Event /\ event.leaf = note
  BY <1>5, MaxAssumption DEF Event, Note, Accounts
<1> HIDE DEF event
<1>8. /\ events' \in Seq(Event) /\ Len(events') = Len(events) + 1
      /\ DOMAIN events' = DOMAIN events \cup {Len(events')}
      /\ \A j \in DOMAIN events : events'[j] = events[j]
      /\ events'[Len(events')] = event
      /\ Leaves' = Leaves \cup {note}
      /\ DOMAIN pool' = DOMAIN pool
      /\ pool'.paused = pool.paused /\ pool'.aspRoot = pool.aspRoot
      /\ pool'.frontier.size = Len(events') /\ DOMAIN pool'.frontier.sideNodes = Levels
      /\ pool'.knownStateRootsIdx \in Slots
  BY <1>6, <1>7, LeafAdded
<1>9. /\ depositRecords' \in Seq(Users) /\ Len(depositRecords') = n + 1
      /\ \A label \in 1 .. n : depositRecords'[label] = depositRecords[label]
      /\ depositRecords'[n + 1] = user
  BY <1>2, <1>6, AppendProperties DEF PoolTypeOK
<1>10. DOMAIN depositRecords' = 1 .. n + 1
  BY <1>9, LenProperties
<1>11. tokens' \in [Accounts -> Nat]
  <2>1. /\ tokens \in [Accounts -> Nat] /\ user \in Accounts /\ Vault \in Accounts /\ user # Vault
    BY AccountsAssumption DEF PoolTypeOK, Accounts
  <2>2. tokens[user] - DepositAmount \in Nat /\ tokens[Vault] + DepositAmount \in Nat
    BY <2>1, <1>1, <1>6
  <2> QED
    BY <1>6, <2>1, <2>2
<1>12. retained' \in Nat /\ retained' = retained + DepositAmount - note.value
  BY <1>1, <1>5, <1>6 DEF PoolTypeOK
<1>13. NewNote = note
  BY <1>7, <1>8 DEF NewNote
<1>14. PoolTypeOK'
  <2>1. nullifierRecords' \subseteq 1 .. made'
    BY <1>6 DEF PoolTypeOK
  <2>2. pool'.aspRoot \subseteq DOMAIN depositRecords'
    BY <1>2, <1>8, <1>10 DEF PoolTypeOK
  <2> QED
    BY <2>1, <2>2, <1>6, <1>8, <1>9, <1>11, <1>12 DEF PoolTypeOK
<1>15. /\ DOMAIN depositRecords' = DOMAIN depositRecords \cup {note.label}
       /\ note.label \notin DOMAIN depositRecords
  BY <1>2, <1>5, <1>10
<1>16. note.value <= DepositAmount
  BY <1>1, <1>5
<1> QED
  BY <1>2, <1>5, <1>6, <1>8, <1>9, <1>12, <1>13, <1>14, <1>15, <1>16

(* relay_withdrawal *)
LEMMA RelayDoes ==
  ASSUME PoolTypeOK, made \in 0 .. MaxNotes, LeavesOK, NotesOK, PaymentsOK,
         NEW payment \in Payments, RelayWithdrawal(payment), made' = made,
         intents' \in [Orders -> [expectedAmount : Nat, fulfilled : BOOLEAN, nullifier : 0 .. MaxNotes]]
  PROVE  /\ PoolTypeOK'
         /\ payment.nullifier \in 1 .. made /\ payment.nullifier \notin nullifierRecords
         /\ nullifierRecords' = nullifierRecords \cup {payment.nullifier}
         /\ payment.aspRoot = pool.aspRoot /\ pool'.aspRoot = pool.aspRoot
         /\ Leaves' = Leaves \cup {payment.change}
         /\ \A j \in DOMAIN events : j \in DOMAIN events' /\ events'[j] = events[j]
         /\ \E j \in DOMAIN events' :
              events'[j] = [leaf |-> payment.change, nullifier |-> payment.nullifier,
                            recipient |-> payment.recipient, value |-> Payout(payment)]
         /\ Payout(payment) \in Nat
         /\ tokens'[Vault] = tokens[Vault] - payment.amount
         /\ tokens'[payment.recipient] = tokens[payment.recipient] + Payout(payment)
         /\ \A order \in Orders : tokens'[order] >= tokens[order]
         /\ UNCHANGED <<depositRecords, retained>>
<1> DEFINE event == [leaf |-> payment.change, nullifier |-> payment.nullifier,
                     recipient |-> payment.recipient, value |-> Payout(payment)]
<1>1. /\ payment.recipient \in Shops \cup Orders
      /\ payment.amount \in Nat /\ payment.relayFeeBps \in Nat
      /\ payment.change \in Note
      /\ payment.nullifier \in 1 .. made
  <2>1. PaymentOK(payment)
    BY DEF PaymentsOK
  <2>2. PICK leaf \in Leaves : Spends(payment, leaf)
    BY <2>1 DEF PaymentOK
  <2>3. leaf \in Notes /\ payment.change \in Notes
    BY DEF Notes
  <2> QED
    BY <2>1, <2>2, <2>3 DEF PaymentOK, NotesOK, Note, Spends
<1>2. RelayFee(payment) \in Nat
  BY <1>1, FeeType DEF RelayFee
<1>3. RelayFee(payment) <= payment.amount /\ tokens[Vault] >= payment.amount
  BY DEF RelayWithdrawal
<1>4. Payout(payment) \in Nat /\ Payout(payment) = payment.amount - RelayFee(payment)
  BY <1>1, <1>2, <1>3 DEF Payout
<1>5. event \in Event /\ event.leaf = payment.change
  <2>1. payment.recipient \in Accounts
    BY <1>1 DEF Accounts
  <2>2. payment.nullifier \in 0 .. MaxNotes
    BY <1>1, MaxAssumption
  <2> QED
    BY <2>1, <2>2, <1>1, <1>4 DEF Event
<1>6. /\ InsertLeaf(payment.change, event)
      /\ nullifierRecords' = nullifierRecords \cup {payment.nullifier}
      /\ payment.nullifier \notin nullifierRecords /\ payment.aspRoot = pool.aspRoot
      /\ UNCHANGED <<depositRecords, retained>>
  BY DEF RelayWithdrawal, Relayable
<1>7. tokens' = [tokens EXCEPT ![Vault] = @ - payment.amount,
                               ![payment.recipient] = @ + Payout(payment),
                               ![Relayer] = @ + RelayFee(payment)]
  BY DEF RelayWithdrawal
<1> HIDE DEF event
<1>8. /\ events' \in Seq(Event) /\ Len(events') = Len(events) + 1
      /\ DOMAIN events' = DOMAIN events \cup {Len(events')}
      /\ \A j \in DOMAIN events : events'[j] = events[j]
      /\ events'[Len(events')] = event
      /\ Leaves' = Leaves \cup {payment.change}
      /\ DOMAIN pool' = DOMAIN pool
      /\ pool'.paused = pool.paused /\ pool'.aspRoot = pool.aspRoot
      /\ pool'.frontier.size = Len(events') /\ DOMAIN pool'.frontier.sideNodes = Levels
      /\ pool'.knownStateRootsIdx \in Slots
  BY <1>5, <1>6, LeafAdded
<1>9. /\ tokens' \in [Accounts -> Nat]
      /\ tokens'[Vault] = tokens[Vault] - payment.amount
      /\ tokens'[payment.recipient] = tokens[payment.recipient] + Payout(payment)
      /\ \A order \in Orders : tokens'[order] >= tokens[order]
  <2>1. /\ tokens \in [Accounts -> Nat]
        /\ payment.recipient \in Accounts /\ Vault \in Accounts /\ Relayer \in Accounts
        /\ payment.recipient # Vault /\ payment.recipient # Relayer /\ Vault # Relayer
        /\ Orders \subseteq Accounts /\ Vault \notin Orders
    BY <1>1, AccountsAssumption DEF PoolTypeOK, Accounts
  <2>2. PICK p \in Nat, q \in Nat, v \in Nat, r \in Accounts :
          p = Payout(payment) /\ q = RelayFee(payment) /\ v = payment.amount /\ r = payment.recipient
    BY <1>1, <1>2, <1>4, <2>1
  <2>3. /\ tokens[Vault] \in Nat /\ tokens[r] \in Nat /\ tokens[Relayer] \in Nat
        /\ tokens[Vault] >= v
    BY <2>1, <2>2, <1>3
  <2>4. tokens' = [tokens EXCEPT ![Vault] = tokens[Vault] - v, ![r] = tokens[r] + p,
                                 ![Relayer] = tokens[Relayer] + q]
    BY <1>7, <2>1, <2>2
  <2>5. /\ tokens' \in [Accounts -> Nat]
        /\ tokens'[Vault] = tokens[Vault] - v /\ tokens'[r] = tokens[r] + p
    BY <2>1, <2>2, <2>3, <2>4
  <2>6. ASSUME NEW order \in Orders PROVE tokens'[order] >= tokens[order]
    <3>1. order \in Accounts /\ order # Vault /\ tokens[order] \in Nat
      BY <2>1
    <3> QED
      BY <3>1, <2>1, <2>2, <2>3, <2>4
  <2> QED
    BY <2>2, <2>5, <2>6
<1>10. PoolTypeOK'
  <2>1. nullifierRecords' \subseteq 1 .. made'
    BY <1>1, <1>6 DEF PoolTypeOK
  <2> QED
    BY <2>1, <1>6, <1>8, <1>9 DEF PoolTypeOK
<1>11. \E j \in DOMAIN events' : events'[j] = event
  BY <1>8
<1> QED
  BY <1>1, <1>4, <1>6, <1>8, <1>9, <1>10, <1>11 DEF event

-----------------------------------------------------------------------------
(* The tree, and the notes that are or will be in it *)

TreeInv == NotesOK /\ LeavesOK /\ PaymentsOK

(* The notes of the tree and of payments are notes. *)
LEMMA NotesAre ==
  ASSUME TreeInv
  PROVE  /\ \A leaf \in Leaves : leaf \in Note /\ leaf.id <= made /\ leaf.label \in DOMAIN depositRecords
         /\ \A payment \in Payments :
              /\ payment.change \in Note /\ payment.change.id <= made
              /\ payment.change.label \in DOMAIN depositRecords
              /\ payment.nullifier \in 1 .. MaxNotes /\ payment.nullifier <= made
              /\ payment.amount \in Nat /\ payment.relayFeeBps \in Nat
              /\ payment.recipient \in Shops \cup Orders
         /\ \A n \in nullifierRecords : n \in 1 .. MaxNotes /\ n <= made
<1>1. \A leaf \in Leaves : leaf \in Notes
  BY DEF Notes
<1>2. \A payment \in Payments : payment.change \in Notes
  BY DEF Notes
<1>3. ASSUME NEW payment \in Payments
      PROVE  /\ payment.nullifier \in 1 .. MaxNotes /\ payment.nullifier <= made
             /\ payment.amount \in Nat /\ payment.relayFeeBps \in Nat
             /\ payment.recipient \in Shops \cup Orders
  <2>1. PaymentOK(payment)
    BY DEF TreeInv, PaymentsOK
  <2>2. PICK leaf \in Leaves : Spends(payment, leaf)
    BY <2>1 DEF PaymentOK
  <2> QED
    BY <2>1, <2>2, <1>1 DEF PaymentOK, Spends, TreeInv, NotesOK, Note
<1>4. \A n \in nullifierRecords : n \in 1 .. MaxNotes /\ n <= made
  BY <1>1 DEF TreeInv, LeavesOK, NotesOK, Note
<1> QED
  BY <1>1, <1>2, <1>3, <1>4 DEF TreeInv, NotesOK

(* Nothing lands, and no note is made. *)
LEMMA QuietKeepsTree ==
  ASSUME TreeInv, UNCHANGED <<events, nullifierRecords, depositRecords, made>>,
         Payments' \subseteq Payments, Notes' \subseteq Notes
  PROVE  TreeInv'
<1>1. Leaves' = Leaves
  BY DEF Leaves
<1>2. NotesOK'
  BY DEF TreeInv, NotesOK
<1>3. LeavesOK'
  BY <1>1 DEF TreeInv, LeavesOK, Live
<1>4. \A payment \in Payments : PaymentOK(payment)'
  BY <1>1 DEF TreeInv, PaymentsOK, PaymentOK
<1>5. PaymentsOK'
  BY <1>4 DEF TreeInv, PaymentsOK
<1> QED
  BY <1>2, <1>3, <1>5 DEF TreeInv

(* A note of a new deposit, with a new label. *)
LEMMA DepositKeepsTree ==
  ASSUME TreeInv, made \in 0 .. MaxNotes, made' = made + 1, NEW note \in Note, note.id = made + 1,
         note.label \notin DOMAIN depositRecords,
         DOMAIN depositRecords' = DOMAIN depositRecords \cup {note.label},
         Leaves' = Leaves \cup {note}, nullifierRecords' = nullifierRecords,
         Payments' = Payments, Notes' \subseteq Notes \cup {note}
  PROVE  TreeInv'
<1>1. PICK n \in Nat : n = made
  BY MaxAssumption
<1>2. \A m \in Notes : m \in Note /\ m.id <= n /\ m.id # note.id /\ m.label \in DOMAIN depositRecords
  BY <1>1 DEF TreeInv, NotesOK, Note
<1>3. NotesOK'
  <2>1. \A m \in Notes' : m \in Note /\ m.id <= made' /\ m.label \in DOMAIN depositRecords'
    BY <1>1, <1>2 DEF Note
  <2>2. \A m, o \in Notes' : m.id = o.id => m = o
    BY <1>2 DEF TreeInv, NotesOK
  <2> QED
    BY <2>1, <2>2 DEF NotesOK
<1>4. LeavesOK'
  <2>1. \A m \in Leaves : m.label # note.label
    BY <1>2 DEF Notes
  <2>2. \A m, o \in Leaves' : Live(m)' /\ Live(o)' /\ m.label = o.label => m = o
    BY <2>1 DEF TreeInv, LeavesOK, Live
  <2>3. \A k \in nullifierRecords' : \E leaf \in Leaves' : leaf.id = k
    BY DEF TreeInv, LeavesOK
  <2> QED
    BY <2>2, <2>3 DEF LeavesOK
<1>5. \A payment \in Payments : PaymentOK(payment)'
  <2> SUFFICES ASSUME NEW payment \in Payments PROVE PaymentOK(payment)'
    OBVIOUS
  <2>1. PaymentOK(payment) /\ payment.change # note
    BY <1>2 DEF TreeInv, PaymentsOK, Notes
  <2> QED
    BY <2>1 DEF PaymentOK
<1>6. PaymentsOK'
  BY <1>5 DEF TreeInv, PaymentsOK
<1> QED
  BY <1>3, <1>4, <1>6 DEF TreeInv

(* prepareWithdrawal: a payment of a leaf, with a change note of its own. *)
LEMMA PrepareKeepsTree ==
  ASSUME TreeInv, made \in 0 .. MaxNotes, made' = made + 1, NEW note, NEW recipient \in Shops \cup Orders,
         NEW amount, NEW relayFeeBps \in Nat,
         Preparable(note, amount), UNCHANGED poolVars,
         NEW payment, payment = Prepared(note, recipient, amount, relayFeeBps),
         Payments' = Payments \cup {payment}, Notes' \subseteq Notes \cup {payment.change}
  PROVE  /\ TreeInv'
         /\ payment.change \in Note /\ payment.change.id = made + 1
         /\ payment.change.label = note.label /\ payment.nullifier = note.id
         /\ payment.relayFeeBps = relayFeeBps
<1>1. PICK n \in Nat : n = made /\ n + 1 \in 1 .. MaxNotes
  BY MaxAssumption DEF Preparable
<1>2. note \in Leaves /\ note \in Note /\ note.id <= n /\ note.label \in DOMAIN depositRecords
  BY <1>1, NotesAre DEF Preparable
<1>3. amount \in Nat /\ note.value - amount \in Nat /\ note.value = amount + (note.value - amount)
  BY <1>2 DEF Preparable, Note
<1>4. /\ payment.nullifier = note.id /\ payment.recipient = recipient /\ payment.amount = amount
      /\ payment.relayFeeBps = relayFeeBps /\ payment.aspRoot = {note.label}
      /\ payment.change = [id |-> n + 1, label |-> note.label, value |-> note.value - amount]
  BY <1>1 DEF Prepared, Preparable
<1>5. /\ payment.change \in Note /\ payment.change.id = n + 1
      /\ payment.change.label = note.label /\ payment.change.value = note.value - amount
  BY <1>1, <1>2, <1>3, <1>4 DEF Note
<1>6. Leaves' = Leaves /\ nullifierRecords' = nullifierRecords /\ depositRecords' = depositRecords
  BY DEF poolVars, Leaves
<1>7. \A m \in Notes : m \in Note /\ m.id <= n /\ m.id # n + 1 /\ m.label \in DOMAIN depositRecords
  BY <1>1 DEF TreeInv, NotesOK, Note
<1>8. NotesOK'
  <2>1. \A m \in Notes' : m \in Note /\ m.id <= made' /\ m.label \in DOMAIN depositRecords'
    BY <1>1, <1>2, <1>5, <1>6, <1>7 DEF Note
  <2>2. \A m, o \in Notes' : m.id = o.id => m = o
    BY <1>5, <1>7 DEF TreeInv, NotesOK
  <2> QED
    BY <2>1, <2>2 DEF NotesOK
<1>9. LeavesOK'
  BY <1>6 DEF TreeInv, LeavesOK, Live
<1>10. \A p \in Payments : PaymentOK(p)' /\ p.change # payment.change
  <2>1. \A p \in Payments : PaymentOK(p)'
    BY <1>6 DEF TreeInv, PaymentsOK, PaymentOK
  <2>2. \A p \in Payments : p.change # payment.change
    BY <1>5, <1>7 DEF Notes
  <2> QED
    BY <2>1, <2>2
<1>11. PaymentOK(payment)'
  <2>1. payment.change \notin Leaves
    BY <1>5, <1>7 DEF Notes
  <2>2. Spends(payment, note)
    BY <1>3, <1>4, <1>5 DEF Spends
  <2> QED
    BY <2>1, <2>2, <1>2, <1>3, <1>4, <1>5, <1>6 DEF PaymentOK
<1>12. PaymentsOK'
  BY <1>10, <1>11 DEF TreeInv, PaymentsOK
<1> QED
  BY <1>1, <1>4, <1>5, <1>8, <1>9, <1>12 DEF TreeInv

(* The change of a payment that can still land is in no tree. *)
LEMMA FreshChange ==
  ASSUME TreeInv, NEW payment \in Payments, payment.nullifier \notin nullifierRecords
  PROVE  /\ payment.change \notin Leaves /\ payment.change.id \notin nullifierRecords
         /\ \A p \in Payments : p.nullifier # payment.change.id
<1>1. payment.change \notin Leaves
  BY DEF TreeInv, PaymentsOK, PaymentOK
<1>2. \A leaf \in Leaves : leaf.id # payment.change.id
  BY <1>1 DEF TreeInv, NotesOK, Notes
<1>3. payment.change.id \notin nullifierRecords
  BY <1>2 DEF TreeInv, LeavesOK
<1>4. ASSUME NEW p \in Payments PROVE p.nullifier # payment.change.id
  <2>1. PICK leaf \in Leaves : Spends(p, leaf)
    BY DEF TreeInv, PaymentsOK, PaymentOK
  <2> QED
    BY <2>1, <1>2 DEF Spends
<1> QED
  BY <1>1, <1>3, <1>4

(* relay_withdrawal: a live leaf makes room for its change. *)
LEMMA RelayKeepsTree ==
  ASSUME TreeInv, NEW payment \in Payments, payment.nullifier \notin nullifierRecords,
         Leaves' = Leaves \cup {payment.change},
         nullifierRecords' = nullifierRecords \cup {payment.nullifier},
         depositRecords' = depositRecords, made' = made,
         Payments' = Payments, Notes' = Notes
  PROVE  TreeInv'
<1>1. PICK spent \in Leaves : Spends(payment, spent)
  BY DEF TreeInv, PaymentsOK, PaymentOK
<1>2. NotesOK'
  BY DEF TreeInv, NotesOK
<1>3. /\ payment.change \notin Leaves /\ payment.change.id \notin nullifierRecords
      /\ payment.change.id # payment.nullifier
  BY FreshChange
<1>4. Live(spent) /\ spent.label = payment.change.label
  BY <1>1 DEF Live, Spends
<1>5. LeavesOK'
  <2>1. \A n \in nullifierRecords' : \E leaf \in Leaves' : leaf.id = n
    BY <1>1 DEF TreeInv, LeavesOK, Spends
  <2>2. \A m \in Leaves : Live(m)' => Live(m) /\ m # spent
    BY <1>1 DEF Live, Spends
  <2>3. \A m \in Leaves : Live(m)' => m.label # payment.change.label
    BY <2>2, <1>4 DEF TreeInv, LeavesOK
  <2>4. \A m, o \in Leaves' : Live(m)' /\ Live(o)' /\ m.label = o.label => m = o
    BY <2>2, <2>3 DEF TreeInv, LeavesOK
  <2> QED
    BY <2>1, <2>4 DEF LeavesOK
<1>6. \A p \in Payments : PaymentOK(p)'
  <2> SUFFICES ASSUME NEW p \in Payments PROVE PaymentOK(p)'
    OBVIOUS
  <2>1. PaymentOK(p)
    BY DEF TreeInv, PaymentsOK
  <2>2. p.change \in Leaves' => p.nullifier \in nullifierRecords'
    <3>1. CASE p.change \in Leaves
      BY <3>1, <2>1 DEF PaymentOK
    <3>2. CASE p.change = payment.change
      BY <3>2 DEF TreeInv, PaymentsOK
    <3> QED
      BY <3>1, <3>2
  <2> QED
    BY <2>1, <2>2 DEF PaymentOK
<1>7. PaymentsOK'
  BY <1>6 DEF TreeInv, PaymentsOK
<1> QED
  BY <1>2, <1>5, <1>7 DEF TreeInv

-----------------------------------------------------------------------------
(* The books and the requests *)

(* Whose deposits the notes come from. *)
OwnersOK ==
  /\ \A note \in DOMAIN books : depositRecords[note.label] = Buyer
  /\ \A payment \in handed :
       depositRecords[payment.change.label] = Other /\ payment.recipient \in Orders

(* What the status of a note says of it. *)
NoteOK(note) ==
  /\ books[note] = "spendable" =>
       /\ note.id \notin nullifierRecords
       /\ note.id \notin DOMAIN preparedByNullifier
       /\ ~InDoubt(note.id)
  /\ books[note] = "spent" => note.id \in nullifierRecords
  /\ books[note] \in {"pending", "discarded"} =>
       /\ note.id \notin nullifierRecords
       /\ \A payment \in Payments : payment.nullifier # note.id
  /\ note.id \in nullifierRecords =>
       \E i \in DOMAIN requests :
         requests[i].tx = "landed" /\ requests[i].payment.nullifier = note.id

NotesFit == \A note \in DOMAIN books : NoteOK(note)

(* The buyer has every leaf of a deposit he knows, and has given up none. *)
Known(label) == \E note \in DOMAIN books : note.label = label

LeavesKept ==
  \A leaf \in Leaves :
    leaf.value > 0 /\ Known(leaf.label) => leaf \in DOMAIN books /\ books[leaf] # "discarded"

(* The change of a payment that has any is kept until the payment is over. *)
ChangePending(payment) ==
  payment.change.value > 0 =>
    payment.change \in DOMAIN books /\ books[payment.change] = "pending"

DraftOK(draft) ==
  LET payment == draft.payment
  IN /\ draft = [note |-> draft.note, payment |-> payment]
     /\ draft.note \in DOMAIN books /\ draft.note.id = payment.nullifier
     /\ draft.note.label = payment.change.label
     /\ payment.recipient \in Shops
     /\ payment.change \notin DOMAIN books /\ payment.change \notin Leaves
     /\ \A i \in DOMAIN requests : requests[i].payment # payment
     /\ books[draft.note] \in {"spendable", "locked", "spent"}
     /\ books[draft.note] = "locked" => payment.nullifier \in DOMAIN preparedByNullifier

DraftsOK == \A draft \in drafts : DraftOK(draft)

(* A request that may have spent, or may yet spend, the note of an entry. *)
Concerns(i, n) ==
  requests[i].payment.nullifier = n /\ (Alive(requests[i]) \/ requests[i].tx = "landed")

EntryOK(n) ==
  LET entry == preparedByNullifier[n]
      note == entry.draft.note
      payment == entry.draft.payment
  IN /\ payment.nullifier = n /\ note.id = n
     /\ note \in DOMAIN books /\ books[note] \in {"locked", "spent"}
     /\ \E i \in DOMAIN requests : requests[i].payment = payment
     /\ ChangePending(payment)
     /\ books[note] = "spent" => payment.change \notin Leaves
     /\ books[note] = "locked" /\ entry.status = "prepared" =>
          \A i \in DOMAIN requests :
            Concerns(i, n) => requests[i].waiting /\ requests[i].payment = payment

EntriesOK == \A n \in DOMAIN preparedByNullifier : EntryOK(n)

(* A request spends a note of the books.  While the client waits for it, its  *)
(* entry is there or its note spent.                                          *)
SentOK(i) ==
  LET payment == requests[i].payment
  IN /\ \E note \in DOMAIN books :
          /\ note.id = payment.nullifier
          /\ requests[i].waiting =>
               \/ books[note] = "spent"
               \/ /\ payment.nullifier \in DOMAIN preparedByNullifier
                  /\ Entry(payment).draft.payment = payment
     /\ payment.recipient \in Shops
     /\ Alive(requests[i]) /\ payment.nullifier \notin nullifierRecords => ChangePending(payment)

RequestsSent ==
  /\ \A i \in DOMAIN requests : SentOK(i)
  /\ \A i, j \in DOMAIN requests :
       requests[i].waiting /\ requests[j].waiting /\ requests[i].payment = requests[j].payment => i = j

BooksInv == OwnersOK /\ NotesFit /\ LeavesKept /\ DraftsOK /\ EntriesOK /\ RequestsSent

RequestsAreSound == RequestsOK /\ DraftsAreFree

SvmInv == SvmTypeOK /\ TreeInv /\ RequestsAreSound /\ OrdersOK /\ BooksInv

-----------------------------------------------------------------------------
(* The sequence of requests *)

LEMMA RequestsMapped ==
  ASSUME requests \in Seq(Request), NEW f, requests' = f, f = [i \in DOMAIN requests |-> f[i]],
         \A i \in DOMAIN requests : f[i] \in Request /\ f[i].payment = requests[i].payment
  PROVE  /\ requests' \in Seq(Request)' /\ Len(requests') = Len(requests)
         /\ DOMAIN requests' = DOMAIN requests
<1>1. Len(requests) \in Nat /\ DOMAIN requests = 1 .. Len(requests)
  BY RequestsShape
<1>2. DOMAIN f = DOMAIN requests
  BY Zenon
<1>3. \A i \in DOMAIN f : f[i] \in Request'
  BY <1>2 DEF Request
<1>4. f \in [1 .. Len(requests) -> Request']
  BY <1>1, <1>2, <1>3
<1>5. f \in Seq(Request') /\ Len(f) = Len(requests)
  BY <1>1, <1>4, SeqDef, LenProperties
<1> QED
  BY <1>2, <1>5

(* One request changes, and not its payment. *)
LEMMA RequestUpdated ==
  ASSUME requests \in Seq(Request), NEW i \in DOMAIN requests, NEW r \in Request,
         r.payment = requests[i].payment, requests' = [requests EXCEPT ![i] = r]
  PROVE  /\ requests' \in Seq(Request)' /\ Len(requests') = Len(requests)
         /\ DOMAIN requests' = DOMAIN requests
         /\ \A j \in DOMAIN requests : j # i => requests'[j] = requests[j]
         /\ requests'[i] = r
<1>1. \A j \in DOMAIN requests : requests[j] \in Request
  BY RequestsShape
<1>2. \A j \in DOMAIN requests : requests'[j] = IF j = i THEN r ELSE requests[j]
  OBVIOUS
<1>3. requests' = [j \in DOMAIN requests |-> requests'[j]]
  OBVIOUS
<1>4. /\ requests' \in Seq(Request)' /\ Len(requests') = Len(requests)
      /\ DOMAIN requests' = DOMAIN requests
  BY <1>1, <1>2, <1>3, RequestsMapped
<1> QED
  BY <1>2, <1>4

(* One more request is made. *)
LEMMA RequestAdded ==
  ASSUME requests \in Seq(Request), NEW payment, requests' = Append(requests, NewRequest(payment))
  PROVE  /\ requests' \in Seq(Request)' /\ Len(requests') = Len(requests) + 1
         /\ DOMAIN requests' = DOMAIN requests \cup {Len(requests')}
         /\ Len(requests') \notin DOMAIN requests
         /\ \A i \in DOMAIN requests : requests'[i] = requests[i]
         /\ requests'[Len(requests')] = NewRequest(payment)
<1> DEFINE r == NewRequest(payment)
           R == {requests[i].payment : i \in DOMAIN requests} \cup {payment}
           T == [payment : R,
                 pc : {"verify", "verified", "relaying", "settled", "failed", "rejected"},
                 tx : {"none", "sent", "landed", "gone"}, waiting : BOOLEAN]
<1>1. PICK n \in Nat : n = Len(requests) /\ DOMAIN requests = 1 .. n
  BY RequestsShape
<1>2. r \in T /\ r.payment = payment
  BY DEF NewRequest
<1>3. \A i \in DOMAIN requests : requests[i] \in T
  BY RequestsShape DEF Request
<1> HIDE DEF T, r
<1>4. requests \in Seq(T)
  <2>1. requests \in [1 .. n -> T]
    <3>1. requests \in [1 .. n -> Request]
      BY <1>1, LenProperties
    <3> QED
      BY <3>1, <1>1, <1>3
  <2> QED
    BY <2>1, SeqDef
<1>5. /\ requests' \in Seq(T) /\ Len(requests') = n + 1
      /\ \A i \in 1 .. n : requests'[i] = requests[i]
      /\ requests'[n + 1] = r
  BY <1>1, <1>2, <1>4, AppendProperties DEF r
<1>6. DOMAIN requests' = 1 .. n + 1
  BY <1>5, LenProperties
<1>7. R \subseteq {requests'[i].payment : i \in DOMAIN requests'}
  <2>1. \A i \in 1 .. n : requests[i].payment \in {requests'[j].payment : j \in DOMAIN requests'}
    BY <1>5, <1>6
  <2>2. payment \in {requests'[j].payment : j \in DOMAIN requests'}
    BY <1>2, <1>5, <1>6
  <2> QED
    BY <2>1, <2>2, <1>1
<1>8. T \subseteq Request'
  BY <1>7 DEF T, Request
<1>9. requests' \in Seq(Request')
  BY <1>5, <1>8, SeqMonotonic
<1> QED
  BY <1>1, <1>5, <1>6, <1>9 DEF r

-----------------------------------------------------------------------------
(* What the facilitator does to requests *)

(* What a step of the facilitator, or the end of a transaction that does not   *)
(* land, may do to a request.                                                  *)
Advances(i) ==
  /\ requests'[i].payment = requests[i].payment
  /\ requests'[i].waiting = requests[i].waiting
  /\ requests'[i].tx = "landed" <=> requests[i].tx = "landed"
  /\ Alive(requests'[i]) => Alive(requests[i])
  /\ requests'[i].pc = "settled" => requests'[i].tx = "landed"
  /\ requests'[i].pc \in {"verify", "verified", "rejected"} => requests'[i].tx = "none"

FacilitatorStep ==
  /\ UNCHANGED <<poolVars, clientVars, handed, made>>
  /\ faults' \in 0 .. MaxFaults
  /\ settlementsInFlight' \subseteq 1 .. made
  /\ requests' \in Seq(Request)' /\ Len(requests') = Len(requests) /\ DOMAIN requests' = DOMAIN requests
  /\ \A i \in DOMAIN requests : Advances(i)

(* Such a step disturbs no record, note or order. *)
LEMMA FacilitatorKeeps ==
  ASSUME SvmInv, FacilitatorStep
  PROVE  SvmInv'
<1>1. /\ events' = events /\ nullifierRecords' = nullifierRecords /\ depositRecords' = depositRecords
      /\ pool' = pool /\ intents' = intents /\ tokens' = tokens /\ retained' = retained
      /\ books' = books /\ preparedByNullifier' = preparedByNullifier /\ drafts' = drafts
      /\ handed' = handed /\ made' = made /\ DOMAIN requests' = DOMAIN requests
  BY DEF FacilitatorStep, poolVars, clientVars
<1>2. \A i \in DOMAIN requests :
        /\ requests'[i].payment = requests[i].payment
        /\ requests'[i].waiting = requests[i].waiting
        /\ requests'[i].tx = "landed" <=> requests[i].tx = "landed"
        /\ Alive(requests'[i]) => Alive(requests[i])
  BY DEF FacilitatorStep, Advances
<1>3. Payments' = Payments
  <2>1. {requests'[i].payment : i \in DOMAIN requests'} = {requests[i].payment : i \in DOMAIN requests}
    BY <1>1, <1>2
  <2> QED
    BY <1>1, <2>1 DEF Payments
<1>4. Leaves' = Leaves
  BY <1>1 DEF Leaves
<1>5. Notes' = Notes
  BY <1>1, <1>3, <1>4 DEF Notes
<1>6. SvmTypeOK'
  <2>1. PoolTypeOK'
    BY <1>1 DEF SvmInv, SvmTypeOK, PoolTypeOK
  <2> QED
    BY <2>1, <1>1 DEF SvmInv, SvmTypeOK, FacilitatorStep
<1>7. TreeInv'
  BY <1>1, <1>3, <1>5, QuietKeepsTree DEF SvmInv
<1>8. RequestsAreSound'
  <2>1. ASSUME NEW i \in DOMAIN requests PROVE RequestOK(requests[i])'
    <3>1. RequestOK(requests[i])
      BY DEF SvmInv, RequestsAreSound, RequestsOK
    <3>2. Advances(i)
      BY DEF FacilitatorStep
    <3> QED
      BY <1>1, <3>1, <3>2 DEF RequestOK, Advances, Paid
  <2> QED
    BY <1>1, <2>1 DEF SvmInv, RequestsAreSound, RequestsOK, DraftsAreFree
<1>9. OrdersOK'
  BY <1>1 DEF SvmInv, OrdersOK, OrderOK
<1>10. OwnersOK' /\ LeavesKept'
  BY <1>1, <1>4 DEF SvmInv, BooksInv, OwnersOK, LeavesKept, Known
<1>11. NotesFit'
  <2> SUFFICES ASSUME NEW note \in DOMAIN books PROVE NoteOK(note)'
    BY <1>1 DEF NotesFit
  <2>1. NoteOK(note)
    BY DEF SvmInv, BooksInv, NotesFit
  <2>2. ~InDoubt(note.id) => ~InDoubt(note.id)'
    BY <1>1, <1>2 DEF InDoubt
  <2>3. (\E i \in DOMAIN requests : requests[i].tx = "landed" /\ requests[i].payment.nullifier = note.id)
        => (\E i \in DOMAIN requests : requests'[i].tx = "landed" /\ requests'[i].payment.nullifier = note.id)
    BY <1>2
  <2> QED
    BY <1>1, <1>3, <2>1, <2>2, <2>3 DEF NoteOK
<1>12. DraftsOK'
  <2> SUFFICES ASSUME NEW draft \in drafts PROVE DraftOK(draft)'
    BY <1>1 DEF DraftsOK
  <2>1. DraftOK(draft)
    BY DEF SvmInv, BooksInv, DraftsOK
  <2> QED
    BY <2>1, <1>1, <1>2, <1>4 DEF DraftOK
<1>13. EntriesOK'
  <2> SUFFICES ASSUME NEW n \in DOMAIN preparedByNullifier PROVE EntryOK(n)'
    BY <1>1 DEF EntriesOK
  <2>1. EntryOK(n)
    BY DEF SvmInv, BooksInv, EntriesOK
  <2>2. \A i \in DOMAIN requests : Concerns(i, n)' => Concerns(i, n)
    BY <1>2 DEF Concerns
  <2> QED
    BY <2>1, <2>2, <1>1, <1>2, <1>4 DEF EntryOK, ChangePending
<1>14. RequestsSent'
  <2>1. ASSUME NEW i \in DOMAIN requests PROVE SentOK(i)'
    <3>1. SentOK(i)
      BY DEF SvmInv, BooksInv, RequestsSent
    <3> QED
      BY <3>1, <1>1, <1>2 DEF SentOK, ChangePending, Entry
  <2> QED
    BY <2>1, <1>1, <1>2 DEF SvmInv, BooksInv, RequestsSent
<1> QED
  BY <1>6, <1>7, <1>8, <1>9, <1>10, <1>11, <1>12, <1>13, <1>14 DEF SvmInv, BooksInv

-----------------------------------------------------------------------------
(* The facilitator *)

LEMMA RequestFields ==
  ASSUME requests \in Seq(Request), NEW i \in DOMAIN requests
  PROVE  /\ requests[i] \in Request
         /\ requests[i] = [payment |-> requests[i].payment, pc |-> requests[i].pc,
                           tx |-> requests[i].tx, waiting |-> requests[i].waiting]
<1>1. requests[i] \in Request
  BY RequestsShape
<1> QED
  BY <1>1 DEF Request

(* One request gets another pc and tx. *)
LEMMA OneAdvances ==
  ASSUME SvmInv, NEW i \in DOMAIN requests, NEW pc, NEW tx,
         [requests[i] EXCEPT !.pc = pc, !.tx = tx] \in Request,
         requests' = [requests EXCEPT ![i] = [requests[i] EXCEPT !.pc = pc, !.tx = tx]],
         tx = "landed" <=> requests[i].tx = "landed",
         pc \in {"verify", "verified"} \/ tx = "sent" => Alive(requests[i]),
         pc = "settled" => tx = "landed",
         pc \in {"verify", "verified", "rejected"} => tx = "none",
         UNCHANGED <<poolVars, clientVars, handed, made>>,
         faults' \in 0 .. MaxFaults, settlementsInFlight' \subseteq 1 .. made
  PROVE  FacilitatorStep
<1> DEFINE r == [requests[i] EXCEPT !.pc = pc, !.tx = tx]
<1>1. requests \in Seq(Request)
  BY DEF SvmInv, SvmTypeOK
<1>2. /\ r.payment = requests[i].payment /\ r.waiting = requests[i].waiting
      /\ r.pc = pc /\ r.tx = tx /\ r \in Request
  BY <1>1, RequestFields
<1> HIDE DEF r
<1>3. requests' = [requests EXCEPT ![i] = r]
  BY DEF r
<1>4. /\ requests' \in Seq(Request)' /\ Len(requests') = Len(requests)
      /\ DOMAIN requests' = DOMAIN requests
      /\ \A j \in DOMAIN requests : j # i => requests'[j] = requests[j]
      /\ requests'[i] = r
  BY <1>1, <1>2, <1>3, RequestUpdated
<1>5. \A j \in DOMAIN requests : j # i => Advances(j)
  BY <1>4 DEF Advances, SvmInv, RequestsAreSound, RequestsOK, RequestOK
<1>6. Advances(i)
  BY <1>2, <1>4 DEF Advances, Alive
<1> QED
  BY <1>4, <1>5, <1>6 DEF FacilitatorStep

LEMMA FaultCounts == ASSUME SvmInv, Fault PROVE faults' \in 0 .. MaxFaults
BY MaxAssumption DEF Fault, SvmInv, SvmTypeOK

LEMMA VerifyAdvances ==
  ASSUME SvmInv, NEW i \in DOMAIN requests, Verify(i)
  PROVE  FacilitatorStep
<1>1. /\ requests \in Seq(Request) /\ faults \in 0 .. MaxFaults
      /\ settlementsInFlight \subseteq 1 .. made
  BY DEF SvmInv, SvmTypeOK
<1>2. requests[i].pc = "verify" /\ requests[i].tx = "none" /\ Alive(requests[i])
  BY DEF Verify, SvmInv, RequestsAreSound, RequestsOK, RequestOK, Alive
<1>3. PICK pc \in {"verified", "rejected"} : Reply(i, pc)
  BY DEF Verify
<1>4. [requests[i] EXCEPT !.pc = pc, !.tx = "none"] = [requests[i] EXCEPT !.pc = pc]
  BY <1>1, <1>2, RequestFields
<1>5. [requests[i] EXCEPT !.pc = pc, !.tx = "none"] \in Request
  BY <1>1, RequestFields DEF Request
<1>6. faults' \in 0 .. MaxFaults
  BY <1>1, FaultCounts DEF Verify
<1>7. requests' = [requests EXCEPT ![i] = [requests[i] EXCEPT !.pc = pc, !.tx = "none"]]
  BY <1>3, <1>4 DEF Reply
<1>8. UNCHANGED <<poolVars, clientVars, settlementsInFlight, handed, made>>
  BY DEF Verify
<1> QED
  BY <1>1, <1>2, <1>5, <1>6, <1>7, <1>8, OneAdvances

(* The nullifier of a request, and what the set in flight may become. *)
LEMMA InFlight ==
  ASSUME SvmInv, NEW i \in DOMAIN requests
  PROVE  /\ settlementsInFlight \cup {requests[i].payment.nullifier} \subseteq 1 .. made
         /\ settlementsInFlight \ {requests[i].payment.nullifier} \subseteq 1 .. made
<1>1. requests[i].payment \in Payments
  BY DEF Payments
<1>2. requests[i].payment.nullifier \in 1 .. made
  <2>1. made \in 0 .. MaxNotes
    BY DEF SvmInv, SvmTypeOK
  <2> QED
    BY <1>1, <2>1, NotesAre, MaxAssumption DEF SvmInv
<1> QED
  BY <1>2 DEF SvmInv, SvmTypeOK

LEMMA SettleAdvances ==
  ASSUME SvmInv, NEW i \in DOMAIN requests, Settle(i)
  PROVE  FacilitatorStep
<1>1. requests \in Seq(Request) /\ faults \in 0 .. MaxFaults
  BY DEF SvmInv, SvmTypeOK
<1>2. /\ requests[i].pc = "verified" /\ requests[i].tx = "none" /\ Alive(requests[i])
      /\ UNCHANGED <<poolVars, clientVars, handed, made, faults>>
  BY DEF Settle, SvmInv, RequestsAreSound, RequestsOK, RequestOK, Alive
<1>3. settlementsInFlight' \subseteq 1 .. made
  <2>1. settlementsInFlight \subseteq 1 .. made
    BY DEF SvmInv, SvmTypeOK
  <2> QED
    BY <2>1, InFlight DEF Settle
<1>4. faults' \in 0 .. MaxFaults /\ UNCHANGED <<poolVars, clientVars, handed, made>>
  BY <1>1, <1>2
<1>5. "sent" # "landed" /\ "none" # "landed" /\ "relaying" # "settled" /\ "failed" # "settled"
  OBVIOUS
<1>6. CASE requests' = [requests EXCEPT ![i] = [requests[i] EXCEPT !.pc = "relaying", !.tx = "sent"]]
  <2>1. [requests[i] EXCEPT !.pc = "relaying", !.tx = "sent"] \in Request
    BY <1>1, RequestFields DEF Request
  <2> QED
    BY <1>2, <1>3, <1>6, <1>4, <1>5, <2>1, OneAdvances
<1>7. CASE requests' = [requests EXCEPT ![i] = [requests[i] EXCEPT !.pc = "failed"]]
  <2>1. [requests[i] EXCEPT !.pc = "failed", !.tx = "none"] \in Request
    BY <1>1, RequestFields DEF Request
  <2>2. [requests[i] EXCEPT !.pc = "failed", !.tx = "none"] = [requests[i] EXCEPT !.pc = "failed"]
    BY <1>1, <1>2, RequestFields
  <2> QED
    BY <1>2, <1>3, <1>7, <1>4, <1>5, <2>1, <2>2, OneAdvances
<1>8. \/ requests' = [requests EXCEPT ![i].pc = "relaying", ![i].tx = "sent"]
      \/ requests' = [requests EXCEPT ![i].pc = "failed"]
  BY DEF Settle, Reply
<1>9. [requests EXCEPT ![i].pc = "relaying", ![i].tx = "sent"]
        = [requests EXCEPT ![i] = [requests[i] EXCEPT !.pc = "relaying", !.tx = "sent"]]
  BY <1>1, RequestFields
<1> QED
  BY <1>6, <1>7, <1>8, <1>9

LEMMA ExpireAdvances ==
  ASSUME SvmInv, NEW i \in DOMAIN requests, Expire(i)
  PROVE  FacilitatorStep
<1>1. /\ requests \in Seq(Request) /\ faults \in 0 .. MaxFaults
      /\ settlementsInFlight \subseteq 1 .. made
  BY DEF SvmInv, SvmTypeOK
<1>2. /\ requests[i].tx = "sent" /\ requests[i].pc \notin {"settled", "verify", "verified", "rejected"}
      /\ requests' = [requests EXCEPT ![i].tx = "gone"]
      /\ UNCHANGED <<poolVars, clientVars, settlementsInFlight, handed, made, faults>>
  BY DEF Expire, SvmInv, RequestsAreSound, RequestsOK, RequestOK
<1>3. PICK pc : pc = requests[i].pc
  OBVIOUS
<1>4. /\ [requests[i] EXCEPT !.pc = pc, !.tx = "gone"] \in Request
      /\ [requests[i] EXCEPT !.pc = pc, !.tx = "gone"] = [requests[i] EXCEPT !.tx = "gone"]
  BY <1>1, <1>3, RequestFields DEF Request
<1>5. requests' = [requests EXCEPT ![i] = [requests[i] EXCEPT !.pc = pc, !.tx = "gone"]]
  BY <1>2, <1>4
<1> QED
  BY <1>1, <1>2, <1>3, <1>4, <1>5, OneAdvances DEF Alive

(* The relay returns or throws. *)
LEMMA RelayEnds ==
  ASSUME SvmInv, NEW i \in DOMAIN requests, Confirm(i) \/ RelayThrows(i)
  PROVE  FacilitatorStep
<1>1. requests \in Seq(Request) /\ faults \in 0 .. MaxFaults
  BY DEF SvmInv, SvmTypeOK
<1>2. PICK pc \in {"settled", "failed"} : /\ Reply(i, pc)
                                          /\ pc = "settled" => requests[i].tx = "landed"
  BY DEF Confirm, RelayThrows
<1>3. PICK tx : tx = requests[i].tx
  OBVIOUS
<1>4. /\ [requests[i] EXCEPT !.pc = pc, !.tx = tx] \in Request
      /\ [requests[i] EXCEPT !.pc = pc, !.tx = tx] = [requests[i] EXCEPT !.pc = pc]
  BY <1>1, <1>3, RequestFields DEF Request
<1>5. requests' = [requests EXCEPT ![i] = [requests[i] EXCEPT !.pc = pc, !.tx = tx]]
  BY <1>2, <1>4 DEF Reply
<1>6. settlementsInFlight' \subseteq 1 .. made /\ faults' \in 0 .. MaxFaults
  BY <1>1, InFlight, FaultCounts DEF Confirm, RelayThrows
<1>7. UNCHANGED <<poolVars, clientVars, handed, made>>
  BY DEF Confirm, RelayThrows
<1> QED
  BY <1>1, <1>2, <1>3, <1>4, <1>5, <1>6, <1>7, OneAdvances DEF Alive

LEMMA CrashAdvances ==
  ASSUME SvmInv, FacilitatorCrash
  PROVE  FacilitatorStep
<1>1. requests \in Seq(Request)
  BY DEF SvmInv, SvmTypeOK
<1>2. ASSUME NEW i \in DOMAIN requests
      PROVE  /\ requests'[i] \in Request /\ Advances(i)
             /\ requests'[i].payment = requests[i].payment
  <2>1. /\ requests[i] \in Request
        /\ requests[i] = [payment |-> requests[i].payment, pc |-> requests[i].pc,
                          tx |-> requests[i].tx, waiting |-> requests[i].waiting]
    BY <1>1, RequestFields
  <2>2. RequestOK(requests[i])
    BY DEF SvmInv, RequestsAreSound, RequestsOK
  <2>3. \/ requests'[i] = [requests[i] EXCEPT !.pc = "failed"]
        \/ /\ requests[i].pc \notin {"verify", "verified", "relaying"}
           /\ requests'[i] = requests[i]
    BY DEF FacilitatorCrash
  <2>4. CASE requests'[i] = [requests[i] EXCEPT !.pc = "failed"]
    <3>1. requests'[i] \in Request
      BY <2>1, <2>4 DEF Request
    <3>2. /\ requests'[i].pc = "failed" /\ requests'[i].payment = requests[i].payment
          /\ requests'[i].tx = requests[i].tx /\ requests'[i].waiting = requests[i].waiting
      BY <2>1, <2>4
    <3> QED
      BY <3>1, <3>2 DEF Advances, Alive
  <2>5. CASE requests'[i] = requests[i]
    BY <2>1, <2>2, <2>5 DEF Advances, RequestOK
  <2> QED
    BY <2>3, <2>4, <2>5
<1>3. requests' = [i \in DOMAIN requests |-> requests'[i]]
  BY DEF FacilitatorCrash
<1>4. /\ requests' \in Seq(Request)' /\ Len(requests') = Len(requests)
      /\ DOMAIN requests' = DOMAIN requests
  BY <1>1, <1>2, <1>3, RequestsMapped
<1>5. faults' \in 0 .. MaxFaults /\ settlementsInFlight' \subseteq 1 .. made
  BY FaultCounts DEF FacilitatorCrash
<1> QED
  BY <1>2, <1>4, <1>5 DEF FacilitatorStep, FacilitatorCrash

-----------------------------------------------------------------------------
(* What the client does to requests *)

(* The client stops waiting for some requests; nothing else becomes of them. *)
Lowered(i) ==
  /\ requests'[i].payment = requests[i].payment
  /\ requests'[i].pc = requests[i].pc /\ requests'[i].tx = requests[i].tx
  /\ requests'[i].waiting => requests[i].waiting

ClientStep ==
  /\ UNCHANGED <<poolVars, settlementsInFlight, handed, made>>
  /\ faults' \in 0 .. MaxFaults
  /\ requests' \in Seq(Request)' /\ Len(requests') = Len(requests) /\ DOMAIN requests' = DOMAIN requests
  /\ \A i \in DOMAIN requests : Lowered(i)
  /\ drafts' \subseteq drafts

EntryTyped(entry) ==
  entry \in [draft : {entry.draft}, status : {"prepared", "indeterminate"}]

(* What holds whatever the hooks do to books and map. *)
LEMMA ClientStepKeeps ==
  ASSUME SvmInv, ClientStep, books' \in [DOMAIN books -> Status],
         \A n \in DOMAIN preparedByNullifier' : EntryTyped(preparedByNullifier'[n])
  PROVE  /\ SvmTypeOK' /\ TreeInv' /\ RequestsAreSound' /\ OrdersOK' /\ OwnersOK'
         /\ Payments' \subseteq Payments /\ Leaves' = Leaves /\ nullifierRecords' = nullifierRecords
         /\ DOMAIN books' = DOMAIN books
         /\ \A n : InDoubt(n)' <=> InDoubt(n)
         /\ \A n : (\E i \in DOMAIN requests' : requests'[i].tx = "landed" /\ requests'[i].payment.nullifier = n)
                   <=> (\E i \in DOMAIN requests : requests[i].tx = "landed" /\ requests[i].payment.nullifier = n)
<1>1. /\ events' = events /\ nullifierRecords' = nullifierRecords /\ depositRecords' = depositRecords
      /\ pool' = pool /\ intents' = intents /\ tokens' = tokens /\ retained' = retained
      /\ drafts' \subseteq drafts /\ handed' = handed /\ made' = made
      /\ DOMAIN requests' = DOMAIN requests
  BY DEF ClientStep, poolVars
<1>2. \A i \in DOMAIN requests :
        /\ requests'[i].payment = requests[i].payment
        /\ requests'[i].pc = requests[i].pc /\ requests'[i].tx = requests[i].tx
  BY DEF ClientStep, Lowered
<1>3. DOMAIN books' = DOMAIN books
  OBVIOUS
<1>4. Payments' \subseteq Payments
  <2>1. {requests'[i].payment : i \in DOMAIN requests'} = {requests[i].payment : i \in DOMAIN requests}
    BY <1>1, <1>2
  <2> QED
    BY <1>1, <2>1 DEF Payments
<1>5. Leaves' = Leaves
  BY <1>1 DEF Leaves
<1>6. Notes' \subseteq Notes
  BY <1>3, <1>4, <1>5 DEF Notes
<1>7. SvmTypeOK'
  <2>1. PoolTypeOK'
    BY <1>1 DEF SvmInv, SvmTypeOK, PoolTypeOK
  <2> QED
    BY <2>1, <1>1 DEF SvmInv, SvmTypeOK, ClientStep, EntryTyped
<1>8. TreeInv'
  BY <1>1, <1>4, <1>6, QuietKeepsTree DEF SvmInv
<1>9. RequestsAreSound'
  <2>1. ASSUME NEW i \in DOMAIN requests PROVE RequestOK(requests[i])'
    <3>1. RequestOK(requests[i])
      BY DEF SvmInv, RequestsAreSound, RequestsOK
    <3> QED
      BY <1>1, <1>2, <3>1 DEF RequestOK, Paid
  <2> QED
    BY <1>1, <2>1 DEF SvmInv, RequestsAreSound, RequestsOK, DraftsAreFree
<1>10. OrdersOK'
  BY <1>1 DEF SvmInv, OrdersOK, OrderOK
<1>11. OwnersOK'
  BY <1>1, <1>3 DEF SvmInv, BooksInv, OwnersOK
<1>12. \A n : InDoubt(n)' <=> InDoubt(n)
  BY <1>1, <1>2 DEF InDoubt, Alive
<1>13. \A n : (\E i \in DOMAIN requests' : requests'[i].tx = "landed" /\ requests'[i].payment.nullifier = n)
              <=> (\E i \in DOMAIN requests : requests[i].tx = "landed" /\ requests[i].payment.nullifier = n)
  BY <1>1, <1>2
<1> QED
  BY <1>1, <1>3, <1>4, <1>5, <1>7, <1>8, <1>9, <1>10, <1>11, <1>12, <1>13

-----------------------------------------------------------------------------
(* The four things a hook may do *)

(* Nothing: the entry is gone, or the request is over without having spent. *)
Unheard ==
  /\ UNCHANGED <<books, preparedByNullifier>>
  /\ \A i \in DOMAIN requests : requests[i].waiting /\ ~requests'[i].waiting =>
       \/ requests[i].payment.nullifier \notin DOMAIN preparedByNullifier
       \/ ~Alive(requests[i]) /\ requests[i].tx # "landed"

LEMMA UnheardKeeps ==
  ASSUME SvmInv, ClientStep, Unheard
  PROVE  SvmInv'
<1>1. /\ books \in [DOMAIN books -> Status]
      /\ \A n \in DOMAIN preparedByNullifier : EntryTyped(preparedByNullifier[n])
      /\ books' = books /\ preparedByNullifier' = preparedByNullifier /\ drafts' \subseteq drafts
  BY DEF SvmInv, SvmTypeOK, EntryTyped, Unheard, ClientStep
<1>2. /\ SvmTypeOK' /\ TreeInv' /\ RequestsAreSound' /\ OrdersOK' /\ OwnersOK'
      /\ Payments' \subseteq Payments /\ Leaves' = Leaves /\ nullifierRecords' = nullifierRecords
      /\ \A n : InDoubt(n)' <=> InDoubt(n)
      /\ \A n : (\E i \in DOMAIN requests' : requests'[i].tx = "landed" /\ requests'[i].payment.nullifier = n)
                <=> (\E i \in DOMAIN requests : requests[i].tx = "landed" /\ requests[i].payment.nullifier = n)
  BY <1>1, ClientStepKeeps
<1>3. /\ DOMAIN requests' = DOMAIN requests /\ handed' = handed
      /\ \A i \in DOMAIN requests : Lowered(i)
  BY DEF ClientStep
<1>4. NotesFit'
  <2> SUFFICES ASSUME NEW note \in DOMAIN books PROVE NoteOK(note)'
    BY <1>1 DEF NotesFit
  <2>1. NoteOK(note)
    BY DEF SvmInv, BooksInv, NotesFit
  <2> QED
    BY <1>1, <1>2, <2>1 DEF NoteOK
<1>5. LeavesKept'
  BY <1>1, <1>2 DEF SvmInv, BooksInv, LeavesKept, Known
<1>6. DraftsOK'
  <2> SUFFICES ASSUME NEW draft \in drafts PROVE DraftOK(draft)'
    BY <1>1 DEF DraftsOK
  <2>1. DraftOK(draft)
    BY DEF SvmInv, BooksInv, DraftsOK
  <2> QED
    BY <2>1, <1>1, <1>2, <1>3 DEF DraftOK, Lowered
<1>7. EntriesOK'
  <2> SUFFICES ASSUME NEW n \in DOMAIN preparedByNullifier PROVE EntryOK(n)'
    BY <1>1 DEF EntriesOK
  <2>1. EntryOK(n)
    BY DEF SvmInv, BooksInv, EntriesOK
  <2>2. ASSUME NEW i \in DOMAIN requests, Concerns(i, n)'
        PROVE  Concerns(i, n) /\ (requests[i].waiting => requests'[i].waiting)
    BY <1>3, <2>2 DEF Concerns, Lowered, Alive, Unheard
  <2> QED
    BY <2>1, <2>2, <1>1, <1>2, <1>3 DEF EntryOK, ChangePending, Lowered
<1>8. RequestsSent'
  <2>1. ASSUME NEW i \in DOMAIN requests PROVE SentOK(i)'
    <3>1. SentOK(i)
      BY DEF SvmInv, BooksInv, RequestsSent
    <3>2. Lowered(i)
      BY <1>3
    <3> QED
      BY <3>1, <3>2, <1>1, <1>2 DEF SentOK, ChangePending, Entry, Lowered, Alive
  <2> QED
    BY <2>1, <1>3 DEF SvmInv, BooksInv, RequestsSent, Lowered
<1> QED
  BY <1>2, <1>4, <1>5, <1>6, <1>7, <1>8 DEF SvmInv, BooksInv

(* The outcome is in doubt. *)
Marked(n) ==
  /\ n \in DOMAIN preparedByNullifier
  /\ preparedByNullifier' = [preparedByNullifier EXCEPT ![n].status = "indeterminate"]
  /\ UNCHANGED <<books, drafts>>
  /\ \A i \in DOMAIN requests :
       requests[i].payment.nullifier # n => requests'[i].waiting = requests[i].waiting

LEMMA MarkedKeeps ==
  ASSUME SvmInv, ClientStep, NEW n, Marked(n)
  PROVE  SvmInv'
<1>1. /\ books \in [DOMAIN books -> Status] /\ n \in DOMAIN preparedByNullifier
      /\ \A k \in DOMAIN preparedByNullifier : EntryTyped(preparedByNullifier[k])
      /\ books' = books /\ drafts' = drafts
      /\ preparedByNullifier' = [preparedByNullifier EXCEPT ![n].status = "indeterminate"]
  BY DEF SvmInv, SvmTypeOK, EntryTyped, Marked
<1>2. /\ DOMAIN preparedByNullifier' = DOMAIN preparedByNullifier
      /\ \A k \in DOMAIN preparedByNullifier :
           /\ preparedByNullifier'[k].draft = preparedByNullifier[k].draft
           /\ k # n => preparedByNullifier'[k] = preparedByNullifier[k]
           /\ EntryTyped(preparedByNullifier'[k])
      /\ preparedByNullifier'[n].status = "indeterminate"
  BY <1>1 DEF EntryTyped
<1>3. /\ SvmTypeOK' /\ TreeInv' /\ RequestsAreSound' /\ OrdersOK' /\ OwnersOK'
      /\ Payments' \subseteq Payments /\ Leaves' = Leaves /\ nullifierRecords' = nullifierRecords
      /\ \A k : InDoubt(k)' <=> InDoubt(k)
      /\ \A k : (\E i \in DOMAIN requests' : requests'[i].tx = "landed" /\ requests'[i].payment.nullifier = k)
                <=> (\E i \in DOMAIN requests : requests[i].tx = "landed" /\ requests[i].payment.nullifier = k)
  BY <1>1, <1>2, ClientStepKeeps
<1>4. /\ DOMAIN requests' = DOMAIN requests /\ handed' = handed
      /\ \A i \in DOMAIN requests : Lowered(i)
  BY DEF ClientStep
<1>5. NotesFit'
  <2> SUFFICES ASSUME NEW note \in DOMAIN books PROVE NoteOK(note)'
    BY <1>1 DEF NotesFit
  <2>1. NoteOK(note)
    BY DEF SvmInv, BooksInv, NotesFit
  <2> QED
    BY <1>1, <1>2, <1>3, <2>1 DEF NoteOK
<1>6. LeavesKept'
  BY <1>1, <1>3 DEF SvmInv, BooksInv, LeavesKept, Known
<1>7. DraftsOK'
  <2> SUFFICES ASSUME NEW draft \in drafts PROVE DraftOK(draft)'
    BY <1>1 DEF DraftsOK
  <2>1. DraftOK(draft)
    BY DEF SvmInv, BooksInv, DraftsOK
  <2> QED
    BY <2>1, <1>1, <1>2, <1>3, <1>4 DEF DraftOK, Lowered
<1>8. EntriesOK'
  <2> SUFFICES ASSUME NEW k \in DOMAIN preparedByNullifier PROVE EntryOK(k)'
    BY <1>2 DEF EntriesOK
  <2>1. EntryOK(k)
    BY DEF SvmInv, BooksInv, EntriesOK
  <2>2. ASSUME NEW i \in DOMAIN requests, Concerns(i, k)', k # n
        PROVE  Concerns(i, k) /\ (requests[i].waiting => requests'[i].waiting)
    BY <1>4, <2>2 DEF Concerns, Lowered, Alive, Marked
  <2> QED
    BY <2>1, <2>2, <1>1, <1>2, <1>3, <1>4 DEF EntryOK, ChangePending, Lowered
<1>9. RequestsSent'
  <2>1. ASSUME NEW i \in DOMAIN requests PROVE SentOK(i)'
    <3>1. SentOK(i)
      BY DEF SvmInv, BooksInv, RequestsSent
    <3>2. Lowered(i)
      BY <1>4
    <3> QED
      BY <3>1, <3>2, <1>1, <1>2, <1>3 DEF SentOK, ChangePending, Entry, Lowered, Alive
  <2> QED
    BY <2>1, <1>4 DEF SvmInv, BooksInv, RequestsSent, Lowered
<1> QED
  BY <1>3, <1>5, <1>6, <1>7, <1>8, <1>9 DEF SvmInv, BooksInv

(* The client's process is started anew. *)
LEMMA RestartKeeps ==
  ASSUME SvmInv, ClientRestart
  PROVE  SvmInv'
<1>1. requests \in Seq(Request) /\ books \in [DOMAIN books -> Status]
  BY DEF SvmInv, SvmTypeOK
<1>2. ASSUME NEW i \in DOMAIN requests
      PROVE  /\ requests'[i] \in Request /\ Lowered(i) /\ ~requests'[i].waiting
             /\ requests'[i].payment = requests[i].payment
  <2>1. /\ requests[i] \in Request
        /\ requests[i] = [payment |-> requests[i].payment, pc |-> requests[i].pc,
                          tx |-> requests[i].tx, waiting |-> requests[i].waiting]
    BY <1>1, RequestFields
  <2>2. requests'[i] = [requests[i] EXCEPT !.waiting = FALSE]
    BY DEF ClientRestart
  <2>3. requests'[i] \in Request
    BY <2>1, <2>2 DEF Request
  <2> QED
    BY <2>1, <2>2, <2>3 DEF Lowered
<1>3. requests' = [i \in DOMAIN requests |-> requests'[i]]
  BY DEF ClientRestart
<1>4. /\ requests' \in Seq(Request)' /\ Len(requests') = Len(requests)
      /\ DOMAIN requests' = DOMAIN requests
  BY <1>1, <1>2, <1>3, RequestsMapped
<1>5. ClientStep /\ books' = books /\ drafts' = {} /\ DOMAIN preparedByNullifier' = {}
  BY <1>2, <1>4, FaultCounts DEF ClientStep, ClientRestart
<1>6. /\ SvmTypeOK' /\ TreeInv' /\ RequestsAreSound' /\ OrdersOK' /\ OwnersOK'
      /\ Payments' \subseteq Payments /\ Leaves' = Leaves /\ nullifierRecords' = nullifierRecords
      /\ \A k : InDoubt(k)' <=> InDoubt(k)
      /\ \A k : (\E i \in DOMAIN requests' : requests'[i].tx = "landed" /\ requests'[i].payment.nullifier = k)
                <=> (\E i \in DOMAIN requests : requests[i].tx = "landed" /\ requests[i].payment.nullifier = k)
  BY <1>1, <1>5, ClientStepKeeps
<1>7. NotesFit'
  <2> SUFFICES ASSUME NEW note \in DOMAIN books PROVE NoteOK(note)'
    BY <1>5 DEF NotesFit
  <2>1. NoteOK(note)
    BY DEF SvmInv, BooksInv, NotesFit
  <2> QED
    BY <1>5, <1>6, <2>1 DEF NoteOK
<1>8. LeavesKept'
  BY <1>5, <1>6 DEF SvmInv, BooksInv, LeavesKept, Known
<1>9. DraftsOK' /\ EntriesOK'
  BY <1>5 DEF DraftsOK, EntriesOK
<1>10. RequestsSent'
  <2>1. ASSUME NEW i \in DOMAIN requests PROVE SentOK(i)'
    <3>1. SentOK(i) /\ Lowered(i) /\ ~requests'[i].waiting
      BY <1>2 DEF SvmInv, BooksInv, RequestsSent
    <3> QED
      BY <3>1, <1>5, <1>6 DEF SentOK, ChangePending, Lowered, Alive
  <2> QED
    BY <2>1, <1>2, <1>4 DEF RequestsSent
<1> QED
  BY <1>6, <1>7, <1>8, <1>9, <1>10 DEF SvmInv, BooksInv

-----------------------------------------------------------------------------
(* A payment that is over *)

(* An id names one note. *)
LEMMA IdsAreUnique ==
  ASSUME TreeInv
  PROVE  /\ \A m, n \in DOMAIN books : m.id = n.id => m = n
         /\ \A m \in DOMAIN books : \A n \in Leaves : m.id = n.id => m = n
         /\ \A m \in DOMAIN books : m \in Note /\ m.id <= made /\ m.label \in DOMAIN depositRecords
         /\ \A p, q \in Payments : p.change = q.change => p = q
BY DEF TreeInv, NotesOK, Notes, PaymentsOK

(* What there is to know of an entry: its note, which is not its change, and   *)
(* its payment, of which a request was made.                                   *)
LEMMA EntryKnown ==
  ASSUME SvmInv, NEW n \in DOMAIN preparedByNullifier
  PROVE  \E note \in DOMAIN books, p \in Payments :
           /\ preparedByNullifier[n].draft.note = note /\ preparedByNullifier[n].draft.payment = p
           /\ note.id = n /\ p.nullifier = n /\ books[note] \in {"locked", "spent"}
           /\ \E i \in DOMAIN requests : requests[i].payment = p
           /\ p.change.value \in Nat
           /\ p.change.value > 0 =>
                /\ p.change \in DOMAIN books /\ books[p.change] = "pending" /\ p.change # note
                /\ p.change.id \notin nullifierRecords
                /\ \A q \in Payments : q.nullifier # p.change.id
           /\ books[note] = "spent" => p.change \notin Leaves
           /\ books[note] = "locked" /\ preparedByNullifier[n].status = "prepared" =>
                \A i \in DOMAIN requests :
                  Concerns(i, n) => requests[i].waiting /\ requests[i].payment = p
<1> DEFINE note == preparedByNullifier[n].draft.note
           p == preparedByNullifier[n].draft.payment
<1>1. EntryOK(n)
  BY DEF SvmInv, BooksInv, EntriesOK
<1>2. PICK i \in DOMAIN requests : requests[i].payment = p
  BY <1>1 DEF EntryOK
<1>3. p \in Payments
  BY <1>2 DEF Payments
<1>4. p.change.value \in Nat
  BY <1>3, NotesAre DEF SvmInv, Note
<1>5. p.change.value > 0 => p.change \in DOMAIN books /\ books[p.change] = "pending"
  BY <1>1 DEF EntryOK, ChangePending
<1>6. \A m \in DOMAIN books : NoteOK(m)
  BY DEF SvmInv, BooksInv, NotesFit
<1>7. p.change.value > 0 =>
        /\ p.change # note /\ p.change.id \notin nullifierRecords
        /\ \A q \in Payments : q.nullifier # p.change.id
  BY <1>1, <1>5, <1>6 DEF EntryOK, NoteOK
<1> QED
  BY <1>1, <1>2, <1>3, <1>4, <1>5, <1>7 DEF EntryOK

(* What becomes of the books when an entry is done with. *)
Filed(note, p, own, other) ==
  /\ books' \in [DOMAIN books -> Status]
  /\ books'[note] = own
  /\ p.change.value > 0 => books'[p.change] = other
  /\ \A x \in DOMAIN books :
       x # note /\ (p.change.value > 0 => x # p.change) => books'[x] = books[x]

LEMMA FiledBooks ==
  ASSUME SvmInv, NEW note \in DOMAIN books, NEW p, NEW own \in Status, NEW other \in Status,
         p.change.value \in Nat,
         p.change.value > 0 => p.change \in DOMAIN books /\ p.change # note,
         books' = WithChange([books EXCEPT ![note] = own], p, other)
  PROVE  Filed(note, p, own, other)
<1>1. PICK b : b = [books EXCEPT ![note] = own]
  OBVIOUS
<1>2. /\ books \in [DOMAIN books -> Status]
      /\ b \in [DOMAIN books -> Status] /\ DOMAIN b = DOMAIN books /\ b[note] = own
      /\ \A x \in DOMAIN books : x # note => b[x] = books[x]
  BY <1>1 DEF SvmInv, SvmTypeOK
<1>3. CASE p.change.value = 0
  <2>1. books' = b
    BY <1>1, <1>3 DEF WithChange
  <2>2. ~(p.change.value > 0)
    BY <1>3
  <2>3. books' \in [DOMAIN books -> Status] /\ books'[note] = own
    BY <2>1, <1>2
  <2>4. \A x \in DOMAIN books : x # note => books'[x] = books[x]
    BY <2>1, <1>2
  <2>5. p.change.value > 0 => books'[p.change] = other
    BY <2>2
  <2>6. \A x \in DOMAIN books :
          x # note /\ (p.change.value > 0 => x # p.change) => books'[x] = books[x]
    BY <2>4
  <2> QED
    BY <2>3, <2>5, <2>6 DEF Filed
<1>4. CASE p.change.value > 0
  <2>1. PICK k : k = p.change
    OBVIOUS
  <2>2. books' = With(b, k, other)
    BY <1>1, <1>4, <2>1 DEF WithChange
  <2>3. k \in DOMAIN b /\ b \in [DOMAIN b -> Status]
    BY <1>2, <1>4, <2>1
  <2>4. /\ With(b, k, other) \in [DOMAIN b -> Status] /\ With(b, k, other)[k] = other
        /\ \A x \in DOMAIN b : x # k => With(b, k, other)[x] = b[x]
    BY <2>3 DEF With
  <2>5. /\ books' \in [DOMAIN books -> Status] /\ books'[k] = other
        /\ \A x \in DOMAIN books : x # k => books'[x] = b[x]
    BY <2>2, <2>4, <1>2
  <2> QED
    BY <2>1, <2>5, <1>2, <1>4 DEF Filed
<1> QED
  BY <1>3, <1>4

LEMMA ForgetIs ==
  ASSUME NEW n, preparedByNullifier' = Forget(n)
  PROVE  /\ DOMAIN preparedByNullifier' = DOMAIN preparedByNullifier \ {n}
         /\ \A k \in DOMAIN preparedByNullifier' : preparedByNullifier'[k] = preparedByNullifier[k]
BY DEF Forget

(* The entry is done with: its note is spent, or is spendable once more, and   *)
(* its change is spendable or discarded.                                       *)
Closed(n, own, other) ==
  LET draft == preparedByNullifier[n].draft
  IN /\ n \in DOMAIN preparedByNullifier
     /\ books' = WithChange([books EXCEPT ![draft.note] = own], draft.payment, other)
     /\ preparedByNullifier' = Forget(n)
     /\ drafts' = drafts
     /\ own \in {"spent", "spendable"} /\ other \in {"spendable", "discarded"}
     /\ own = "spent" => n \in nullifierRecords
     /\ own = "spendable" =>
          /\ n \notin nullifierRecords /\ ~InDoubt(n)
          /\ \A i \in DOMAIN requests : requests[i].payment.nullifier = n => ~requests'[i].waiting
     /\ other = "discarded" => draft.payment.change \notin Leaves
     /\ \A i \in DOMAIN requests :
          /\ requests[i].payment.nullifier # n => requests'[i].waiting = requests[i].waiting
          /\ requests[i].payment = draft.payment /\ Alive(requests[i]) => n \in nullifierRecords

LEMMA ClosedKeeps ==
  ASSUME SvmInv, ClientStep, NEW n, NEW own, NEW other, Closed(n, own, other)
  PROVE  SvmInv'
<1>0. /\ n \in DOMAIN preparedByNullifier /\ drafts' = drafts
      /\ own \in {"spent", "spendable"} /\ other \in {"spendable", "discarded"}
      /\ own = "spent" => n \in nullifierRecords
      /\ own = "spendable" =>
           /\ n \notin nullifierRecords /\ ~InDoubt(n)
           /\ \A i \in DOMAIN requests : requests[i].payment.nullifier = n => ~requests'[i].waiting
      /\ preparedByNullifier' = Forget(n)
  BY DEF Closed
<1>1. PICK note \in DOMAIN books, p \in Payments :
           /\ preparedByNullifier[n].draft.note = note /\ preparedByNullifier[n].draft.payment = p
           /\ note.id = n /\ p.nullifier = n /\ books[note] \in {"locked", "spent"}
           /\ p.change.value \in Nat
           /\ p.change.value > 0 =>
                /\ p.change \in DOMAIN books /\ books[p.change] = "pending" /\ p.change # note
                /\ p.change.id \notin nullifierRecords
                /\ \A q \in Payments : q.nullifier # p.change.id
  BY <1>0, EntryKnown
<1>2. Filed(note, p, own, other)
  <2>1. own \in Status /\ other \in Status
    BY <1>0 DEF Status
  <2>2. books' = WithChange([books EXCEPT ![note] = own], p, other)
    BY <1>1 DEF Closed
  <2> QED
    BY <1>1, <2>1, <2>2, FiledBooks
<1>22. /\ other = "discarded" => p.change \notin Leaves
       /\ \A i \in DOMAIN requests :
            /\ requests[i].payment.nullifier # n => requests'[i].waiting = requests[i].waiting
            /\ requests[i].payment = p /\ Alive(requests[i]) => n \in nullifierRecords
  BY <1>1 DEF Closed
<1>3. /\ DOMAIN preparedByNullifier' = DOMAIN preparedByNullifier \ {n}
      /\ \A k \in DOMAIN preparedByNullifier' : preparedByNullifier'[k] = preparedByNullifier[k]
  BY <1>0, ForgetIs
<1>4. \A k \in DOMAIN preparedByNullifier' : EntryTyped(preparedByNullifier'[k])
  BY <1>3 DEF SvmInv, SvmTypeOK, EntryTyped
<1>5. /\ SvmTypeOK' /\ TreeInv' /\ RequestsAreSound' /\ OrdersOK' /\ OwnersOK'
      /\ Payments' \subseteq Payments /\ Leaves' = Leaves /\ nullifierRecords' = nullifierRecords
      /\ DOMAIN books' = DOMAIN books
      /\ \A k : InDoubt(k)' <=> InDoubt(k)
      /\ \A k : (\E i \in DOMAIN requests' : requests'[i].tx = "landed" /\ requests'[i].payment.nullifier = k)
                <=> (\E i \in DOMAIN requests : requests[i].tx = "landed" /\ requests[i].payment.nullifier = k)
  BY <1>2, <1>4, ClientStepKeeps DEF Filed
<1>6. /\ DOMAIN requests' = DOMAIN requests /\ handed' = handed
      /\ \A i \in DOMAIN requests : Lowered(i)
  BY DEF ClientStep
<1>7. /\ \A x, y \in DOMAIN books : x.id = y.id => x = y
      /\ \A q \in Payments : q.change = p.change => q = p
  BY <1>1, IdsAreUnique DEF SvmInv
<1>8. NotesFit'
  <2> SUFFICES ASSUME NEW x \in DOMAIN books PROVE NoteOK(x)'
    BY <1>5 DEF NotesFit
  <2>1. NoteOK(x)
    BY DEF SvmInv, BooksInv, NotesFit
  <2>2. CASE x = note
    <3>1. books'[x] = own /\ x.id = n /\ n \notin DOMAIN preparedByNullifier'
      BY <2>2, <1>1, <1>2, <1>3 DEF Filed
    <3>2. CASE own = "spent"
      BY <2>1, <3>1, <3>2, <1>0, <1>5 DEF NoteOK
    <3>3. CASE own = "spendable"
      BY <2>1, <3>1, <3>3, <1>0, <1>5 DEF NoteOK
    <3> QED
      BY <3>2, <3>3, <1>0
  <2>3. CASE x = p.change /\ p.change.value > 0
    <3>1. /\ books'[x] \in {"spendable", "discarded"} /\ x.id \notin nullifierRecords
          /\ \A q \in Payments : q.nullifier # x.id
      BY <2>3, <1>0, <1>1, <1>2 DEF Filed
    <3>2. ~InDoubt(x.id)
      BY <2>3, <1>1 DEF InDoubt, Payments
    <3>3. x.id \notin DOMAIN preparedByNullifier
      <4> SUFFICES ASSUME x.id \in DOMAIN preparedByNullifier PROVE FALSE
        OBVIOUS
      <4>1. \E q \in Payments : q.nullifier = x.id
        BY EntryKnown
      <4> QED
        BY <4>1, <2>3, <1>1
    <3> QED
      BY <3>1, <3>2, <3>3, <1>3, <1>5 DEF NoteOK
  <2>4. CASE x # note /\ (p.change.value > 0 => x # p.change)
    <3>1. books'[x] = books[x]
      BY <2>4, <1>2 DEF Filed
    <3> QED
      BY <3>1, <2>1, <1>3, <1>5 DEF NoteOK
  <2> QED
    BY <2>2, <2>3, <2>4
<1>9. LeavesKept'
  <2> SUFFICES ASSUME NEW leaf \in Leaves, leaf.value > 0, Known(leaf.label)
               PROVE  leaf \in DOMAIN books /\ books'[leaf] # "discarded"
    BY <1>5 DEF LeavesKept, Known
  <2>1. leaf \in DOMAIN books /\ books[leaf] # "discarded"
    BY DEF SvmInv, BooksInv, LeavesKept
  <2> QED
    BY <2>1, <1>0, <1>2, <1>22 DEF Filed
<1>10. DraftsOK'
  <2> SUFFICES ASSUME NEW draft \in drafts PROVE DraftOK(draft)'
    BY <1>0 DEF DraftsOK
  <2>1. DraftOK(draft)
    BY DEF SvmInv, BooksInv, DraftsOK
  <2>2. draft.note \in DOMAIN books /\ draft.note.id = draft.payment.nullifier
    BY <2>1 DEF DraftOK
  <2>3. CASE draft.note = note
    BY <2>1, <2>3, <1>0, <1>2, <1>5, <1>6 DEF DraftOK, Filed, Lowered
  <2>4. CASE draft.note # note
    <3>1. draft.payment.nullifier # n
      BY <2>2, <2>4, <1>1, <1>7
    <3>2. p.change.value > 0 => draft.note # p.change
      BY <2>1, <1>1 DEF DraftOK
    <3>3. books'[draft.note] = books[draft.note]
      BY <2>2, <2>4, <3>2, <1>2 DEF Filed
    <3> QED
      BY <2>1, <3>1, <3>3, <1>3, <1>5, <1>6 DEF DraftOK, Lowered
  <2> QED
    BY <2>3, <2>4
<1>11. EntriesOK'
  <2> SUFFICES ASSUME NEW k \in DOMAIN preparedByNullifier, k # n PROVE EntryOK(k)'
    BY <1>3 DEF EntriesOK
  <2>1. EntryOK(k)
    BY DEF SvmInv, BooksInv, EntriesOK
  <2>2. PICK m \in DOMAIN books, q \in Payments :
          /\ preparedByNullifier[k].draft.note = m /\ preparedByNullifier[k].draft.payment = q
          /\ m.id = k /\ q.nullifier = k /\ books[m] \in {"locked", "spent"}
          /\ q.change.value > 0 => q.change \in DOMAIN books /\ books[q.change] = "pending"
    BY EntryKnown
  <2>3. books'[m] = books[m]
    BY <2>2, <1>1, <1>2 DEF Filed
  <2>4. q.change.value > 0 => books'[q.change] = books[q.change]
    <3>1. q.change # p.change
      BY <2>2, <1>1, <1>7
    <3> QED
      BY <3>1, <2>2, <1>1, <1>2 DEF Filed
  <2>5. ASSUME NEW i \in DOMAIN requests, Concerns(i, k)'
        PROVE  Concerns(i, k) /\ (requests[i].waiting => requests'[i].waiting)
    BY <1>6, <1>22, <2>5 DEF Concerns, Lowered, Alive
  <2>6. preparedByNullifier'[k] = preparedByNullifier[k]
    BY <1>3
  <2> QED
    BY <2>1, <2>2, <2>3, <2>4, <2>5, <2>6, <1>5, <1>6 DEF EntryOK, ChangePending, Lowered
<1>12. RequestsSent'
  <2>1. ASSUME NEW i \in DOMAIN requests PROVE SentOK(i)'
    <3>1. PICK q \in Payments : q = requests[i].payment
      BY DEF Payments
    <3>2. SentOK(i) /\ Lowered(i)
      BY <1>6 DEF SvmInv, BooksInv, RequestsSent
    <3>3. PICK x \in DOMAIN books :
            /\ x.id = q.nullifier
            /\ requests[i].waiting =>
                 \/ books[x] = "spent"
                 \/ q.nullifier \in DOMAIN preparedByNullifier /\ Entry(q).draft.payment = q
      BY <3>1, <3>2 DEF SentOK
    <3>4. requests'[i].waiting =>
            \/ books'[x] = "spent"
            \/ q.nullifier \in DOMAIN preparedByNullifier' /\ Entry(q)'.draft.payment = q
      <4>1. CASE q.nullifier = n
        <5>1. x = note
          BY <4>1, <3>3, <1>1, <1>7
        <5>2. requests'[i].waiting => own = "spent"
          BY <4>1, <3>1, <1>0
        <5> QED
          BY <5>1, <5>2, <1>2 DEF Filed
      <4>2. CASE q.nullifier # n
        <5>1. x # note /\ (books[x] = "spent" => books'[x] = "spent")
          BY <4>2, <3>3, <1>1, <1>2 DEF Filed
        <5>2. q.nullifier \in DOMAIN preparedByNullifier =>
                q.nullifier \in DOMAIN preparedByNullifier' /\ Entry(q)' = Entry(q)
          BY <4>2, <1>3 DEF Entry
        <5> QED
          BY <5>1, <5>2, <3>2, <3>3 DEF Lowered
      <4> QED
        BY <4>1, <4>2
    <3>5. ASSUME Alive(requests[i]), q.nullifier \notin nullifierRecords, q.change.value > 0
          PROVE  q.change \in DOMAIN books' /\ books'[q.change] = "pending"
      <4>1. q.change \in DOMAIN books /\ books[q.change] = "pending"
        BY <3>1, <3>2, <3>5 DEF SentOK, ChangePending
      <4>2. q.change # p.change /\ q.change # note
        <5>1. q # p
          BY <3>1, <3>5, <1>1, <1>22
        <5> QED
          BY <4>1, <5>1, <1>1, <1>7
      <4> QED
        BY <4>1, <4>2, <1>2, <1>5 DEF Filed
    <3>6. requests'[i].payment = q /\ (Alive(requests'[i]) => Alive(requests[i]))
      BY <3>1, <3>2 DEF Lowered, Alive
    <3>7. q.recipient \in Shops
      BY <3>1, <3>2 DEF SentOK
    <3> QED
      BY <3>3, <3>4, <3>5, <3>6, <3>7, <1>5 DEF SentOK, ChangePending
  <2> QED
    BY <2>1, <1>6 DEF SvmInv, BooksInv, RequestsSent, Lowered
<1> QED
  BY <1>5, <1>8, <1>9, <1>10, <1>11, <1>12 DEF SvmInv, BooksInv

(* The entry has settled, or is found to have settled. *)
Promoted(n) ==
  /\ n \in DOMAIN preparedByNullifier /\ n \in nullifierRecords
  /\ Promote(preparedByNullifier[n].draft)
  /\ drafts' = drafts
  /\ \A i \in DOMAIN requests :
       requests[i].payment.nullifier # n => requests'[i].waiting = requests[i].waiting

LEMMA PromotedKeeps ==
  ASSUME SvmInv, ClientStep, NEW n, Promoted(n)
  PROVE  SvmInv'
<1>1. preparedByNullifier[n].draft.payment.nullifier = n
  BY EntryKnown DEF Promoted
<1>2. "spent" # "spendable" /\ "spendable" # "discarded"
  OBVIOUS
<1>3. Closed(n, "spent", "spendable")
  BY <1>1, <1>2 DEF Closed, Promoted, Promote, OnSettled
<1> QED
  BY <1>3, ClosedKeeps

-----------------------------------------------------------------------------
(* A payment that is rejected *)

(* The client is told that request o was rejected, for an entry of which no    *)
(* attempt was in doubt before.                                                *)
Rejected(n, o) ==
  /\ n \in DOMAIN preparedByNullifier /\ preparedByNullifier[n].status = "prepared"
  /\ o \in DOMAIN requests /\ requests[o].payment.nullifier = n
  /\ requests[o].waiting /\ requests[o].pc = "rejected" /\ ~requests'[o].waiting
  /\ books' = OnRejected(preparedByNullifier[n].draft)
  /\ preparedByNullifier' = Forget(n)
  /\ drafts' = drafts
  /\ \A i \in DOMAIN requests : i # o => requests'[i].waiting = requests[i].waiting

LEMMA RejectedKeeps ==
  ASSUME SvmInv, ClientStep, NEW n, NEW o, Rejected(n, o)
  PROVE  SvmInv'
<1>1. /\ n \in DOMAIN preparedByNullifier /\ preparedByNullifier[n].status = "prepared"
      /\ o \in DOMAIN requests /\ requests[o].payment.nullifier = n
      /\ requests[o].waiting /\ requests[o].pc = "rejected" /\ ~requests'[o].waiting
      /\ preparedByNullifier' = Forget(n) /\ drafts' = drafts
      /\ \A i \in DOMAIN requests : i # o => requests'[i].waiting = requests[i].waiting
  BY DEF Rejected
<1>2. PICK note \in DOMAIN books, p \in Payments :
           /\ preparedByNullifier[n].draft.note = note /\ preparedByNullifier[n].draft.payment = p
           /\ note.id = n /\ p.nullifier = n /\ books[note] \in {"locked", "spent"}
           /\ books[note] = "spent" => p.change \notin Leaves
           /\ books[note] = "locked" /\ preparedByNullifier[n].status = "prepared" =>
                \A i \in DOMAIN requests :
                  Concerns(i, n) => requests[i].waiting /\ requests[i].payment = p
  BY <1>1, EntryKnown
<1>3. NoteOK(note) /\ \A x \in DOMAIN books : x.id = n => x = note
  BY <1>2, IdsAreUnique DEF SvmInv, BooksInv, NotesFit
<1>4. \A i \in DOMAIN requests :
        requests[i].payment.nullifier # n => requests'[i].waiting = requests[i].waiting
  BY <1>1
<1>5. books' = WithChange([books EXCEPT ![note] = IF books[note] = "locked" THEN "spendable" ELSE books[note]],
                          p, "discarded")
  BY <1>2 DEF Rejected, OnRejected
<1>6. "spent" # "spendable" /\ "spent" # "locked" /\ "spendable" # "discarded"
  OBVIOUS
<1>7. CASE books[note] = "spent"
  <2>1. n \in nullifierRecords
    BY <1>2, <1>3, <1>7 DEF NoteOK
  <2>2. Closed(n, "spent", "discarded")
    BY <1>1, <1>2, <1>4, <1>5, <1>6, <1>7, <2>1 DEF Closed
  <2> QED
    BY <2>2, ClosedKeeps
<1>8. CASE books[note] = "locked"
  <2>1. requests[o].payment = p
    <3>1. SentOK(o)
      BY <1>1 DEF SvmInv, BooksInv, RequestsSent
    <3> QED
      BY <3>1, <1>1, <1>2, <1>3, <1>6, <1>8 DEF SentOK, Entry
  <2>2. ~Alive(requests[o]) /\ requests[o].tx # "landed"
    BY <1>1 DEF SvmInv, RequestsAreSound, RequestsOK, RequestOK, Alive
  <2>3. \A i \in DOMAIN requests : requests[i].waiting /\ requests[i].payment = p => i = o
    BY <1>1, <2>1 DEF SvmInv, BooksInv, RequestsSent
  <2>4. \A i \in DOMAIN requests : ~Concerns(i, n)
    BY <1>1, <1>2, <1>8, <2>2, <2>3 DEF Concerns
  <2>5. ~InDoubt(n) /\ n \notin nullifierRecords
    BY <1>2, <1>3, <2>4 DEF InDoubt, Concerns, NoteOK
  <2>6. p.change \notin Leaves
    BY <1>2, <2>5, FreshChange DEF SvmInv
  <2>7. ASSUME NEW i \in DOMAIN requests, requests[i].payment.nullifier = n
        PROVE  ~requests'[i].waiting
    <3>1. CASE i = o
      BY <3>1, <1>1
    <3>2. CASE i # o
      <4> SUFFICES ASSUME requests[i].waiting PROVE FALSE
        BY <3>2, <1>1
      <4>1. SentOK(i)
        BY DEF SvmInv, BooksInv, RequestsSent
      <4>2. requests[i].payment = p
        BY <4>1, <2>7, <1>2, <1>3, <1>6, <1>8 DEF SentOK, Entry
      <4> QED
        BY <4>2, <3>2, <2>3
    <3> QED
      BY <3>1, <3>2
  <2>8. \A i \in DOMAIN requests : requests[i].payment = p => ~Alive(requests[i])
    BY <1>2, <2>4 DEF Concerns
  <2>9. books' = WithChange([books EXCEPT ![note] = "spendable"], p, "discarded")
    BY <1>5, <1>8
  <2>10. Closed(n, "spendable", "discarded")
    BY <1>1, <1>2, <1>4, <1>6, <2>5, <2>6, <2>7, <2>8, <2>9 DEF Closed
  <2> QED
    BY <2>10, ClosedKeeps
<1> QED
  BY <1>2, <1>7, <1>8

-----------------------------------------------------------------------------
(* The actions of the client that end a request or an entry *)

(* The client stops waiting for request i. *)
LEMMA StopsWaiting ==
  ASSUME SvmInv, NEW i \in DOMAIN requests, requests' = [requests EXCEPT ![i].waiting = FALSE],
         UNCHANGED <<poolVars, drafts, settlementsInFlight, handed, made>>, faults' \in 0 .. MaxFaults
  PROVE  /\ ClientStep /\ ~requests'[i].waiting
         /\ \A j \in DOMAIN requests : j # i => requests'[j].waiting = requests[j].waiting
<1> DEFINE r == [requests[i] EXCEPT !.waiting = FALSE]
<1>1. requests \in Seq(Request)
  BY DEF SvmInv, SvmTypeOK
<1>2. /\ r \in Request /\ r.payment = requests[i].payment /\ r.pc = requests[i].pc
      /\ r.tx = requests[i].tx /\ ~r.waiting
  BY <1>1, RequestFields DEF Request
<1>3. requests' = [requests EXCEPT ![i] = r]
  OBVIOUS
<1> HIDE DEF r
<1>4. /\ requests' \in Seq(Request)' /\ Len(requests') = Len(requests)
      /\ DOMAIN requests' = DOMAIN requests
      /\ \A j \in DOMAIN requests : j # i => requests'[j] = requests[j]
      /\ requests'[i] = r
  BY <1>1, <1>2, <1>3, RequestUpdated
<1>5. \A j \in DOMAIN requests : Lowered(j)
  BY <1>2, <1>4 DEF Lowered
<1> QED
  BY <1>2, <1>4, <1>5 DEF ClientStep

LEMMA MarkedHeard ==
  ASSUME SvmInv, NEW i \in DOMAIN requests, requests' = [requests EXCEPT ![i].waiting = FALSE],
         requests[i].payment.nullifier \in DOMAIN preparedByNullifier,
         UNCHANGED <<poolVars, books, drafts, settlementsInFlight, handed, made>>,
         faults' \in 0 .. MaxFaults,
         preparedByNullifier' = [preparedByNullifier EXCEPT
                                   ![requests[i].payment.nullifier].status = "indeterminate"]
  PROVE  SvmInv'
<1>1. UNCHANGED <<poolVars, drafts, settlementsInFlight, handed, made>>
  OBVIOUS
<1>2. /\ ClientStep /\ ~requests'[i].waiting
      /\ \A j \in DOMAIN requests : j # i => requests'[j].waiting = requests[j].waiting
  BY <1>1, StopsWaiting
<1>3. Marked(requests[i].payment.nullifier)
  BY <1>2 DEF Marked
<1> QED
  BY <1>2, <1>3, MarkedKeeps

(* The client hears an answer that fits what became of the request. *)
LEMMA HearKeeps ==
  ASSUME SvmInv, NEW i \in DOMAIN requests, requests[i].waiting,
         NEW outcome \in {"settled", "failed", "rejected"},
         outcome \in {"settled", "rejected"} => requests[i].pc = outcome,
         Hear(i, outcome), faults' \in 0 .. MaxFaults
  PROVE  SvmInv'
<1> DEFINE n == requests[i].payment.nullifier
<1>1. /\ requests' = [requests EXCEPT ![i].waiting = FALSE]
      /\ UNCHANGED <<poolVars, drafts, settlementsInFlight, handed, made>>
  BY DEF Hear
<1>2. /\ ClientStep /\ ~requests'[i].waiting
      /\ \A j \in DOMAIN requests : j # i => requests'[j].waiting = requests[j].waiting
  BY <1>1, StopsWaiting
<1>3. CASE n \notin DOMAIN preparedByNullifier
  <2>1. Unheard
    BY <1>1, <1>2, <1>3 DEF Hear, Unheard
  <2> QED
    BY <1>2, <2>1, UnheardKeeps
<1>4. CASE n \in DOMAIN preparedByNullifier
  <2>1. OnPaymentResponse(requests[i].payment, outcome)
    BY <1>4 DEF Hear
  <2>2. CASE outcome = "settled"
    <3>1. n \in nullifierRecords
      BY <2>2 DEF SvmInv, RequestsAreSound, RequestsOK, RequestOK
    <3>2. Promoted(n)
      BY <1>1, <1>2, <1>4, <2>1, <2>2, <3>1 DEF Promoted, OnPaymentResponse, Entry
    <3> QED
      BY <1>2, <3>2, PromotedKeeps
  <2>3. CASE outcome = "rejected" /\ preparedByNullifier[n].status = "prepared"
    <3>1. Rejected(n, i)
      BY <1>1, <1>2, <1>4, <2>1, <2>3 DEF Rejected, OnPaymentResponse, Entry
    <3> QED
      BY <1>2, <3>1, RejectedKeeps
  <2>4. CASE outcome # "settled" /\ ~(outcome = "rejected" /\ preparedByNullifier[n].status = "prepared")
    <3>1. /\ preparedByNullifier' = [preparedByNullifier EXCEPT ![n].status = "indeterminate"]
          /\ UNCHANGED books
      BY <2>1, <2>4 DEF OnPaymentResponse, Entry
    <3>2. UNCHANGED <<poolVars, books, drafts, settlementsInFlight, handed, made>>
      BY <1>1, <3>1
    <3> QED
      BY <1>1, <1>4, <3>1, <3>2, MarkedHeard
  <2> QED
    BY <2>2, <2>3, <2>4
<1> QED
  BY <1>3, <1>4

LEMMA ReplyKeeps ==
  ASSUME SvmInv, NEW i \in DOMAIN requests, ReceiveReply(i) \/ LoseReply(i)
  PROVE  SvmInv'
<1>1. faults \in 0 .. MaxFaults
  BY DEF SvmInv, SvmTypeOK
<1>2. CASE ReceiveReply(i)
  <2>1. /\ requests[i].waiting /\ requests[i].pc \in {"settled", "failed", "rejected"}
        /\ Hear(i, requests[i].pc) /\ faults' \in 0 .. MaxFaults
    BY <1>1, <1>2 DEF ReceiveReply
  <2> QED
    BY <2>1, HearKeeps
<1>3. CASE LoseReply(i)
  <2>1. requests[i].waiting /\ Hear(i, "failed") /\ faults' \in 0 .. MaxFaults
    BY <1>3, FaultCounts DEF LoseReply
  <2>2. "failed" \notin {"settled", "rejected"}
    OBVIOUS
  <2> QED
    BY <2>1, <2>2, HearKeeps
<1> QED
  BY <1>2, <1>3

LEMMA StoreFailsKeeps ==
  ASSUME SvmInv, NEW i \in DOMAIN requests, StoreFails(i)
  PROVE  SvmInv'
<1>1. /\ requests' = [requests EXCEPT ![i].waiting = FALSE]
      /\ UNCHANGED <<poolVars, books, drafts, settlementsInFlight, handed, made>>
      /\ faults' \in 0 .. MaxFaults
      /\ requests[i].payment.nullifier \in DOMAIN preparedByNullifier
  BY FaultCounts DEF StoreFails
<1>2. CASE preparedByNullifier' = [preparedByNullifier EXCEPT
                                     ![requests[i].payment.nullifier].status = "indeterminate"]
  BY <1>1, <1>2, MarkedHeard
<1>3. CASE requests[i].pc = "rejected" /\ UNCHANGED preparedByNullifier
  <2>1. UNCHANGED <<poolVars, drafts, settlementsInFlight, handed, made>>
    BY <1>1
  <2>2. /\ ClientStep /\ ~requests'[i].waiting
        /\ \A j \in DOMAIN requests : j # i => requests'[j].waiting = requests[j].waiting
    BY <1>1, <2>1, StopsWaiting
  <2>3. ~Alive(requests[i]) /\ requests[i].tx # "landed"
    BY <1>3 DEF SvmInv, RequestsAreSound, RequestsOK, RequestOK, Alive
  <2>4. Unheard
    BY <1>1, <1>3, <2>2, <2>3 DEF Unheard
  <2> QED
    BY <2>2, <2>4, UnheardKeeps
<1> QED
  BY <1>2, <1>3 DEF StoreFails

(* No request changes. *)
LEMMA RequestsStay ==
  ASSUME SvmInv, UNCHANGED <<poolVars, requests, settlementsInFlight, handed, made>>,
         drafts' \subseteq drafts, faults' \in 0 .. MaxFaults
  PROVE  ClientStep /\ \A i \in DOMAIN requests : requests'[i] = requests[i]
<1>1. requests \in Seq(Request) /\ requests' = requests
  BY DEF SvmInv, SvmTypeOK
<1>2. Request' = Request
  BY <1>1 DEF Request
<1>3. \A i \in DOMAIN requests : Lowered(i)
  BY <1>1 DEF Lowered
<1> QED
  BY <1>1, <1>2, <1>3 DEF ClientStep

LEMMA ReconcileKeeps ==
  ASSUME SvmInv, NEW n \in DOMAIN preparedByNullifier, ReconcilePayment(n)
  PROVE  SvmInv'
<1>1. /\ n \in nullifierRecords /\ Promote(preparedByNullifier[n].draft)
      /\ UNCHANGED <<poolVars, drafts, requests, settlementsInFlight, handed, made, faults>>
  BY DEF ReconcilePayment
<1>2. faults' \in 0 .. MaxFaults /\ UNCHANGED <<poolVars, requests, settlementsInFlight, handed, made>>
  BY <1>1 DEF SvmInv, SvmTypeOK
<1>3. ClientStep /\ \A i \in DOMAIN requests : requests'[i] = requests[i]
  BY <1>1, <1>2, RequestsStay
<1>4. Promoted(n)
  BY <1>1, <1>3 DEF Promoted
<1> QED
  BY <1>3, <1>4, PromotedKeeps

LEMMA RefuseKeeps ==
  ASSUME SvmInv, NEW draft \in drafts, RefuseDraft(draft)
  PROVE  SvmInv'
<1>1. /\ drafts' \subseteq drafts
      /\ UNCHANGED <<poolVars, books, preparedByNullifier, requests, settlementsInFlight, handed, made>>
  BY DEF RefuseDraft
<1>2. faults' \in 0 .. MaxFaults /\ UNCHANGED <<poolVars, requests, settlementsInFlight, handed, made>>
  <2>1. faults \in 0 .. MaxFaults
    BY DEF SvmInv, SvmTypeOK
  <2> QED
    BY <2>1, <1>1, FaultCounts DEF RefuseDraft
<1>3. ClientStep /\ \A i \in DOMAIN requests : requests'[i] = requests[i]
  BY <1>1, <1>2, RequestsStay
<1>4. Unheard
  BY <1>1, <1>3 DEF Unheard
<1> QED
  BY <1>3, <1>4, UnheardKeeps

-----------------------------------------------------------------------------
(* Payments are prepared *)

(* A payment is prepared, of a note that is neither awaited nor given up. *)
Prepares(note, recipient, amount, relayFeeBps, payment) ==
  /\ recipient \in Shops \cup Orders /\ relayFeeBps \in Nat
  /\ Preparable(note, amount) /\ made' = made + 1
  /\ UNCHANGED <<poolVars, books, preparedByNullifier, requests, settlementsInFlight, faults>>
  /\ payment = Prepared(note, recipient, amount, relayFeeBps)
  /\ Payments' = Payments \cup {payment}
  /\ \A x \in DOMAIN books : books[x] \in {"pending", "discarded"} => x.id # note.id

LEMMA PrepareKeeps ==
  ASSUME SvmInv, NEW note, NEW recipient, NEW amount, NEW relayFeeBps, NEW payment,
         Prepares(note, recipient, amount, relayFeeBps, payment)
  PROVE  /\ PoolTypeOK' /\ TreeInv' /\ RequestsOK' /\ OrdersOK' /\ NotesFit' /\ LeavesKept'
         /\ EntriesOK' /\ RequestsSent' /\ (\A draft \in drafts : DraftOK(draft)')
         /\ settlementsInFlight' \subseteq 1 .. made' /\ made' \in 0 .. MaxNotes
         /\ books' \in [DOMAIN books' -> Status] /\ requests' \in Seq(Request)' /\ Len(requests') <= MaxRequests
         /\ payment.change \notin DOMAIN books /\ payment.change \notin Leaves
         /\ \A p \in Payments : p # payment
         /\ payment.change.label = note.label /\ payment.nullifier = note.id
         /\ payment.relayFeeBps = relayFeeBps
<1> USE DEF Prepares
<1>1. /\ events' = events /\ nullifierRecords' = nullifierRecords /\ depositRecords' = depositRecords
      /\ pool' = pool /\ intents' = intents /\ tokens' = tokens /\ retained' = retained
      /\ books' = books /\ preparedByNullifier' = preparedByNullifier /\ requests' = requests
      /\ settlementsInFlight' = settlementsInFlight /\ Leaves' = Leaves
  BY DEF poolVars, Leaves
<1>2. PICK n \in Nat : n = made /\ n + 1 \in 0 .. MaxNotes
  BY MaxAssumption DEF SvmInv, SvmTypeOK, Preparable
<1>3. Notes' \subseteq Notes \cup {payment.change}
  BY <1>1 DEF Notes
<1>4. /\ TreeInv' /\ payment.change.id = n + 1
      /\ payment.change.label = note.label /\ payment.nullifier = note.id
      /\ payment.relayFeeBps = relayFeeBps
  <2>1. TreeInv /\ made \in 0 .. MaxNotes
    BY DEF SvmInv, SvmTypeOK
  <2>2. /\ recipient \in Shops \cup Orders /\ relayFeeBps \in Nat /\ Preparable(note, amount)
        /\ made' = made + 1 /\ UNCHANGED poolVars /\ Payments' = Payments \cup {payment}
        /\ payment = Prepared(note, recipient, amount, relayFeeBps)
    OBVIOUS
  <2> HIDE DEF Prepares
  <2>3. /\ TreeInv' /\ payment.change.id = made + 1
        /\ payment.change.label = note.label /\ payment.nullifier = note.id
        /\ payment.relayFeeBps = relayFeeBps
    BY <1>3, <2>1, <2>2, PrepareKeepsTree
  <2> QED
    BY <1>2, <2>3
<1> HIDE DEF Prepares
<1>5. \A x \in Notes : x # payment.change
  <2>1. \A x \in Notes : x.id \in Nat /\ x.id <= n
    BY <1>2 DEF SvmInv, TreeInv, NotesOK, Note
  <2>2. \A x \in Notes : x.id # n + 1
    BY <2>1
  <2> QED
    BY <1>4, <2>2
<1>6. /\ payment.change \notin DOMAIN books /\ payment.change \notin Leaves
      /\ \A p \in Payments : p # payment
  BY <1>5 DEF Notes
<1>7. /\ made' \in 0 .. MaxNotes /\ 1 .. made \subseteq 1 .. made'
  BY <1>2 DEF Prepares
<1>8. PoolTypeOK'
  BY <1>1, <1>7 DEF SvmInv, SvmTypeOK, PoolTypeOK
<1>9. /\ settlementsInFlight' \subseteq 1 .. made'
      /\ books' \in [DOMAIN books' -> Status] /\ requests' \in Seq(Request)' /\ Len(requests') <= MaxRequests
  <2>1. Request' = Request
    BY <1>1 DEF Request
  <2> QED
    BY <2>1, <1>1, <1>7 DEF SvmInv, SvmTypeOK
<1>10. RequestsOK' /\ OrdersOK' /\ LeavesKept' /\ EntriesOK' /\ RequestsSent'
  <2>1. RequestsOK' /\ OrdersOK' /\ LeavesKept'
    BY <1>1 DEF SvmInv, RequestsAreSound, RequestsOK, RequestOK, Paid, OrdersOK, OrderOK,
                BooksInv, LeavesKept, Known
  <2>2. EntriesOK'
    BY <1>1 DEF SvmInv, BooksInv, EntriesOK, EntryOK, ChangePending, Concerns, Alive
  <2>3. RequestsSent'
    BY <1>1 DEF SvmInv, BooksInv, RequestsSent, SentOK, ChangePending, Entry, Alive
  <2> QED
    BY <2>1, <2>2, <2>3
<1>11. NotesFit'
  <2> SUFFICES ASSUME NEW x \in DOMAIN books PROVE NoteOK(x)'
    BY <1>1 DEF NotesFit
  <2>1. NoteOK(x)
    BY DEF SvmInv, BooksInv, NotesFit
  <2>2. InDoubt(x.id)' = InDoubt(x.id)
    BY <1>1 DEF InDoubt, Alive
  <2> QED
    BY <2>1, <2>2, <1>1, <1>4 DEF NoteOK, Prepares
<1>12. \A draft \in drafts : DraftOK(draft)'
  BY <1>1 DEF SvmInv, BooksInv, DraftsOK, DraftOK
<1> QED
  BY <1>4, <1>6, <1>7, <1>8, <1>9, <1>10, <1>11, <1>12

LEMMA DraftKeeps ==
  ASSUME SvmInv, NEW note \in DOMAIN books, NEW recipient \in Shops, NEW amount,
         Draft(note, recipient, amount)
  PROVE  SvmInv'
<1>1. PICK payment : payment = Prepared(note, recipient, amount, 0)
  OBVIOUS
<1>2. /\ books[note] = "spendable" /\ Preparable(note, amount) /\ made' = made + 1
      /\ drafts' = drafts \cup {[note |-> note, payment |-> payment]}
      /\ UNCHANGED <<poolVars, books, preparedByNullifier, requests, settlementsInFlight, faults>>
      /\ handed' = handed
  BY <1>1 DEF Draft
<1>3. Payments' = Payments \cup {payment}
  <2>1. PICK new : new = [note |-> note, payment |-> payment]
    OBVIOUS
  <2>3. new.payment = payment
    BY <2>1
  <2>2. drafts' = drafts \cup {new} /\ requests' = requests
    BY <2>1, <1>2
  <2> QED
    BY <2>2, <2>3, <1>2 DEF Payments
<1>4. \A x \in DOMAIN books : books[x] \in {"pending", "discarded"} => x.id # note.id
  BY <1>2, IdsAreUnique DEF SvmInv
<1>5. Prepares(note, recipient, amount, 0, payment)
  BY <1>1, <1>2, <1>3, <1>4 DEF Prepares
<1>6. /\ PoolTypeOK' /\ TreeInv' /\ RequestsOK' /\ OrdersOK' /\ NotesFit' /\ LeavesKept'
      /\ EntriesOK' /\ RequestsSent' /\ (\A draft \in drafts : DraftOK(draft)')
      /\ settlementsInFlight' \subseteq 1 .. made' /\ made' \in 0 .. MaxNotes
      /\ books' \in [DOMAIN books' -> Status] /\ requests' \in Seq(Request)' /\ Len(requests') <= MaxRequests
      /\ payment.change \notin DOMAIN books /\ payment.change \notin Leaves
      /\ \A p \in Payments : p # payment
      /\ payment.change.label = note.label /\ payment.nullifier = note.id
      /\ payment.relayFeeBps = 0
  BY <1>5, PrepareKeeps
<1>7. SvmTypeOK'
  BY <1>2, <1>6 DEF SvmInv, SvmTypeOK
<1>8. RequestsAreSound'
  <2>1. \A draft \in drafts' : draft.payment.relayFeeBps = 0
    BY <1>2, <1>6 DEF SvmInv, RequestsAreSound, DraftsAreFree
  <2> QED
    BY <2>1, <1>6 DEF RequestsAreSound, DraftsAreFree
<1>9. OwnersOK'
  BY <1>2 DEF SvmInv, BooksInv, OwnersOK, poolVars
<1>10. DraftsOK'
  <2>1. PICK new : new = [note |-> note, payment |-> payment]
    OBVIOUS
  <2>2. new.note = note /\ new.payment = payment
    BY <2>1
  <2>3. payment.recipient = recipient
    BY <1>1 DEF Prepared
  <2>4. Leaves' = Leaves
    BY <1>2 DEF Leaves, poolVars
  <2>5. \A i \in DOMAIN requests : requests[i].payment # payment
    BY <1>6 DEF Payments
  <2>6. DraftOK(new)'
    BY <2>1, <2>2, <2>3, <2>4, <2>5, <1>2, <1>6 DEF DraftOK
  <2> QED
    BY <2>1, <2>6, <1>2, <1>6 DEF DraftsOK
<1> QED
  BY <1>6, <1>7, <1>8, <1>9, <1>10 DEF SvmInv, BooksInv

LEMMA HandKeeps ==
  ASSUME SvmInv, NEW note \in Leaves, NEW order \in Orders, NEW amount, NEW bps \in RelayFees,
         Hand(note, order, amount, bps)
  PROVE  SvmInv'
<1>1. PICK payment : payment = Prepared(note, order, amount, bps)
  OBVIOUS
<1>2. /\ depositRecords[note.label] = Other /\ Preparable(note, amount) /\ made' = made + 1
      /\ Cardinality(handed) < MaxHanded /\ handed' = handed \cup {payment}
      /\ UNCHANGED <<poolVars, books, preparedByNullifier, requests, settlementsInFlight, faults>>
      /\ drafts' = drafts
  BY <1>1 DEF Hand, clientVars
<1>3. Payments' = Payments \cup {payment}
  BY <1>2 DEF Payments
<1>4. \A x \in DOMAIN books : books[x] \in {"pending", "discarded"} => x.id # note.id
  <2>1. \A x \in DOMAIN books : x.id = note.id => x = note
    BY IdsAreUnique DEF SvmInv
  <2> QED
    BY <2>1, <1>2, UsersAssumption DEF SvmInv, BooksInv, OwnersOK
<1>5. Prepares(note, order, amount, bps, payment)
  BY <1>1, <1>2, <1>3, <1>4, AmountsAssumption DEF Prepares
<1>6. /\ PoolTypeOK' /\ TreeInv' /\ RequestsOK' /\ OrdersOK' /\ NotesFit' /\ LeavesKept'
      /\ EntriesOK' /\ RequestsSent' /\ (\A draft \in drafts : DraftOK(draft)')
      /\ settlementsInFlight' \subseteq 1 .. made' /\ made' \in 0 .. MaxNotes
      /\ books' \in [DOMAIN books' -> Status] /\ requests' \in Seq(Request)' /\ Len(requests') <= MaxRequests
      /\ payment.change.label = note.label
  BY <1>5, PrepareKeeps
<1>7. SvmTypeOK'
  <2>1. IsFiniteSet(handed) /\ Cardinality(handed) \in Nat
    BY FS_CardinalityType DEF SvmInv, SvmTypeOK
  <2>2. IsFiniteSet(handed') /\ Cardinality(handed') <= MaxHanded
    <3>1. /\ IsFiniteSet(handed')
          /\ Cardinality(handed') = Cardinality(handed) \/ Cardinality(handed') = Cardinality(handed) + 1
      BY <1>2, <2>1, FS_AddElement
    <3> QED
      BY <3>1, <2>1, <1>2, MaxAssumption
  <2> QED
    BY <2>2, <1>2, <1>6 DEF SvmInv, SvmTypeOK
<1>8. RequestsAreSound'
  BY <1>2, <1>6 DEF SvmInv, RequestsAreSound, DraftsAreFree
<1>9. OwnersOK'
  <2>1. payment.recipient = order
    BY <1>1 DEF Prepared
  <2> QED
    BY <2>1, <1>2, <1>6 DEF SvmInv, BooksInv, OwnersOK, poolVars
<1>10. DraftsOK'
  BY <1>2, <1>6 DEF DraftsOK
<1> QED
  BY <1>6, <1>7, <1>8, <1>9, <1>10 DEF SvmInv, BooksInv

-----------------------------------------------------------------------------
(* The postman, the owner and the merchants *)
LEMMA GovernKeeps ==
  ASSUME SvmInv, Govern
  PROVE  SvmInv'
<1>1. /\ events' = events /\ nullifierRecords' = nullifierRecords /\ depositRecords' = depositRecords
      /\ tokens' = tokens /\ retained' = retained
      /\ books' = books /\ preparedByNullifier' = preparedByNullifier /\ drafts' = drafts
      /\ requests' = requests /\ handed' = handed /\ made' = made
      /\ UNCHANGED <<clientVars, requests, settlementsInFlight, handed, made, faults>>
  BY DEF Govern, UpdateAspRoot, SetPaused, CreatePaymentIntent, clientVars
<1>2. /\ Leaves' = Leaves /\ Payments' = Payments /\ Notes' = Notes /\ Request' = Request
      /\ \A n : InDoubt(n)' = InDoubt(n)
  BY <1>1 DEF Leaves, Payments, Notes, Request, InDoubt, Alive
<1>3. \/ intents' = intents
      \/ \E order \in Orders, amount \in Amounts :
           intents[order] = NoIntent /\ intents' = [intents EXCEPT ![order].expectedAmount = amount]
  BY DEF Govern, UpdateAspRoot, SetPaused, CreatePaymentIntent
<1>4. PoolTypeOK'
  <2>1. /\ DOMAIN pool' = DOMAIN pool /\ pool'.paused \in BOOLEAN
        /\ pool'.aspRoot \subseteq DOMAIN depositRecords
        /\ pool'.frontier = pool.frontier /\ pool'.knownStateRootsIdx = pool.knownStateRootsIdx
    <3>1. CASE pool' = pool
      BY <3>1 DEF SvmInv, SvmTypeOK, PoolTypeOK
    <3>2. CASE \E labels \in Approvals : labels \subseteq DOMAIN depositRecords /\ UpdateAspRoot(labels)
      BY <3>2 DEF SvmInv, SvmTypeOK, PoolTypeOK, UpdateAspRoot
    <3>3. CASE SetPaused(~pool.paused)
      BY <3>3 DEF SvmInv, SvmTypeOK, PoolTypeOK, SetPaused
    <3>4. CASE \E order \in Orders, amount \in Amounts : CreatePaymentIntent(order, amount)
      BY <3>1, <3>4 DEF CreatePaymentIntent
    <3>5. \/ \E labels \in Approvals : labels \subseteq DOMAIN depositRecords /\ UpdateAspRoot(labels)
          \/ SetPaused(~pool.paused)
          \/ \E order \in Orders, amount \in Amounts : CreatePaymentIntent(order, amount)
      BY DEF Govern
    <3> QED
      BY ONLY <3>2, <3>3, <3>4, <3>5
  <2>2. intents' \in [Orders -> [expectedAmount : Nat, fulfilled : BOOLEAN, nullifier : 0 .. MaxNotes]]
    <3> DEFINE T == [expectedAmount : Nat, fulfilled : BOOLEAN, nullifier : 0 .. MaxNotes]
    <3>1. intents \in [Orders -> T]
      BY DEF SvmInv, SvmTypeOK, PoolTypeOK
    <3>2. CASE intents' = intents
      BY <3>1, <3>2
    <3>3. ASSUME NEW order \in Orders, NEW amount \in Amounts,
                 intents' = [intents EXCEPT ![order].expectedAmount = amount]
          PROVE  intents' \in [Orders -> T]
      <4>1. amount \in Nat
        BY AmountsAssumption
      <4>2. [intents[order] EXCEPT !.expectedAmount = amount] \in T
        <5>1. intents[order] \in T
          BY <3>1
        <5> QED
          BY <4>1, <5>1
      <4> HIDE DEF T
      <4> QED
        BY <3>1, <3>3, <4>2
    <3> QED
      BY <1>3, <3>2, <3>3
  <2> QED
    BY <2>1, <2>2, <1>1 DEF SvmInv, SvmTypeOK, PoolTypeOK
<1>5. SvmTypeOK'
  BY <1>1, <1>2, <1>4 DEF SvmInv, SvmTypeOK
<1>6. TreeInv'
  BY <1>1, <1>2, QuietKeepsTree DEF SvmInv
<1>7. RequestsAreSound'
  BY <1>1 DEF SvmInv, RequestsAreSound, RequestsOK, RequestOK, Paid, DraftsAreFree
<1>8. OrdersOK'
  <2>1. \A order \in Orders :
          intents'[order].fulfilled => intents'[order] = intents[order]
    <3>1. intents \in [Orders -> [expectedAmount : Nat, fulfilled : BOOLEAN, nullifier : 0 .. MaxNotes]]
      BY DEF SvmInv, SvmTypeOK, PoolTypeOK
    <3> SUFFICES ASSUME NEW o \in Orders, NEW amount \in Amounts,
                        intents[o] = NoIntent, intents' = [intents EXCEPT ![o].expectedAmount = amount],
                        NEW order \in Orders, intents'[order].fulfilled
                 PROVE  intents'[order] = intents[order]
      BY <1>3
    <3>2. ~intents[o].fulfilled
      BY DEF NoIntent
    <3>3. ~intents'[o].fulfilled
      BY <3>1, <3>2
    <3> QED
      BY <3>1, <3>3
  <2> QED
    BY <2>1, <1>1 DEF SvmInv, OrdersOK, OrderOK
<1>9. OwnersOK' /\ LeavesKept' /\ DraftsOK'
  BY <1>1, <1>2 DEF SvmInv, BooksInv, OwnersOK, LeavesKept, Known, DraftsOK, DraftOK
<1>10. NotesFit'
  BY <1>1, <1>2 DEF SvmInv, BooksInv, NotesFit, NoteOK
<1>11. EntriesOK'
  BY <1>1, <1>2 DEF SvmInv, BooksInv, EntriesOK, EntryOK, ChangePending, Concerns, Alive
<1>12. RequestsSent'
  BY <1>1 DEF SvmInv, BooksInv, RequestsSent, SentOK, ChangePending, Entry, Alive
<1> QED
  BY <1>5, <1>6, <1>7, <1>8, <1>9, <1>10, <1>11, <1>12 DEF SvmInv, BooksInv

-----------------------------------------------------------------------------
(* Payments are registered and sent *)

(* What the books are once a payment is prepared. *)
LEMMA PreparedBooks ==
  ASSUME SvmInv, NEW note \in DOMAIN books, NEW p, NEW own \in Status,
         p.change.value \in Nat, p.change \notin DOMAIN books,
         books' = WithChange([books EXCEPT ![note] = own], p, "pending")
  PROVE  /\ books' \in [DOMAIN books' -> Status] /\ books'[note] = own
         /\ DOMAIN books \subseteq DOMAIN books'
         /\ \A x \in DOMAIN books' : x \in DOMAIN books \/ (x = p.change /\ p.change.value > 0)
         /\ p.change.value > 0 => p.change \in DOMAIN books' /\ books'[p.change] = "pending"
         /\ \A x \in DOMAIN books : x # note => books'[x] = books[x]
<1>1. PICK b, k : b = [books EXCEPT ![note] = own] /\ k = p.change
  OBVIOUS
<1>2. /\ b \in [DOMAIN books -> Status] /\ DOMAIN b = DOMAIN books /\ b[note] = own
      /\ \A x \in DOMAIN books : x # note => b[x] = books[x]
  BY <1>1 DEF SvmInv, SvmTypeOK
<1>3. CASE p.change.value = 0
  <2>1. books' = b
    BY <1>1, <1>3 DEF WithChange
  <2>2. ~(p.change.value > 0)
    BY <1>3
  <2>3. p.change.value > 0 => p.change \in DOMAIN books' /\ books'[p.change] = "pending"
    BY <2>2
  <2> QED
    BY <2>1, <2>3, <1>2
<1>4. CASE p.change.value > 0
  <2>1. books' = With(b, k, "pending")
    BY <1>1, <1>4 DEF WithChange
  <2>2. "pending" \in Status /\ k \notin DOMAIN books
    BY <1>1 DEF Status
  <2>6. books' = [x \in DOMAIN books \cup {k} |-> IF x = k THEN "pending" ELSE b[x]]
    BY <2>1, <1>2 DEF With
  <2>3. /\ DOMAIN books' = DOMAIN books \cup {k} /\ books' = [x \in DOMAIN books' |-> books'[x]]
        /\ books'[k] = "pending" /\ \A x \in DOMAIN books : books'[x] = b[x]
    BY <2>6, <2>2
  <2>4. \A x \in DOMAIN books' : books'[x] \in Status
    BY <2>2, <2>3, <1>2
  <2>5. books' \in [DOMAIN books' -> Status]
    BY <2>3, <2>4
  <2> QED
    BY <2>3, <2>5, <1>1, <1>2, <1>4
<1>5. p.change.value = 0 \/ p.change.value > 0
  OBVIOUS
<1> QED
  BY ONLY <1>3, <1>4, <1>5

LEMMA RegisterKeeps ==
  ASSUME SvmInv, NEW draft \in drafts, Register(draft)
  PROVE  SvmInv'
<1>1. PICK note : note = draft.note
  OBVIOUS
<1>2. PICK p : p = draft.payment
  OBVIOUS
<1>3. PICK n : n = p.nullifier
  OBVIOUS
<1>4. note = draft.note /\ p = draft.payment /\ n = p.nullifier
  BY <1>1, <1>2, <1>3
<1>5. /\ n \notin DOMAIN preparedByNullifier /\ Len(requests) < MaxRequests
      /\ preparedByNullifier' = With(preparedByNullifier, n, [draft |-> draft, status |-> "prepared"])
      /\ drafts' = drafts \ {draft}
      /\ requests' = Append(requests, NewRequest(p))
      /\ UNCHANGED <<poolVars, settlementsInFlight, handed, made, faults>>
      /\ books' = OnPrepared(draft)
  BY <1>4 DEF Register
<1>6. /\ draft = [note |-> note, payment |-> p]
      /\ note \in DOMAIN books /\ note.id = n /\ note.label = p.change.label
      /\ p.recipient \in Shops /\ p.change \notin DOMAIN books /\ p.change \notin Leaves
      /\ \A i \in DOMAIN requests : requests[i].payment # p
      /\ books[note] \in {"spendable", "spent"}
  BY <1>4, <1>5 DEF SvmInv, BooksInv, DraftsOK, DraftOK
<1>7. p \in Payments /\ p.change.value \in Nat /\ p.relayFeeBps = 0 /\ p.change \in Notes
  <2>1. p \in Payments
    BY <1>4 DEF Payments
  <2>2. p.relayFeeBps = 0
    BY <1>4 DEF SvmInv, RequestsAreSound, DraftsAreFree
  <2> QED
    BY <2>1, <2>2, NotesAre DEF SvmInv, Note, Notes
<1>8. PICK own \in {"locked", "spent"} :
        /\ own = IF books[note] = "spendable" THEN "locked" ELSE books[note]
        /\ own = "locked" <=> books[note] = "spendable"
        /\ own = "spent" <=> books[note] = "spent"
  BY <1>6
<1>9. /\ books' \in [DOMAIN books' -> Status] /\ books'[note] = own
      /\ DOMAIN books \subseteq DOMAIN books'
      /\ \A x \in DOMAIN books' : x \in DOMAIN books \/ (x = p.change /\ p.change.value > 0)
      /\ p.change.value > 0 => p.change \in DOMAIN books' /\ books'[p.change] = "pending"
      /\ \A x \in DOMAIN books : x # note => books'[x] = books[x]
  <2>1. books' = WithChange([books EXCEPT ![note] = own], p, "pending")
    BY <1>4, <1>5, <1>8 DEF OnPrepared
  <2>2. own \in Status
    BY <1>8 DEF Status
  <2> QED
    BY <1>6, <1>7, <2>1, <2>2, PreparedBooks
<1>10. /\ DOMAIN preparedByNullifier' = DOMAIN preparedByNullifier \cup {n}
       /\ preparedByNullifier'[n] = [draft |-> draft, status |-> "prepared"]
       /\ \A k \in DOMAIN preparedByNullifier : preparedByNullifier'[k] = preparedByNullifier[k]
  BY <1>5 DEF With
<1>11. /\ requests' \in Seq(Request)' /\ Len(requests') = Len(requests) + 1
       /\ DOMAIN requests' = DOMAIN requests \cup {Len(requests')}
       /\ Len(requests') \notin DOMAIN requests
       /\ \A i \in DOMAIN requests : requests'[i] = requests[i]
       /\ requests'[Len(requests')] = NewRequest(p)
  <2>1. requests \in Seq(Request)
    BY DEF SvmInv, SvmTypeOK
  <2> QED
    BY <2>1, <1>5, RequestAdded
<1>12. PICK new : new = Len(requests')
  OBVIOUS
<1>13. /\ new \in DOMAIN requests' /\ new \notin DOMAIN requests
       /\ requests'[new].payment = p /\ requests'[new].pc = "verify"
       /\ requests'[new].tx = "none" /\ requests'[new].waiting
       /\ \A i \in DOMAIN requests' : i \in DOMAIN requests \/ i = new
       /\ \A i \in DOMAIN requests : i \in DOMAIN requests' /\ requests'[i] = requests[i]
  BY <1>11, <1>12 DEF NewRequest
<1>14. /\ events' = events /\ nullifierRecords' = nullifierRecords /\ depositRecords' = depositRecords
       /\ pool' = pool /\ intents' = intents /\ tokens' = tokens /\ retained' = retained
       /\ handed' = handed /\ made' = made /\ faults' = faults
       /\ settlementsInFlight' = settlementsInFlight /\ Leaves' = Leaves
  BY <1>5 DEF poolVars, Leaves
<1>15. Payments' \subseteq Payments
  <2>1. \A i \in DOMAIN requests' : requests'[i].payment \in Payments
    <3>1. \A i \in DOMAIN requests : requests[i].payment \in Payments
      BY DEF Payments
    <3> QED
      BY <3>1, <1>7, <1>13
  <2>2. drafts' \subseteq drafts /\ handed' = handed
    BY <1>5, <1>14
  <2> QED
    BY <2>1, <2>2 DEF Payments
<1>16. Notes' \subseteq Notes
  <2>1. DOMAIN books' \subseteq Notes
    BY <1>7, <1>9 DEF Notes
  <2> QED
    BY <2>1, <1>14, <1>15 DEF Notes
<1>17. SvmTypeOK'
  <2>1. PoolTypeOK'
    BY <1>14 DEF SvmInv, SvmTypeOK, PoolTypeOK
  <2>2. \A k \in DOMAIN preparedByNullifier' : EntryTyped(preparedByNullifier'[k])
    BY <1>10 DEF SvmInv, SvmTypeOK, EntryTyped
  <2>3. Len(requests') <= MaxRequests
    <3>1. Len(requests) \in Nat
      BY RequestsShape DEF SvmInv, SvmTypeOK
    <3> QED
      BY <3>1, <1>5, <1>11, MaxAssumption
  <2> QED
    BY <2>1, <2>2, <2>3, <1>9, <1>11, <1>14 DEF SvmInv, SvmTypeOK, EntryTyped
<1>18. TreeInv'
  BY <1>14, <1>15, <1>16, QuietKeepsTree DEF SvmInv
<1>19. RequestsAreSound'
  <2>1. \A i \in DOMAIN requests : RequestOK(requests[i])'
    BY <1>13, <1>14 DEF SvmInv, RequestsAreSound, RequestsOK, RequestOK, Paid
  <2>2. RequestOK(requests[new])'
    BY <1>7, <1>13 DEF RequestOK
  <2>3. DraftsAreFree'
    BY <1>5 DEF SvmInv, RequestsAreSound, DraftsAreFree
  <2>4. RequestsOK'
    <3> SUFFICES ASSUME NEW i \in DOMAIN requests' PROVE RequestOK(requests[i])'
      BY DEF RequestsOK
    <3> QED
      BY <2>1, <2>2, <1>13
  <2> QED
    BY <2>3, <2>4 DEF RequestsAreSound
<1>20. OrdersOK'
  BY <1>14 DEF SvmInv, OrdersOK, OrderOK
<1>21. OwnersOK'
  <2>1. depositRecords[note.label] = Buyer
    BY <1>6 DEF SvmInv, BooksInv, OwnersOK
  <2> QED
    BY <2>1, <1>6, <1>9, <1>14 DEF SvmInv, BooksInv, OwnersOK
<1>22. /\ \A x \in DOMAIN books : x.id = n => x = note
       /\ \A q \in Payments : q.change = p.change => q = p
  BY <1>6, <1>7, IdsAreUnique DEF SvmInv
<1>23. NotesFit'
  <2>1. ASSUME NEW x \in DOMAIN books PROVE NoteOK(x)'
    <3>1. NoteOK(x)
      BY DEF SvmInv, BooksInv, NotesFit
    <3>2. ASSUME NEW i \in DOMAIN requests, requests[i].tx = "landed", requests[i].payment.nullifier = x.id
          PROVE  \E j \in DOMAIN requests' : requests'[j].tx = "landed" /\ requests'[j].payment.nullifier = x.id
      BY <3>2, <1>13
    <3>3. CASE x = note
      BY <3>1, <3>2, <3>3, <1>8, <1>9, <1>14 DEF NoteOK
    <3>4. CASE x # note
      <4>1. books'[x] = books[x] /\ x.id # n
        BY <3>4, <1>9, <1>22
      <4>2. ~InDoubt(x.id) => ~InDoubt(x.id)'
        BY <4>1, <1>4, <1>13 DEF InDoubt
      <4> QED
        BY <3>1, <3>2, <4>1, <4>2, <1>10, <1>14, <1>15 DEF NoteOK
    <3> QED
      BY <3>3, <3>4
  <2>2. ASSUME p.change.value > 0 PROVE NoteOK(p.change)'
    <3>1. books'[p.change] = "pending"
      BY <2>2, <1>9
    <3>2. \A leaf \in Leaves : leaf.id # p.change.id
      BY <1>6, <1>7 DEF SvmInv, TreeInv, NotesOK, Notes
    <3>3. p.change.id \notin nullifierRecords
      BY <3>2 DEF SvmInv, TreeInv, LeavesOK
    <3>4. \A q \in Payments : q.nullifier # p.change.id
      BY <3>2 DEF SvmInv, TreeInv, PaymentsOK, PaymentOK, Spends
    <3> QED
      BY <3>1, <3>3, <3>4, <1>14, <1>15 DEF NoteOK
  <2> SUFFICES ASSUME NEW x \in DOMAIN books' PROVE NoteOK(x)'
    BY DEF NotesFit
  <2> QED
    BY <2>1, <2>2, <1>9
<1>24. LeavesKept'
  <2> SUFFICES ASSUME NEW leaf \in Leaves, leaf.value > 0, Known(leaf.label)'
               PROVE  leaf \in DOMAIN books' /\ books'[leaf] # "discarded"
    BY <1>14 DEF LeavesKept
  <2>1. Known(leaf.label)
    BY <1>6, <1>9 DEF Known
  <2>2. leaf \in DOMAIN books /\ books[leaf] # "discarded"
    BY <2>1 DEF SvmInv, BooksInv, LeavesKept
  <2> QED
    BY <2>2, <1>8, <1>9
<1>25. DraftsOK'
  <2> SUFFICES ASSUME NEW d \in drafts, d # draft PROVE DraftOK(d)'
    BY <1>5 DEF DraftsOK
  <2>1. PICK m, q : m = d.note /\ q = d.payment
    OBVIOUS
  <2>2. /\ d = [note |-> m, payment |-> q] /\ m \in DOMAIN books /\ m.id = q.nullifier
        /\ m.label = q.change.label /\ q.recipient \in Shops
        /\ q.change \notin DOMAIN books /\ q.change \notin Leaves
        /\ \A i \in DOMAIN requests : requests[i].payment # q
        /\ books[m] \in {"spendable", "locked", "spent"}
        /\ books[m] = "locked" => q.nullifier \in DOMAIN preparedByNullifier
    BY <2>1 DEF SvmInv, BooksInv, DraftsOK, DraftOK
  <2>3. q # p
    <3> SUFFICES ASSUME q = p PROVE d = draft
      OBVIOUS
    <3>1. m.id = n
      BY <2>2, <1>4
    <3>2. m = note
      BY <3>1, <2>2, <1>22
    <3> QED
      BY <3>2, <2>2, <1>6
  <2>4. q.change \notin DOMAIN books'
    <3>1. q \in Payments
      BY <2>1 DEF Payments
    <3> QED
      BY <3>1, <2>2, <2>3, <1>9, <1>22
  <2>5. \A i \in DOMAIN requests' : requests'[i].payment # q
    BY <2>2, <2>3, <1>13
  <2>6. /\ books'[m] \in {"spendable", "locked", "spent"}
        /\ books'[m] = "locked" => q.nullifier \in DOMAIN preparedByNullifier'
    <3>1. CASE m = note
      BY <3>1, <2>2, <1>6, <1>8, <1>9, <1>10
    <3>2. CASE m # note
      BY <3>2, <2>2, <1>9, <1>10
    <3> QED
      BY <3>1, <3>2
  <2> QED
    BY <2>1, <2>2, <2>4, <2>5, <2>6, <1>9, <1>14 DEF DraftOK
<1>26. ChangePending(p)'
  BY <1>9 DEF ChangePending
<1>27. \A q : ChangePending(q) => ChangePending(q)'
  <2> SUFFICES ASSUME NEW q, q.change \in DOMAIN books, books[q.change] = "pending"
               PROVE  q.change \in DOMAIN books' /\ books'[q.change] = "pending"
    BY DEF ChangePending
  <2>1. q.change # note
    BY <1>6
  <2> QED
    BY <2>1, <1>9
<1>28. EntriesOK'
  <2>1. EntryOK(n)'
    <3>1. preparedByNullifier'[n].draft = draft /\ preparedByNullifier'[n].status = "prepared"
      BY <1>10
    <3>2. ASSUME own = "locked", NEW i \in DOMAIN requests', Concerns(i, n)'
          PROVE  requests'[i].waiting /\ requests'[i].payment = p
      <4>1. NoteOK(note) /\ books[note] = "spendable"
        BY <3>2, <1>6, <1>8 DEF SvmInv, BooksInv, NotesFit
      <4>2. ASSUME i \in DOMAIN requests PROVE FALSE
        <5>1. Concerns(i, n)
          BY <3>2, <4>2, <1>13 DEF Concerns
        <5>2. RequestOK(requests[i])
          BY <4>2 DEF SvmInv, RequestsAreSound, RequestsOK
        <5> QED
          BY <4>1, <4>2, <5>1, <5>2, <1>6 DEF NoteOK, InDoubt, Concerns, RequestOK
      <4> QED
        BY <4>2, <1>13
    <3>3. books'[note] = own /\ (own = "locked" \/ own = "spent") /\ note \in DOMAIN books'
      BY <1>6, <1>8, <1>9
    <3>4. \E i \in DOMAIN requests' : requests'[i].payment = p
      BY <1>13
    <3> QED
      BY <3>1, <3>2, <3>3, <3>4, <1>4, <1>6, <1>14, <1>26 DEF EntryOK
  <2>2. ASSUME NEW k \in DOMAIN preparedByNullifier PROVE EntryOK(k)'
    <3>1. EntryOK(k) /\ k # n
      BY <1>5 DEF SvmInv, BooksInv, EntriesOK
    <3>2. PICK m, q : m = preparedByNullifier[k].draft.note /\ q = preparedByNullifier[k].draft.payment
      OBVIOUS
    <3>3. m \in DOMAIN books /\ books'[m] = books[m] /\ m \in DOMAIN books'
      BY <3>1, <3>2, <1>6, <1>9 DEF EntryOK
    <3>4. ASSUME NEW i \in DOMAIN requests', Concerns(i, k)'
          PROVE  i \in DOMAIN requests /\ Concerns(i, k) /\ requests'[i] = requests[i]
      BY <3>1, <3>4, <1>4, <1>13 DEF Concerns
    <3>5. ChangePending(q)'
      BY <3>1, <3>2, <1>27 DEF EntryOK
    <3>6. preparedByNullifier'[k] = preparedByNullifier[k]
      BY <1>10
    <3>7. \E i \in DOMAIN requests' : requests'[i].payment = q
      BY <3>1, <3>2, <1>13 DEF EntryOK
    <3> QED
      BY <3>1, <3>2, <3>3, <3>4, <3>5, <3>6, <3>7, <1>14 DEF EntryOK
  <2> QED
    BY <2>1, <2>2, <1>10 DEF EntriesOK
<1>29. RequestsSent'
  <2>1. ASSUME NEW i \in DOMAIN requests PROVE SentOK(i)'
    <3>1. PICK q : q = requests[i].payment
      OBVIOUS
    <3>2. SentOK(i) /\ requests'[i] = requests[i]
      BY <1>13 DEF SvmInv, BooksInv, RequestsSent
    <3>3. PICK x \in DOMAIN books :
            /\ x.id = q.nullifier
            /\ requests[i].waiting =>
                 \/ books[x] = "spent"
                 \/ q.nullifier \in DOMAIN preparedByNullifier /\ Entry(q).draft.payment = q
      BY <3>1, <3>2 DEF SentOK
    <3>4. x \in DOMAIN books' /\ (books[x] = "spent" => books'[x] = "spent")
      BY <1>8, <1>9
    <3>5. q.nullifier \in DOMAIN preparedByNullifier =>
            q.nullifier \in DOMAIN preparedByNullifier' /\ Entry(q)' = Entry(q)
      BY <1>10 DEF Entry
    <3>6. Alive(requests[i]) /\ q.nullifier \notin nullifierRecords => ChangePending(q)'
      BY <3>1, <3>2, <1>27 DEF SentOK
    <3> QED
      BY <3>1, <3>2, <3>3, <3>4, <3>5, <3>6, <1>14 DEF SentOK
  <2>2. SentOK(new)'
    <3>1. Entry(p)' = preparedByNullifier'[n]
      BY <1>4 DEF Entry
    <3>2. Entry(p)'.draft.payment = p
      BY <3>1, <1>4, <1>10
    <3>3. n \in DOMAIN preparedByNullifier' /\ note \in DOMAIN books' /\ note.id = p.nullifier
      BY <1>4, <1>6, <1>9, <1>10
    <3> QED
      BY <3>2, <3>3, <1>4, <1>6, <1>13, <1>26 DEF SentOK
  <2>3. \A i, j \in DOMAIN requests' :
          requests'[i].waiting /\ requests'[j].waiting /\ requests'[i].payment = requests'[j].payment => i = j
    <3>1. \A i, j \in DOMAIN requests :
            requests[i].waiting /\ requests[j].waiting /\ requests[i].payment = requests[j].payment => i = j
      BY DEF SvmInv, BooksInv, RequestsSent
    <3>2. \A i \in DOMAIN requests : requests'[i].payment # p
      BY <1>6, <1>13
    <3> QED
      BY <3>1, <3>2, <1>13
  <2> QED
    BY <2>1, <2>2, <2>3, <1>13 DEF RequestsSent
<1> QED
  BY <1>17, <1>18, <1>19, <1>20, <1>21, <1>23, <1>24, <1>25, <1>28, <1>29 DEF SvmInv, BooksInv

(* The request is made once more. *)
LEMMA ResendKeeps ==
  ASSUME SvmInv, NEW o \in DOMAIN requests, Resend(o)
  PROVE  SvmInv'
<1>0. PICK p, n : p = requests[o].payment /\ n = p.nullifier
  OBVIOUS
<1>1. /\ n \in DOMAIN preparedByNullifier /\ Len(requests) < MaxRequests
      /\ \A j \in DOMAIN requests : requests[j].payment = p => ~requests[j].waiting
      /\ Entry(p).draft.payment = p
      /\ requests' = Append(requests, NewRequest(p))
      /\ UNCHANGED <<poolVars, clientVars, settlementsInFlight, handed, made, faults>>
  BY <1>0 DEF Resend
<1>2. p \in Payments /\ RequestOK(requests[o]) /\ SentOK(o) /\ EntryOK(n)
  BY <1>0, <1>1 DEF Payments, SvmInv, RequestsAreSound, RequestsOK, BooksInv, RequestsSent, EntriesOK
<1>3. /\ requests' \in Seq(Request)' /\ Len(requests') = Len(requests) + 1
      /\ DOMAIN requests' = DOMAIN requests \cup {Len(requests')}
      /\ Len(requests') \notin DOMAIN requests
      /\ \A i \in DOMAIN requests : requests'[i] = requests[i]
      /\ requests'[Len(requests')] = NewRequest(p)
  <2>1. requests \in Seq(Request)
    BY DEF SvmInv, SvmTypeOK
  <2> QED
    BY <2>1, <1>1, RequestAdded
<1>4. PICK new : new = Len(requests')
  OBVIOUS
<1>5. /\ new \in DOMAIN requests' /\ new \notin DOMAIN requests
      /\ requests'[new].payment = p /\ requests'[new].pc = "verify"
      /\ requests'[new].tx = "none" /\ requests'[new].waiting
      /\ \A i \in DOMAIN requests' : i \in DOMAIN requests \/ i = new
      /\ \A i \in DOMAIN requests : i \in DOMAIN requests' /\ requests'[i] = requests[i]
  BY <1>3, <1>4 DEF NewRequest
<1>6. /\ events' = events /\ nullifierRecords' = nullifierRecords /\ depositRecords' = depositRecords
      /\ pool' = pool /\ intents' = intents /\ tokens' = tokens /\ retained' = retained
      /\ books' = books /\ preparedByNullifier' = preparedByNullifier /\ drafts' = drafts
      /\ handed' = handed /\ made' = made /\ faults' = faults
      /\ settlementsInFlight' = settlementsInFlight /\ Leaves' = Leaves
  BY <1>1 DEF poolVars, clientVars, Leaves
<1>7. Payments' \subseteq Payments
  <2>1. \A i \in DOMAIN requests' : requests'[i].payment \in Payments
    <3>1. \A i \in DOMAIN requests : requests[i].payment \in Payments
      BY DEF Payments
    <3> QED
      BY <3>1, <1>2, <1>5
  <2> QED
    BY <2>1, <1>6 DEF Payments
<1>8. Notes' \subseteq Notes
  BY <1>6, <1>7 DEF Notes
<1>9. SvmTypeOK'
  <2>1. PoolTypeOK'
    BY <1>6 DEF SvmInv, SvmTypeOK, PoolTypeOK
  <2>2. Len(requests') <= MaxRequests
    <3>1. Len(requests) \in Nat
      BY RequestsShape DEF SvmInv, SvmTypeOK
    <3> QED
      BY <3>1, <1>1, <1>3, MaxAssumption
  <2> QED
    BY <2>1, <2>2, <1>3, <1>6 DEF SvmInv, SvmTypeOK
<1>10. TreeInv'
  BY <1>6, <1>7, <1>8, QuietKeepsTree DEF SvmInv
<1>11. RequestsAreSound'
  <2>1. \A i \in DOMAIN requests : RequestOK(requests[i])'
    BY <1>5, <1>6 DEF SvmInv, RequestsAreSound, RequestsOK, RequestOK, Paid
  <2>2. RequestOK(requests[new])'
    BY <1>0, <1>2, <1>5 DEF RequestOK
  <2>3. RequestsOK'
    <3> SUFFICES ASSUME NEW i \in DOMAIN requests' PROVE RequestOK(requests[i])'
      BY DEF RequestsOK
    <3> QED
      BY <2>1, <2>2, <1>5
  <2> QED
    BY <2>3, <1>6 DEF SvmInv, RequestsAreSound, DraftsAreFree
<1>12. OrdersOK' /\ OwnersOK' /\ LeavesKept'
  BY <1>6 DEF SvmInv, OrdersOK, OrderOK, BooksInv, OwnersOK, LeavesKept, Known
<1>13. NotesFit'
  <2> SUFFICES ASSUME NEW x \in DOMAIN books PROVE NoteOK(x)'
    BY <1>6 DEF NotesFit
  <2>1. NoteOK(x)
    BY DEF SvmInv, BooksInv, NotesFit
  <2>2. ASSUME NEW i \in DOMAIN requests, requests[i].tx = "landed", requests[i].payment.nullifier = x.id
        PROVE  \E j \in DOMAIN requests' : requests'[j].tx = "landed" /\ requests'[j].payment.nullifier = x.id
    BY <2>2, <1>5
  <2>3. x.id # n /\ ~InDoubt(x.id) => ~InDoubt(x.id)'
    BY <1>0, <1>5 DEF InDoubt
  <2> QED
    BY <2>1, <2>2, <2>3, <1>1, <1>6, <1>7 DEF NoteOK
<1>14. DraftsOK'
  <2> SUFFICES ASSUME NEW draft \in drafts PROVE DraftOK(draft)'
    BY <1>6 DEF DraftsOK
  <2>1. DraftOK(draft)
    BY DEF SvmInv, BooksInv, DraftsOK
  <2>2. \A i \in DOMAIN requests' : requests'[i].payment # draft.payment
    BY <2>1, <1>0, <1>5 DEF DraftOK
  <2> QED
    BY <2>1, <2>2, <1>6 DEF DraftOK
<1>15. \A q : ChangePending(q)' = ChangePending(q)
  BY <1>6 DEF ChangePending
<1>16. EntriesOK'
  <2> SUFFICES ASSUME NEW k \in DOMAIN preparedByNullifier PROVE EntryOK(k)'
    BY <1>6 DEF EntriesOK
  <2>1. EntryOK(k)
    BY DEF SvmInv, BooksInv, EntriesOK
  <2>2. PICK q : q = preparedByNullifier[k].draft.payment
    OBVIOUS
  <2>3. ASSUME NEW i \in DOMAIN requests', Concerns(i, k)'
        PROVE  \/ i \in DOMAIN requests /\ Concerns(i, k) /\ requests'[i] = requests[i]
               \/ requests'[i].waiting /\ requests'[i].payment = q
    <3>1. CASE i \in DOMAIN requests
      BY <2>3, <3>1, <1>5 DEF Concerns
    <3>2. CASE i = new
      <4>1. k = n
        BY <2>3, <3>2, <1>0, <1>5 DEF Concerns
      <4>2. q = p
        BY <4>1, <2>2, <1>0, <1>1 DEF Entry
      <4> QED
        BY <4>2, <3>2, <1>5
    <3> QED
      BY <3>1, <3>2, <1>5
  <2>4. \E i \in DOMAIN requests' : requests'[i].payment = q
    BY <2>1, <2>2, <1>5 DEF EntryOK
  <2> QED
    BY <2>1, <2>2, <2>3, <2>4, <1>6, <1>15 DEF EntryOK
<1>17. RequestsSent'
  <2>1. ASSUME NEW i \in DOMAIN requests PROVE SentOK(i)'
    <3>1. SentOK(i) /\ requests'[i] = requests[i]
      BY <1>5 DEF SvmInv, BooksInv, RequestsSent
    <3> QED
      BY <3>1, <1>6, <1>15 DEF SentOK, Entry
  <2>2. SentOK(new)'
    <3>1. Entry(p)' = Entry(p)
      BY <1>6 DEF Entry
    <3>2. ChangePending(p)
      BY <1>0, <1>1, <1>2 DEF EntryOK, Entry
    <3>3. PICK x \in DOMAIN books : x.id = n
      BY <1>0, <1>2 DEF SentOK
    <3>4. p.recipient \in Shops
      BY <1>0, <1>2 DEF SentOK
    <3> QED
      BY <3>1, <3>2, <3>3, <3>4, <1>0, <1>1, <1>5, <1>6, <1>15 DEF SentOK
  <2>3. \A i, j \in DOMAIN requests' :
          requests'[i].waiting /\ requests'[j].waiting /\ requests'[i].payment = requests'[j].payment => i = j
    <3>1. \A i, j \in DOMAIN requests :
            requests[i].waiting /\ requests[j].waiting /\ requests[i].payment = requests[j].payment => i = j
      BY DEF SvmInv, BooksInv, RequestsSent
    <3>2. \A i \in DOMAIN requests : requests'[i].payment = p => ~requests'[i].waiting
      BY <1>1, <1>5
    <3> QED
      BY <3>1, <3>2, <1>5
  <2> QED
    BY <2>1, <2>2, <2>3, <1>5 DEF RequestsSent
<1> QED
  BY <1>9, <1>10, <1>11, <1>12, <1>13, <1>14, <1>16, <1>17 DEF SvmInv, BooksInv

-----------------------------------------------------------------------------
(* Deposits *)

(* A deposit: its note is the buyer's to spend, or it is another's, or its     *)
(* secrets are lost.                                                           *)
DepositStep(user) ==
  /\ made < MaxNotes /\ Deposit(user, DepositAmount, made + 1) /\ made' = made + 1
  /\ \/ books' = books
     \/ user = Buyer /\ books' = With(books, NewNote, "spendable")
  /\ faults' \in 0 .. MaxFaults
  /\ UNCHANGED <<preparedByNullifier, drafts, requests, settlementsInFlight, handed>>

LEMMA DepositKeeps ==
  ASSUME SvmInv, NEW user \in Users, DepositStep(user)
  PROVE  SvmInv'
<1>1. /\ made < MaxNotes /\ Deposit(user, DepositAmount, made + 1) /\ made' = made + 1
      /\ preparedByNullifier' = preparedByNullifier /\ drafts' = drafts
      /\ requests' = requests /\ handed' = handed /\ settlementsInFlight' = settlementsInFlight
      /\ faults' \in 0 .. MaxFaults
  BY DEF DepositStep
<1>2. PoolTypeOK /\ made \in 0 .. MaxNotes /\ TreeInv
  BY DEF SvmInv, SvmTypeOK
<1>3. PICK note \in Note :
           /\ note.id = made + 1 /\ NewNote = note
           /\ Leaves' = Leaves \cup {note}
           /\ \A j \in DOMAIN events : j \in DOMAIN events' /\ events'[j] = events[j]
           /\ DOMAIN depositRecords' = DOMAIN depositRecords \cup {note.label}
           /\ \A label \in DOMAIN depositRecords : depositRecords'[label] = depositRecords[label]
           /\ depositRecords'[note.label] = user
           /\ note.label \notin DOMAIN depositRecords
           /\ tokens' = [tokens EXCEPT ![user] = @ - DepositAmount, ![Vault] = @ + DepositAmount]
           /\ UNCHANGED <<nullifierRecords, intents>>
           /\ PoolTypeOK'
  BY <1>1, <1>2, DepositDoes
<1>4. PICK n \in Nat : n = made /\ n + 1 \in 0 .. MaxNotes
  BY <1>1, <1>2, MaxAssumption
<1>5. /\ \/ books' = books
         \/ /\ user = Buyer
            /\ DOMAIN books' = DOMAIN books \cup {note} /\ books'[note] = "spendable"
            /\ \A x \in DOMAIN books : x # note => books'[x] = books[x]
      /\ books' \in [DOMAIN books' -> Status]
  <2>1. CASE books' = books
    BY <2>1 DEF SvmInv, SvmTypeOK
  <2>2. CASE user = Buyer /\ books' = With(books, note, "spendable")
    <3>1. books' = [x \in DOMAIN books \cup {note} |-> IF x = note THEN "spendable" ELSE books[x]]
      BY <2>2 DEF With
    <3>2. /\ DOMAIN books' = DOMAIN books \cup {note} /\ books' = [x \in DOMAIN books' |-> books'[x]]
          /\ books'[note] = "spendable" /\ \A x \in DOMAIN books : x # note => books'[x] = books[x]
      BY <3>1
    <3>3. \A x \in DOMAIN books' : books'[x] \in Status
      BY <3>2 DEF SvmInv, SvmTypeOK, Status
    <3>4. books' \in [DOMAIN books' -> Status]
      BY <3>2, <3>3
    <3> QED
      BY <2>2, <3>2, <3>4
  <2> QED
    BY <2>1, <2>2, <1>3 DEF DepositStep
<1>6. /\ \A x \in Notes : x.id \in Nat /\ x.id <= n /\ x.label \in DOMAIN depositRecords
      /\ \A x \in Notes : x # note /\ x.label # note.label
      /\ \A q \in Payments : q.nullifier # n + 1 /\ q.change # note /\ q.change.label \in DOMAIN depositRecords
  <2>1. \A x \in Notes : x.id \in Nat /\ x.id <= n /\ x.label \in DOMAIN depositRecords
    BY <1>2, <1>4 DEF TreeInv, NotesOK, Note
  <2>2. \A x \in Notes : x # note /\ x.label # note.label
    BY <2>1, <1>3
  <2>3. \A q \in Payments : q.nullifier \in 1 .. MaxNotes /\ q.nullifier <= n
    BY <1>2, <1>4, NotesAre
  <2>4. \A q \in Payments : q.nullifier # n + 1
    BY <2>3
  <2> QED
    BY <2>1, <2>2, <2>4 DEF Notes
<1>7. /\ \A x \in DOMAIN books : x \in Notes /\ x # note /\ x.label # note.label /\ x.label \in DOMAIN depositRecords
      /\ \A x \in DOMAIN books : x \in DOMAIN books' /\ books'[x] = books[x]
      /\ \A x \in DOMAIN books' : x \in DOMAIN books \/ (x = note /\ user = Buyer /\ books'[note] = "spendable")
      /\ note \in DOMAIN books' \/ books' = books
  <2>1. \A x \in DOMAIN books : x \in Notes
    BY DEF Notes
  <2>2. \A x \in DOMAIN books : x # note /\ x.label # note.label /\ x.label \in DOMAIN depositRecords
    BY <2>1, <1>6
  <2> QED
    BY <2>1, <2>2, <1>5
<1>8. /\ Payments' = Payments /\ Request' = Request /\ \A k : InDoubt(k)' = InDoubt(k)
  BY <1>1 DEF Payments, Request, InDoubt, Alive
<1>9. Notes' \subseteq Notes \cup {note}
  BY <1>3, <1>7, <1>8 DEF Notes
<1>10. SvmTypeOK'
  <2>1. made' \in 0 .. MaxNotes /\ settlementsInFlight' \subseteq 1 .. made'
    BY <1>1, <1>4 DEF SvmInv, SvmTypeOK
  <2> QED
    BY <2>1, <1>1, <1>3, <1>5, <1>8 DEF SvmInv, SvmTypeOK
<1>11. TreeInv'
  <2>1. nullifierRecords' = nullifierRecords
    BY <1>3
  <2> QED
    BY <2>1, <1>1, <1>2, <1>3, <1>8, <1>9, DepositKeepsTree
<1>12. RequestsAreSound'
  <2>1. \A p : Paid(p) => Paid(p)'
    BY <1>3 DEF Paid
  <2> QED
    BY <2>1, <1>1, <1>3 DEF SvmInv, RequestsAreSound, RequestsOK, RequestOK, DraftsAreFree
<1>13. OrdersOK'
  <2>1. \A order \in Orders : tokens'[order] = tokens[order]
    <3>1. tokens \in [Accounts -> Nat] /\ \A order \in Orders : order # user /\ order # Vault /\ order \in Accounts
      BY <1>2, AccountsAssumption DEF PoolTypeOK, Accounts
    <3> QED
      BY <3>1, <1>3
  <2>2. intents' = intents /\ nullifierRecords' = nullifierRecords
    BY <1>3
  <2>3. ASSUME NEW order \in Orders PROVE OrderOK(order)'
    <3>1. OrderOK(order)
      BY DEF SvmInv, OrdersOK
    <3>2. ASSUME NEW j \in DOMAIN events PROVE j \in DOMAIN events' /\ events'[j] = events[j]
      BY <1>3
    <3> QED
      BY <3>1, <3>2, <2>1, <2>2 DEF OrderOK
  <2> QED
    BY <2>2, <2>3 DEF SvmInv, OrdersOK
<1>14. OwnersOK'
  <2>1. \A p \in handed : p \in Payments
    BY DEF Payments
  <2> QED
    BY <2>1, <1>1, <1>3, <1>6, <1>7 DEF SvmInv, BooksInv, OwnersOK
<1>15. NotesFit'
  <2>1. ASSUME NEW x \in DOMAIN books PROVE NoteOK(x)'
    <3>1. NoteOK(x)
      BY DEF SvmInv, BooksInv, NotesFit
    <3> QED
      BY <3>1, <1>1, <1>3, <1>7, <1>8 DEF NoteOK
  <2>2. ASSUME books'[note] = "spendable" PROVE NoteOK(note)'
    <3>1. note.id = n + 1 /\ n + 1 \notin nullifierRecords
      <4>1. \A k \in nullifierRecords : k \in 1 .. MaxNotes /\ k <= n
        BY <1>2, <1>4, NotesAre
      <4> QED
        BY <4>1, <1>3, <1>4
    <3>2. n + 1 \notin DOMAIN preparedByNullifier
      <4> SUFFICES ASSUME n + 1 \in DOMAIN preparedByNullifier PROVE FALSE
        OBVIOUS
      <4>1. \E q \in Payments : q.nullifier = n + 1
        BY EntryKnown
      <4> QED
        BY <4>1, <1>6
    <3>3. ~InDoubt(n + 1)
      BY <1>6 DEF InDoubt, Payments
    <3>4. "spendable" \notin {"spent", "pending", "discarded"}
      OBVIOUS
    <3> QED
      BY <2>2, <3>1, <3>2, <3>3, <3>4, <1>1, <1>3, <1>8 DEF NoteOK
  <2> SUFFICES ASSUME NEW x \in DOMAIN books' PROVE NoteOK(x)'
    BY DEF NotesFit
  <2> QED
    BY <2>1, <2>2, <1>7
<1>16. LeavesKept'
  <2> SUFFICES ASSUME NEW leaf \in Leaves', leaf.value > 0, Known(leaf.label)'
               PROVE  leaf \in DOMAIN books' /\ books'[leaf] # "discarded"
    BY DEF LeavesKept
  <2>1. PICK x \in DOMAIN books' : x.label = leaf.label
    BY DEF Known
  <2>2. CASE leaf \in Leaves
    <3>1. leaf \in Notes
      BY <2>2 DEF Notes
    <3>2. x \in DOMAIN books
      BY <2>1, <3>1, <1>6, <1>7
    <3>3. leaf \in DOMAIN books /\ books[leaf] # "discarded"
      BY <2>1, <2>2, <3>2 DEF Known, SvmInv, BooksInv, LeavesKept
    <3> QED
      BY <3>3, <1>7
  <2>3. CASE leaf = note
    <3>1. x \notin DOMAIN books
      BY <2>1, <2>3, <1>7
    <3>2. x = note /\ books'[note] = "spendable"
      BY <3>1, <1>7
    <3> QED
      BY <2>3, <3>2
  <2> QED
    BY <2>2, <2>3, <1>3
<1>17. DraftsOK'
  <2> SUFFICES ASSUME NEW draft \in drafts PROVE DraftOK(draft)'
    BY <1>1 DEF DraftsOK
  <2>1. DraftOK(draft)
    BY DEF SvmInv, BooksInv, DraftsOK
  <2>2. draft.payment \in Payments
    BY DEF Payments
  <2>3. draft.payment.change # note
    BY <2>2, <1>6
  <2> QED
    BY <2>1, <2>3, <1>1, <1>3, <1>7 DEF DraftOK
<1>18. \A q : ChangePending(q) => ChangePending(q)'
  BY <1>7 DEF ChangePending
<1>19. EntriesOK'
  <2> SUFFICES ASSUME NEW k \in DOMAIN preparedByNullifier PROVE EntryOK(k)'
    BY <1>1 DEF EntriesOK
  <2>1. EntryOK(k)
    BY DEF SvmInv, BooksInv, EntriesOK
  <2>2. PICK m : m = preparedByNullifier[k].draft.note
    OBVIOUS
  <2>3. PICK q : q = preparedByNullifier[k].draft.payment
    OBVIOUS
  <2>4. m \in DOMAIN books' /\ books'[m] = books[m]
    BY <2>1, <2>2, <1>7 DEF EntryOK
  <2>5. q.change # note
    <3>1. q \in Payments
      BY <2>1, <2>3 DEF EntryOK, Payments
    <3> QED
      BY <3>1, <1>6
  <2>6. ChangePending(q)'
    BY <2>1, <2>3, <1>18 DEF EntryOK
  <2> QED
    BY <2>1, <2>2, <2>3, <2>4, <2>5, <2>6, <1>1, <1>3 DEF EntryOK, Concerns, Alive
<1>20. RequestsSent'
  <2>1. ASSUME NEW i \in DOMAIN requests PROVE SentOK(i)'
    <3>1. SentOK(i)
      BY DEF SvmInv, BooksInv, RequestsSent
    <3> QED
      BY <3>1, <1>1, <1>3, <1>7, <1>18 DEF SentOK, Entry, Alive
  <2> QED
    BY <2>1, <1>1 DEF SvmInv, BooksInv, RequestsSent
<1> QED
  BY <1>10, <1>11, <1>12, <1>13, <1>14, <1>15, <1>16, <1>17, <1>19, <1>20 DEF SvmInv, BooksInv

LEMMA DepositsKeep ==
  ASSUME SvmInv, BuyerDeposit \/ BuyerDepositLost \/ OtherDeposit
  PROVE  SvmInv'
<1>1. faults \in 0 .. MaxFaults /\ Buyer \in Users /\ Other \in Users
  BY UsersAssumption DEF SvmInv, SvmTypeOK
<1>2. CASE BuyerDeposit
  BY <1>1, <1>2, DepositKeeps DEF BuyerDeposit, DepositStep
<1>3. CASE BuyerDepositLost
  BY <1>1, <1>3, FaultCounts, DepositKeeps DEF BuyerDepositLost, DepositStep, clientVars
<1>4. CASE OtherDeposit
  BY <1>1, <1>4, DepositKeeps DEF OtherDeposit, DepositStep, clientVars
<1> QED
  BY <1>2, <1>3, <1>4

-----------------------------------------------------------------------------
(* Withdrawals land *)

(* A withdrawal of a payment no client waits for lands, or of request o.      *)
RelayStep(payment) ==
  /\ payment \in Payments /\ RelayWithdrawal(payment)
  /\ intents' \in [Orders -> [expectedAmount : Nat, fulfilled : BOOLEAN, nullifier : 0 .. MaxNotes]]
  /\ OrdersOK'
  /\ UNCHANGED <<clientVars, settlementsInFlight, handed, made, faults>>
  /\ requests' \in Seq(Request)' /\ Len(requests') = Len(requests) /\ DOMAIN requests' = DOMAIN requests
  /\ \A i \in DOMAIN requests :
       /\ requests'[i].payment = requests[i].payment
       /\ requests'[i].waiting = requests[i].waiting /\ requests'[i].pc = requests[i].pc
       /\ \/ requests'[i] = requests[i]
          \/ /\ requests[i].tx = "sent" /\ requests'[i].tx = "landed"
             /\ requests[i].payment = payment /\ ~Alive(requests'[i])
             /\ requests[i].pc \notin {"verify", "verified", "rejected"}
  (* the note it spends, the change it leaves and the drafts beside it *)
  /\ \A x \in DOMAIN books : x.id = payment.nullifier =>
       /\ books[x] # "spendable"
       /\ \E i \in DOMAIN requests : requests'[i].tx = "landed" /\ requests[i].payment.nullifier = x.id
  /\ Known(payment.change.label) => ChangePending(payment)
  /\ \A draft \in drafts : draft.payment # payment

LEMMA RelayKeeps ==
  ASSUME SvmInv, NEW payment, RelayStep(payment)
  PROVE  SvmInv'
<1>1. /\ payment \in Payments /\ RelayWithdrawal(payment)
      /\ intents' \in [Orders -> [expectedAmount : Nat, fulfilled : BOOLEAN, nullifier : 0 .. MaxNotes]]
      /\ OrdersOK'
      /\ books' = books /\ preparedByNullifier' = preparedByNullifier /\ drafts' = drafts
      /\ settlementsInFlight' = settlementsInFlight /\ handed' = handed /\ made' = made /\ faults' = faults
      /\ requests' \in Seq(Request)' /\ Len(requests') = Len(requests) /\ DOMAIN requests' = DOMAIN requests
      /\ Known(payment.change.label) => ChangePending(payment)
      /\ \A draft \in drafts : draft.payment # payment
  BY DEF RelayStep, clientVars
<1>2. \A i \in DOMAIN requests :
        /\ requests'[i].payment = requests[i].payment
        /\ requests'[i].waiting = requests[i].waiting /\ requests'[i].pc = requests[i].pc
        /\ \/ requests'[i] = requests[i]
           \/ /\ requests[i].tx = "sent" /\ requests'[i].tx = "landed"
              /\ requests[i].payment = payment /\ ~Alive(requests'[i])
              /\ requests[i].pc \notin {"verify", "verified", "rejected"}
  BY DEF RelayStep
<1>3. \A x \in DOMAIN books : x.id = payment.nullifier =>
        /\ books[x] # "spendable"
        /\ \E i \in DOMAIN requests : requests'[i].tx = "landed" /\ requests[i].payment.nullifier = x.id
  BY DEF RelayStep
<1>4. PoolTypeOK /\ made \in 0 .. MaxNotes /\ TreeInv /\ NotesOK /\ LeavesOK /\ PaymentsOK
  BY DEF SvmInv, SvmTypeOK, TreeInv
<1>5. /\ PoolTypeOK'
      /\ payment.nullifier \notin nullifierRecords
      /\ nullifierRecords' = nullifierRecords \cup {payment.nullifier}
      /\ Leaves' = Leaves \cup {payment.change}
      /\ \A j \in DOMAIN events : j \in DOMAIN events' /\ events'[j] = events[j]
      /\ \E j \in DOMAIN events' :
           events'[j] = [leaf |-> payment.change, nullifier |-> payment.nullifier,
                         recipient |-> payment.recipient, value |-> Payout(payment)]
      /\ depositRecords' = depositRecords
  BY <1>1, <1>4, RelayDoes
<1>6. Payments' = Payments
  <2>1. {requests'[i].payment : i \in DOMAIN requests'} = {requests[i].payment : i \in DOMAIN requests}
    BY <1>1, <1>2
  <2> QED
    BY <1>1, <2>1 DEF Payments
<1>7. Notes' = Notes
  BY <1>1, <1>5, <1>6 DEF Notes
<1>8. SvmTypeOK'
  BY <1>1, <1>5 DEF SvmInv, SvmTypeOK
<1>9. TreeInv'
  BY <1>1, <1>4, <1>5, <1>6, <1>7, RelayKeepsTree
<1>10. /\ \A q \in Payments : q.change = payment.change => q = payment
       /\ payment.change.id \notin nullifierRecords
  BY <1>1, <1>4, <1>5, IdsAreUnique, FreshChange
<1>11. RequestsAreSound'
  <2>1. \A p : Paid(p) => Paid(p)'
    BY <1>5 DEF Paid
  <2>2. ASSUME NEW i \in DOMAIN requests PROVE RequestOK(requests[i])'
    <3>1. RequestOK(requests[i])
      BY DEF SvmInv, RequestsAreSound, RequestsOK
    <3>2. CASE requests'[i] = requests[i]
      BY <2>1, <3>1, <3>2, <1>5 DEF RequestOK
    <3>3. CASE /\ requests[i].tx = "sent" /\ requests'[i].tx = "landed"
               /\ requests[i].payment = payment
               /\ requests[i].pc \notin {"verify", "verified", "rejected"}
      <4>1. payment.relayFeeBps = 0 /\ payment.amount \in Nat
        BY <3>1, <3>3, <1>1, <1>4, NotesAre DEF RequestOK
      <4>2. Payout(payment) = payment.amount
        BY <4>1, FreeOfFee
      <4>3. Paid(payment)'
        BY <4>2, <1>5 DEF Paid
      <4> QED
        BY <3>3, <4>1, <4>3, <1>2, <1>5 DEF RequestOK
    <3> QED
      BY <3>2, <3>3, <1>2
  <2> QED
    BY <2>2, <1>1 DEF SvmInv, RequestsAreSound, RequestsOK, DraftsAreFree
<1>12. OwnersOK'
  BY <1>1, <1>5 DEF SvmInv, BooksInv, OwnersOK
<1>13. \A i \in DOMAIN requests : Alive(requests'[i]) => Alive(requests[i])
  BY <1>2
<1>14. NotesFit'
  <2> SUFFICES ASSUME NEW x \in DOMAIN books PROVE NoteOK(x)'
    BY <1>1 DEF NotesFit
  <2>1. NoteOK(x)
    BY DEF SvmInv, BooksInv, NotesFit
  <2>2. ~InDoubt(x.id) => ~InDoubt(x.id)'
    BY <1>1, <1>2, <1>13 DEF InDoubt
  <2>3. x.id \in nullifierRecords' =>
          \E i \in DOMAIN requests' : requests'[i].tx = "landed" /\ requests'[i].payment.nullifier = x.id
    <3>1. CASE x.id = payment.nullifier
      BY <3>1, <1>1, <1>2, <1>3
    <3>2. CASE x.id \in nullifierRecords
      <4>1. PICK i \in DOMAIN requests : requests[i].tx = "landed" /\ requests[i].payment.nullifier = x.id
        BY <2>1, <3>2 DEF NoteOK
      <4>2. requests'[i].tx = "landed"
        BY <4>1, <1>2
      <4> QED
        BY <4>1, <4>2, <1>1, <1>2
    <3> QED
      BY <3>1, <3>2, <1>5
  <2>4. books[x] \in {"pending", "discarded"} => x.id # payment.nullifier
    BY <2>1, <1>1 DEF NoteOK
  <2> QED
    BY <2>1, <2>2, <2>3, <2>4, <1>1, <1>3, <1>5, <1>6 DEF NoteOK
<1>15. LeavesKept'
  <2> SUFFICES ASSUME NEW leaf \in Leaves', leaf.value > 0, Known(leaf.label)
               PROVE  leaf \in DOMAIN books /\ books[leaf] # "discarded"
    BY <1>1 DEF LeavesKept, Known
  <2>1. CASE leaf \in Leaves
    BY <2>1 DEF SvmInv, BooksInv, LeavesKept
  <2>2. CASE leaf = payment.change
    <3>1. leaf \in DOMAIN books /\ books[leaf] = "pending"
      BY <2>2, <1>1 DEF ChangePending
    <3> QED
      BY <3>1
  <2> QED
    BY <2>1, <2>2, <1>5
<1>16. DraftsOK'
  <2> SUFFICES ASSUME NEW draft \in drafts PROVE DraftOK(draft)'
    BY <1>1 DEF DraftsOK
  <2>1. DraftOK(draft)
    BY DEF SvmInv, BooksInv, DraftsOK
  <2>2. draft.payment.change # payment.change
    <3>1. draft.payment \in Payments
      BY DEF Payments
    <3> QED
      BY <3>1, <1>1, <1>10
  <2> QED
    BY <2>1, <2>2, <1>1, <1>2, <1>5 DEF DraftOK
<1>17. EntriesOK'
  <2> SUFFICES ASSUME NEW k \in DOMAIN preparedByNullifier PROVE EntryOK(k)'
    BY <1>1 DEF EntriesOK
  <2>1. EntryOK(k)
    BY DEF SvmInv, BooksInv, EntriesOK
  <2>2. PICK m : m = preparedByNullifier[k].draft.note
    OBVIOUS
  <2>3. PICK q : q = preparedByNullifier[k].draft.payment
    OBVIOUS
  <2>4. books[m] = "spent" => q.change \notin Leaves'
    <3> SUFFICES ASSUME books[m] = "spent", q.change \in Leaves' PROVE FALSE
      OBVIOUS
    <3>1. q \in Payments /\ q.nullifier = k /\ m.id = k /\ m \in DOMAIN books /\ q.change \notin Leaves
      BY <2>1, <2>2, <2>3 DEF EntryOK, Payments
    <3>2. q = payment
      BY <3>1, <1>5, <1>10
    <3>3. k \in nullifierRecords
      BY <3>1 DEF SvmInv, BooksInv, NotesFit, NoteOK
    <3> QED
      BY <3>1, <3>2, <3>3, <1>5
  <2>5. ASSUME NEW i \in DOMAIN requests, Concerns(i, k)' PROVE Concerns(i, k)
    BY <2>5, <1>2, <1>13 DEF Concerns, Alive
  <2> QED
    BY <2>1, <2>2, <2>3, <2>4, <2>5, <1>1, <1>2 DEF EntryOK, ChangePending
<1>18. RequestsSent'
  <2>1. ASSUME NEW i \in DOMAIN requests PROVE SentOK(i)'
    <3>1. SentOK(i)
      BY DEF SvmInv, BooksInv, RequestsSent
    <3> QED
      BY <3>1, <1>1, <1>2, <1>5, <1>13 DEF SentOK, ChangePending, Entry
  <2> QED
    BY <2>1, <1>1, <1>2 DEF SvmInv, BooksInv, RequestsSent
<1> QED
  BY <1>1, <1>8, <1>9, <1>11, <1>12, <1>14, <1>15, <1>16, <1>17, <1>18 DEF SvmInv, BooksInv

(* The orders, when a withdrawal lands that is none of theirs. *)
LEMMA RelayKeepsOrders ==
  ASSUME SvmInv, NEW payment \in Payments, RelayWithdrawal(payment), made' = made, intents' = intents
  PROVE  OrdersOK'
<1>1. /\ PoolTypeOK /\ made \in 0 .. MaxNotes /\ NotesOK /\ LeavesOK /\ PaymentsOK
      /\ intents' \in [Orders -> [expectedAmount : Nat, fulfilled : BOOLEAN, nullifier : 0 .. MaxNotes]]
  BY DEF SvmInv, SvmTypeOK, TreeInv, PoolTypeOK
<1>2. /\ nullifierRecords' = nullifierRecords \cup {payment.nullifier}
      /\ \A j \in DOMAIN events : j \in DOMAIN events' /\ events'[j] = events[j]
      /\ \A order \in Orders : tokens'[order] >= tokens[order]
      /\ PoolTypeOK'
  BY <1>1, RelayDoes
<1>3. ASSUME NEW order \in Orders PROVE OrderOK(order)'
  <2>1. OrderOK(order)
    BY DEF SvmInv, OrdersOK
  <2>2. /\ tokens[order] \in Nat /\ tokens'[order] \in Nat /\ intents[order].expectedAmount \in Nat
        /\ tokens'[order] >= tokens[order]
    BY <1>1, <1>2 DEF PoolTypeOK, Accounts
  <2>3. tokens[order] >= intents[order].expectedAmount => tokens'[order] >= intents[order].expectedAmount
    BY <2>2
  <2>4. ASSUME NEW j \in DOMAIN events PROVE j \in DOMAIN events' /\ events'[j] = events[j]
    BY <1>2
  <2> QED
    BY <2>1, <2>3, <2>4, <1>2 DEF OrderOK
<1> QED
  BY <1>3 DEF SvmInv, OrdersOK

LEMMA LandKeeps ==
  ASSUME SvmInv, NEW i \in DOMAIN requests, Land(i)
  PROVE  SvmInv'
<1>1. PICK p : p = requests[i].payment
  OBVIOUS
<1>2. /\ requests[i].tx = "sent" /\ RelayWithdrawal(p)
      /\ requests' = [requests EXCEPT ![i].tx = "landed"]
      /\ intents' = intents /\ made' = made
      /\ UNCHANGED <<clientVars, settlementsInFlight, handed, made, faults>>
  BY <1>1 DEF Land
<1>3. /\ p \in Payments /\ RequestOK(requests[i]) /\ SentOK(i) /\ p.nullifier \notin nullifierRecords
      /\ requests \in Seq(Request)
      /\ intents \in [Orders -> [expectedAmount : Nat, fulfilled : BOOLEAN, nullifier : 0 .. MaxNotes]]
  BY <1>1, <1>2 DEF Payments, SvmInv, SvmTypeOK, PoolTypeOK, RequestsAreSound, RequestsOK, BooksInv, RequestsSent,
                    RelayWithdrawal, Relayable
<1>4. OrdersOK'
  BY <1>2, <1>3, RelayKeepsOrders
<1>5. PICK r : r = [requests[i] EXCEPT !.tx = "landed"]
  OBVIOUS
<1>6. /\ r \in Request /\ r.payment = p /\ r.waiting = requests[i].waiting
      /\ r.pc = requests[i].pc /\ r.tx = "landed"
      /\ requests[i].pc \notin {"verify", "verified", "rejected"}
  <2>1. requests[i].pc \notin {"verify", "verified", "rejected"}
    BY <1>2, <1>3 DEF RequestOK
  <2> QED
    BY <2>1, <1>1, <1>3, <1>5, RequestFields DEF Request
<1>7. /\ requests' \in Seq(Request)' /\ Len(requests') = Len(requests) /\ DOMAIN requests' = DOMAIN requests
      /\ \A j \in DOMAIN requests : j # i => requests'[j] = requests[j]
      /\ requests'[i] = r
  <2>1. requests' = [requests EXCEPT ![i] = r]
    BY <1>2, <1>5
  <2> QED
    BY <2>1, <1>1, <1>3, <1>6, RequestUpdated
<1>8. ~Alive(r)
  BY <1>6 DEF Alive
<1>9. \A j \in DOMAIN requests :
        /\ requests'[j].payment = requests[j].payment
        /\ requests'[j].waiting = requests[j].waiting /\ requests'[j].pc = requests[j].pc
        /\ \/ requests'[j] = requests[j]
           \/ /\ requests[j].tx = "sent" /\ requests'[j].tx = "landed"
              /\ requests[j].payment = p /\ ~Alive(requests'[j])
              /\ requests[j].pc \notin {"verify", "verified", "rejected"}
  BY <1>1, <1>2, <1>6, <1>7, <1>8
<1>10. ASSUME NEW x \in DOMAIN books, x.id = p.nullifier
       PROVE  /\ books[x] # "spendable"
              /\ \E j \in DOMAIN requests : requests'[j].tx = "landed" /\ requests[j].payment.nullifier = x.id
  <2>1. InDoubt(p.nullifier)
    BY <1>1, <1>2 DEF InDoubt, Alive
  <2>2. books[x] # "spendable"
    BY <2>1, <1>10 DEF SvmInv, BooksInv, NotesFit, NoteOK
  <2> QED
    BY <2>2, <1>1, <1>6, <1>7, <1>10
<1>11. ChangePending(p)
  BY <1>1, <1>2, <1>3 DEF SentOK, Alive
<1>12. \A draft \in drafts : draft.payment # p
  BY <1>1 DEF SvmInv, BooksInv, DraftsOK, DraftOK
<1>13. RelayStep(p)
  BY <1>2, <1>3, <1>4, <1>7, <1>9, <1>10, <1>11, <1>12 DEF RelayStep
<1> QED
  BY <1>13, RelayKeeps

(* A handed payment is of another's note. *)
LEMMA HandedKeeps ==
  ASSUME SvmInv, NEW p \in handed, RelayWithdrawal(p), OrdersOK',
         intents' \in [Orders -> [expectedAmount : Nat, fulfilled : BOOLEAN, nullifier : 0 .. MaxNotes]],
         UNCHANGED <<clientVars, requests, settlementsInFlight, handed, made, faults>>
  PROVE  SvmInv'
<1>1. p \in Payments /\ requests' = requests /\ requests \in Seq(Request)
  BY DEF Payments, SvmInv, SvmTypeOK
<1>2. /\ depositRecords[p.change.label] = Other /\ p.recipient \in Orders
      /\ \A x \in DOMAIN books : depositRecords[x.label] = Buyer
  BY DEF SvmInv, BooksInv, OwnersOK
<1>3. PICK leaf \in Leaves : Spends(p, leaf)
  BY <1>1 DEF SvmInv, TreeInv, PaymentsOK, PaymentOK
<1>4. \A x \in DOMAIN books : x.id # p.nullifier
  <2> SUFFICES ASSUME NEW x \in DOMAIN books, x.id = p.nullifier PROVE FALSE
    OBVIOUS
  <2>1. x = leaf
    BY <1>3, IdsAreUnique DEF SvmInv, Spends
  <2> QED
    BY <2>1, <1>2, <1>3, UsersAssumption DEF Spends
<1>5. ~Known(p.change.label)
  BY <1>2, UsersAssumption DEF Known
<1>6. \A draft \in drafts : draft.payment # p
  BY <1>2, AccountsAssumption DEF SvmInv, BooksInv, DraftsOK, DraftOK
<1>7. requests' \in Seq(Request)' /\ Len(requests') = Len(requests) /\ DOMAIN requests' = DOMAIN requests
  <2>1. Request' = Request
    BY <1>1 DEF Request
  <2> QED
    BY <2>1, <1>1
<1>8. UNCHANGED <<clientVars, settlementsInFlight, handed, made, faults>>
  OBVIOUS
<1>9. RelayStep(p)
  BY <1>1, <1>4, <1>5, <1>6, <1>7, <1>8 DEF RelayStep
<1> QED
  BY <1>9, RelayKeeps

LEMMA RelayHandedKeeps ==
  ASSUME SvmInv, NEW p \in handed, RelayHanded(p)
  PROVE  SvmInv'
<1>1. /\ RelayWithdrawal(p) /\ intents' = intents /\ made' = made
      /\ UNCHANGED <<clientVars, requests, settlementsInFlight, handed, made, faults>>
  BY DEF RelayHanded
<1>2. p \in Payments
  BY DEF Payments
<1>3. OrdersOK'
  BY <1>1, <1>2, RelayKeepsOrders
<1>4. intents' \in [Orders -> [expectedAmount : Nat, fulfilled : BOOLEAN, nullifier : 0 .. MaxNotes]]
  BY <1>1 DEF SvmInv, SvmTypeOK, PoolTypeOK
<1> QED
  BY <1>1, <1>3, <1>4, HandedKeeps

LEMMA FulfillKeeps ==
  ASSUME SvmInv, NEW p \in handed, NEW order \in Orders, FulfillHanded(order, p)
  PROVE  SvmInv'
<1> DEFINE T == [expectedAmount : Nat, fulfilled : BOOLEAN, nullifier : 0 .. MaxNotes]
<1>1. /\ ~intents[order].fulfilled /\ p.recipient = order /\ RelayWithdrawal(p)
      /\ tokens'[order] - tokens[order] = intents[order].expectedAmount
      /\ intents' = [intents EXCEPT ![order].fulfilled = TRUE, ![order].nullifier = p.nullifier]
      /\ UNCHANGED <<clientVars, requests, settlementsInFlight, handed, made, faults>> /\ made' = made
  BY DEF FulfillHanded, FulfillPrivatePayment
<1>2. p \in Payments
  BY DEF Payments
<1>3. /\ PoolTypeOK /\ made \in 0 .. MaxNotes /\ NotesOK /\ LeavesOK /\ PaymentsOK
      /\ intents \in [Orders -> T]
  BY DEF SvmInv, SvmTypeOK, TreeInv, PoolTypeOK
<1>4. p.nullifier \in 0 .. MaxNotes
  BY <1>2, NotesAre, MaxAssumption DEF SvmInv
<1>5. /\ intents'[order] = [expectedAmount |-> intents[order].expectedAmount,
                            fulfilled |-> TRUE, nullifier |-> p.nullifier]
      /\ \A other \in Orders : other # order => intents'[other] = intents[other]
      /\ intents' = [other \in Orders |-> intents'[other]]
  BY <1>1, <1>3
<1>6. intents' \in [Orders -> T]
  <2>1. intents[order] \in T
    BY <1>3
  <2>2. intents'[order] \in T
    BY <2>1, <1>4, <1>5
  <2>3. \A other \in Orders : intents'[other] \in T
    BY <2>2, <1>3, <1>5
  <2> HIDE DEF T
  <2> QED
    BY <2>3, <1>5
<1>7. /\ nullifierRecords' = nullifierRecords \cup {p.nullifier} /\ p.nullifier \notin nullifierRecords
      /\ \A j \in DOMAIN events : j \in DOMAIN events' /\ events'[j] = events[j]
      /\ \E j \in DOMAIN events' :
           events'[j] = [leaf |-> p.change, nullifier |-> p.nullifier,
                         recipient |-> p.recipient, value |-> Payout(p)]
      /\ Payout(p) \in Nat
      /\ tokens'[p.recipient] = tokens[p.recipient] + Payout(p)
      /\ \A other \in Orders : tokens'[other] >= tokens[other]
      /\ PoolTypeOK'
  BY <1>1, <1>2, <1>3, <1>6, RelayDoes
<1>8. ASSUME NEW other \in Orders
      PROVE  /\ tokens[other] \in Nat /\ tokens'[other] \in Nat /\ intents[other].expectedAmount \in Nat
             /\ tokens'[other] >= tokens[other]
  BY <1>3, <1>7 DEF PoolTypeOK, Accounts
<1>9. OrderOK(order)'
  <2>1. /\ intents'[order].expectedAmount = intents[order].expectedAmount
        /\ intents'[order].nullifier = p.nullifier
    BY <1>5
  <2>2. PICK e, t, u \in Nat, w \in Nat :
          e = intents[order].expectedAmount /\ t = tokens'[order] /\ u = tokens[order] /\ w = Payout(p)
    BY <1>7, <1>8
  <2>3. e \in Nat /\ t \in Nat /\ t - u = e /\ t = u + w
    BY <2>2, <1>1, <1>7, <1>8
  <2>4. t >= e /\ w = e
    BY <2>3
  <2>5. PICK j \in DOMAIN events' :
          events'[j] = [leaf |-> p.change, nullifier |-> p.nullifier,
                        recipient |-> p.recipient, value |-> Payout(p)]
    BY <1>7
  <2>6. events'[j].nullifier = p.nullifier /\ events'[j].recipient = order /\ events'[j].value = e
    <3>1. /\ events'[j].nullifier = p.nullifier /\ events'[j].recipient = p.recipient
          /\ events'[j].value = Payout(p)
      BY <2>5
    <3>2. Payout(p) = e /\ p.recipient = order
      BY <2>2, <2>4, <1>1
    <3> QED
      BY <3>1, <3>2
  <2>7. /\ intents'[order].nullifier \in nullifierRecords'
        /\ tokens'[order] >= intents'[order].expectedAmount
    BY <2>1, <2>2, <2>4, <1>7
  <2>8. /\ events'[j].nullifier = intents'[order].nullifier
        /\ events'[j].recipient = order /\ events'[j].value = intents'[order].expectedAmount
    BY <2>1, <2>2, <2>6
  <2>9. j \in DOMAIN events'
    OBVIOUS
  <2> QED
    BY <2>7, <2>8, <2>9 DEF OrderOK
<1>10. ASSUME NEW other \in Orders, other # order PROVE OrderOK(other)'
  <2>1. OrderOK(other) /\ intents'[other] = intents[other]
    BY <1>5, <1>10 DEF SvmInv, OrdersOK
  <2>2. tokens[other] >= intents[other].expectedAmount => tokens'[other] >= intents[other].expectedAmount
    BY <1>8
  <2>3. ASSUME NEW j \in DOMAIN events PROVE j \in DOMAIN events' /\ events'[j] = events[j]
    BY <1>7
  <2> QED
    BY <2>1, <2>2, <2>3, <1>7 DEF OrderOK
<1>11. \A other \in Orders : other # order /\ intents'[other].fulfilled => intents'[other].nullifier # p.nullifier
  BY <1>5, <1>7 DEF SvmInv, OrdersOK, OrderOK
<1>12. OrdersOK'
  <2>1. \A other, third \in Orders :
          intents'[other].fulfilled /\ intents'[third].fulfilled /\ other # third
          => intents'[other].nullifier # intents'[third].nullifier
    <3> SUFFICES ASSUME NEW other \in Orders, NEW third \in Orders, other # third,
                        intents'[other].fulfilled, intents'[third].fulfilled
                 PROVE  intents'[other].nullifier # intents'[third].nullifier
      OBVIOUS
    <3>1. intents'[order].nullifier = p.nullifier
      BY <1>5
    <3>2. CASE other # order /\ third # order
      BY <3>2, <1>5 DEF SvmInv, OrdersOK
    <3>3. CASE other = order \/ third = order
      BY <3>1, <3>3, <1>11
    <3> QED
      BY <3>2, <3>3
  <2> QED
    BY <2>1, <1>9, <1>10 DEF OrdersOK
<1> QED
  BY <1>1, <1>6, <1>12, HandedKeeps

-----------------------------------------------------------------------------
(* The invariant *)

(* The programs are initialised and the books are empty. *)
LEMMA SvmStart == SvmInit => SvmInv
<1> SUFFICES ASSUME SvmInit PROVE SvmInv
  OBVIOUS
<1>1. /\ books = << >> /\ preparedByNullifier = << >> /\ drafts = {} /\ requests = << >>
      /\ settlementsInFlight = {} /\ handed = {} /\ made = 0 /\ faults = 0
      /\ depositRecords = << >> /\ nullifierRecords = {} /\ events = << >> /\ retained = 0
      /\ intents = [order \in Orders |-> NoIntent]
      /\ tokens = [account \in Accounts |-> IF account \in Users THEN Funds ELSE 0]
      /\ pool = [paused |-> FALSE, aspRoot |-> {}, treeRoot |-> Zero,
                 frontier |-> [sideNodes |-> [level \in Levels |-> Zero], size |-> 0, currentDepth |-> 0],
                 knownStateRoots |-> [i \in Slots |-> Zero], knownStateRootsIdx |-> 0]
  BY DEF SvmInit, PoolInit
<1>2. /\ DOMAIN << >> = {} /\ Len(<< >>) = 0
      /\ events \in Seq(Event) /\ depositRecords \in Seq(Users) /\ requests \in Seq(Request)
  BY <1>1, EmptySeq
<1>3. Leaves = {} /\ Payments = {} /\ Notes = {}
  BY <1>1, <1>2 DEF Leaves, Payments, Notes
<1>4. PoolTypeOK
  <2>1. 0 \in Slots
    <3>1. PICK h \in Nat \ {0} : h = HISTORICAL_ROOTS
      BY RootsAssumption
    <3> QED
      BY <3>1 DEF Slots
  <2>2. tokens \in [Accounts -> Nat]
    BY <1>1, AmountsAssumption
  <2>3. NoIntent \in [expectedAmount : Nat, fulfilled : BOOLEAN, nullifier : 0 .. MaxNotes]
    BY MaxAssumption DEF NoIntent
  <2>4. intents \in [Orders -> [expectedAmount : Nat, fulfilled : BOOLEAN, nullifier : 0 .. MaxNotes]]
    BY <2>3, <1>1
  <2>5. /\ DOMAIN pool = {"paused", "aspRoot", "treeRoot", "frontier", "knownStateRoots", "knownStateRootsIdx"}
        /\ pool.paused \in BOOLEAN /\ pool.aspRoot = {} /\ pool.knownStateRootsIdx = 0
        /\ pool.frontier.size = 0 /\ DOMAIN pool.frontier.sideNodes = Levels
    BY <1>1
  <2>6. Len(events) = 0 /\ nullifierRecords \subseteq 1 .. made /\ retained \in Nat
    BY <1>1, <1>2
  <2> QED
    BY <2>1, <2>2, <2>4, <2>5, <2>6, <1>2 DEF PoolTypeOK
<1>5. SvmTypeOK
  <2>1. IsFiniteSet(handed) /\ Cardinality(handed) = 0
    BY <1>1, FS_EmptySet
  <2>2. books \in [DOMAIN books -> Status]
    BY <1>1, <1>2
  <2>3. DOMAIN preparedByNullifier = {} /\ Len(requests) = 0
    BY <1>1, <1>2
  <2> QED
    BY <2>1, <2>2, <2>3, <1>1, <1>2, <1>4, MaxAssumption DEF SvmTypeOK
<1>6. TreeInv
  BY <1>1, <1>3 DEF TreeInv, NotesOK, LeavesOK, PaymentsOK
<1>7. RequestsAreSound /\ OrdersOK
  BY <1>1, <1>2 DEF RequestsAreSound, RequestsOK, DraftsAreFree, OrdersOK, OrderOK, NoIntent
<1>8. BooksInv
  BY <1>1, <1>2, <1>3 DEF BooksInv, OwnersOK, NotesFit, LeavesKept, DraftsOK, EntriesOK, RequestsSent
<1> QED
  BY <1>5, <1>6, <1>7, <1>8 DEF SvmInv

(* Nothing happens. *)
LEMMA SvmStutters == ASSUME SvmInv, UNCHANGED svmVars PROVE SvmInv'
<1>1. /\ UNCHANGED <<poolVars, requests, settlementsInFlight, handed, made>>
      /\ UNCHANGED <<books, preparedByNullifier>> /\ drafts' \subseteq drafts /\ faults' \in 0 .. MaxFaults
  BY DEF svmVars, clientVars, SvmInv, SvmTypeOK
<1>2. ClientStep /\ \A i \in DOMAIN requests : requests'[i] = requests[i]
  BY <1>1, RequestsStay
<1>3. Unheard
  BY <1>1, <1>2 DEF Unheard
<1> QED
  BY <1>2, <1>3, UnheardKeeps

(* Every step keeps the invariant. *)
LEMMA SvmStep == ASSUME SvmInv, [SvmNext]_svmVars PROVE SvmInv'
<1>1. CASE BuyerDeposit \/ BuyerDepositLost \/ OtherDeposit
  BY <1>1, DepositsKeep
<1>2. ASSUME NEW note \in DOMAIN books, NEW recipient \in Shops, NEW amount \in Amounts,
             Draft(note, recipient, amount)
      PROVE  SvmInv'
  BY <1>2, DraftKeeps
<1>3. ASSUME NEW draft \in drafts, Register(draft) \/ RefuseDraft(draft) PROVE SvmInv'
  BY <1>3, RegisterKeeps, RefuseKeeps
<1>4. ASSUME NEW i \in DOMAIN requests,
             \/ Resend(i) \/ ReceiveReply(i) \/ LoseReply(i) \/ StoreFails(i)
             \/ Verify(i) \/ Settle(i) \/ Land(i) \/ Expire(i) \/ Confirm(i) \/ RelayThrows(i)
      PROVE  SvmInv'
  <2>1. CASE Resend(i)
    BY <2>1, ResendKeeps
  <2>2. CASE ReceiveReply(i) \/ LoseReply(i)
    BY <2>2, ReplyKeeps
  <2>3. CASE StoreFails(i)
    BY <2>3, StoreFailsKeeps
  <2>4. CASE Verify(i) \/ Settle(i) \/ Expire(i) \/ Confirm(i) \/ RelayThrows(i)
    BY <2>4, VerifyAdvances, SettleAdvances, ExpireAdvances, RelayEnds, FacilitatorKeeps
  <2>5. CASE Land(i)
    BY <2>5, LandKeeps
  <2> QED
    BY <1>4, <2>1, <2>2, <2>3, <2>4, <2>5
<1>5. ASSUME NEW n \in DOMAIN preparedByNullifier, ReconcilePayment(n) PROVE SvmInv'
  BY <1>5, ReconcileKeeps
<1>6. CASE ClientRestart
  BY <1>6, RestartKeeps
<1>7. CASE FacilitatorCrash
  BY <1>7, CrashAdvances, FacilitatorKeeps
<1>8. ASSUME NEW note \in Leaves, NEW order \in Orders, NEW amount \in Amounts, NEW bps \in RelayFees,
             Hand(note, order, amount, bps)
      PROVE  SvmInv'
  BY <1>8, HandKeeps
<1>9. ASSUME NEW payment \in handed,
             RelayHanded(payment) \/ \E order \in Orders : FulfillHanded(order, payment)
      PROVE  SvmInv'
  BY <1>9, RelayHandedKeeps, FulfillKeeps
<1>10. CASE Govern
  BY <1>10, GovernKeeps
<1>11. CASE UNCHANGED svmVars
  BY <1>11, SvmStutters
<1> QED
  BY <1>1, <1>2, <1>3, <1>4, <1>5, <1>6, <1>7, <1>8, <1>9, <1>10, <1>11 DEF SvmNext

(* The inductive invariant holds: what the pool's records, the requests under *)
(* way and the books of the buyer say of each other.                           *)
THEOREM SvmInvariance == SvmSpec => []SvmInv
BY SvmStart, SvmStep, PTL DEF SvmSpec

(* Programs, books, map and requests keep their types, and the bounds on what *)
(* the model counts are kept.                                                  *)
THEOREM SvmTypes == SvmSpec => []SvmTypeOK
<1>1. SvmInv => SvmTypeOK
  BY DEF SvmInv
<1> QED
  BY <1>1, SvmInvariance, PTL

(* createPaymentPayload, onPaymentResponse and reconcilePayment lose no note:  *)
(* whatever answers are lost, stores fail or processes restart, a live note of *)
(* a deposit the buyer knows is in its books as spendable, locked or pending.  *)
THEOREM MoneyIsNotLost == SvmSpec => []NothingLost
<1>1. SvmInv => NothingLost
  <2> SUFFICES ASSUME SvmInv, NEW note \in Leaves, Live(note), note.value > 0,
                      \E known \in DOMAIN books : known.label = note.label
               PROVE  note \in DOMAIN books /\ books[note] \in {"spendable", "locked", "pending"}
    BY DEF NothingLost
  <2>1. note \in DOMAIN books /\ books[note] # "discarded"
    BY DEF SvmInv, BooksInv, LeavesKept, Known
  <2>2. books[note] # "spent"
    BY <2>1 DEF SvmInv, BooksInv, NotesFit, NoteOK, Live
  <2>3. books[note] \in Status
    BY <2>1 DEF SvmInv, SvmTypeOK
  <2> QED
    BY <2>1, <2>2, <2>3 DEF Status
<1> QED
  BY <1>1, SvmInvariance, PTL

(* A note that onRejected, onSettled or a deposit made spendable has not been  *)
(* spent, and no transaction or request under way may spend it.                *)
THEOREM SpendableNotesAreSafe == SvmSpec => []SpendableIsSafe
<1>1. SvmInv => SpendableIsSafe
  BY DEF SvmInv, BooksInv, NotesFit, NoteOK, SpendableIsSafe
<1> QED
  BY <1>1, SvmInvariance, PTL

(* settle answers a payment as settled, and fulfill_private_payment marks an   *)
(* order fulfilled, only when the withdrawal that pays it has landed; no two   *)
(* orders are paid by one withdrawal.                                          *)
THEOREM DeliveriesArePaid == SvmSpec => []DeliveredIsPaid
<1>1. SvmInv => DeliveredIsPaid
  <2> SUFFICES ASSUME SvmInv PROVE DeliveredIsPaid
    OBVIOUS
  <2>1. ASSUME NEW i \in DOMAIN requests, requests[i].pc = "settled" PROVE Paid(requests[i].payment)
    BY <2>1 DEF SvmInv, RequestsAreSound, RequestsOK, RequestOK
  <2>2. ASSUME NEW order \in Orders, intents[order].fulfilled
        PROVE  /\ tokens[order] >= intents[order].expectedAmount
               /\ \E j \in DOMAIN events :
                    /\ events[j].nullifier = intents[order].nullifier
                    /\ events[j].recipient = order
                    /\ events[j].value = intents[order].expectedAmount
    BY <2>2 DEF SvmInv, OrdersOK, OrderOK
  <2>3. \A order, other \in Orders :
          intents[order].fulfilled /\ intents[other].fulfilled /\ order # other
          => intents[order].nullifier # intents[other].nullifier
    BY DEF SvmInv, OrdersOK
  <2> QED
    BY <2>1, <2>2, <2>3 DEF DeliveredIsPaid, Paid
<1> QED
  BY <1>1, SvmInvariance, PTL

-----------------------------------------------------------------------------
(* The ledger of notes *)

(* The credit of a label is what its one live note is worth. *)
LEMMA LiveNoteIsCredit ==
  ASSUME TreeInv, NEW m \in Leaves, Live(m)
  PROVE  m.label \in DOMAIN Credit /\ Credit[m.label] = m.value
<1>1. LiveNotes(m.label) = {m}
  BY DEF TreeInv, LeavesOK, LiveNotes
<1>2. Worth({m}) = m.value
  BY DEF Worth
<1>3. m.label \in DOMAIN depositRecords
  BY NotesAre
<1> QED
  BY <1>1, <1>2, <1>3 DEF Credit

(* Credits are amounts. *)
LEMMA CreditIsNat ==
  ASSUME SvmInv
  PROVE  /\ DOMAIN Credit = DOMAIN depositRecords
         /\ \A label \in DOMAIN depositRecords : Credit[label] \in Nat
         /\ Credit = [label \in DOMAIN depositRecords |-> Credit[label]]
<1>1. ASSUME NEW label \in DOMAIN depositRecords PROVE Credit[label] \in Nat
  <2>1. Credit[label] = Worth(LiveNotes(label))
    BY DEF Credit
  <2>2. CASE LiveNotes(label) = {}
    BY <2>1, <2>2 DEF Worth
  <2>3. CASE LiveNotes(label) # {}
    <3>1. PICK m \in Leaves : m.label = label /\ Live(m)
      BY <2>3 DEF LiveNotes
    <3>2. m.value \in Nat
      BY NotesAre DEF SvmInv, Note
    <3> QED
      BY <3>1, <3>2, LiveNoteIsCredit DEF SvmInv
  <2> QED
    BY <2>2, <2>3
<1> QED
  BY <1>1 DEF Credit

(* The empty pool is the empty ledger. *)
LEMMA SvmLedgerInit == ASSUME SvmInit PROVE Ledger!Init
<1>1. /\ depositRecords = << >> /\ retained = 0 /\ pool.aspRoot = {}
      /\ tokens = [account \in Accounts |-> IF account \in Users THEN Funds ELSE 0]
  BY DEF SvmInit, PoolInit
<1>2. Credit = << >>
  <2>1. DOMAIN depositRecords = {}
    BY <1>1
  <2> QED
    BY <2>1 DEF Credit
<1>3. Cash[Vault] = 0
  <2>1. Vault \in Accounts /\ Vault \notin Users
    BY AccountsAssumption DEF Accounts
  <2>2. tokens[Vault] = 0
    BY <1>1, <2>1
  <2> QED
    BY <1>1, <2>1, <2>2 DEF Cash
<1> QED
  BY <1>1, <1>2, <1>3 DEF Ledger!Init

(* No deposit or withdrawal lands. *)
LEMMA LedgerRests ==
  ASSUME UNCHANGED <<depositRecords, nullifierRecords, events, tokens, retained>>
  PROVE  UNCHANGED <<depositRecords, Credit, Cash>>
<1>1. Leaves' = Leaves
  BY DEF Leaves
<1>2. \A label : LiveNotes(label)' = LiveNotes(label)
  BY <1>1 DEF LiveNotes, Live
<1>3. Credit' = Credit
  BY <1>2 DEF Credit
<1> QED
  BY <1>3 DEF Cash

(* A deposit opens a line of credit. *)
LEMMA DepositOpensLine ==
  ASSUME SvmInv, NEW user \in Users, DepositStep(user)
  PROVE  Ledger!Open
<1>1. /\ made < MaxNotes /\ Deposit(user, DepositAmount, made + 1) /\ made' = made + 1
      /\ PoolTypeOK /\ made \in 0 .. MaxNotes /\ TreeInv /\ TreeInv' /\ SvmInv'
  BY DepositKeeps DEF DepositStep, SvmInv, SvmTypeOK
<1>2. PICK note \in Note :
           /\ note.id = made + 1 /\ note.label = Len(depositRecords) + 1
           /\ note.value <= DepositAmount
           /\ Leaves' = Leaves \cup {note}
           /\ depositRecords' = Append(depositRecords, user)
           /\ DOMAIN depositRecords' = DOMAIN depositRecords \cup {note.label}
           /\ note.label \notin DOMAIN depositRecords
           /\ tokens[user] >= DepositAmount
           /\ tokens' = [tokens EXCEPT ![user] = @ - DepositAmount, ![Vault] = @ + DepositAmount]
           /\ retained' = retained + DepositAmount - note.value
           /\ pool'.aspRoot = pool.aspRoot
           /\ nullifierRecords' = nullifierRecords
  BY <1>1, DepositDoes
<1>3. PICK d \in Nat, v \in Nat, r \in Nat : d = DepositAmount /\ v = note.value /\ r = retained /\ v <= d
  BY <1>1, <1>2, AmountsAssumption DEF PoolTypeOK, Note
<1>4. /\ tokens \in [Accounts -> Nat] /\ user \in Accounts /\ Vault \in Accounts /\ user # Vault
      /\ DOMAIN Cash = Accounts
  BY <1>1, AccountsAssumption DEF PoolTypeOK, Accounts, Cash
<1>5. PICK u \in Nat, w \in Nat : u = tokens[user] /\ w = tokens[Vault] /\ u >= d
  BY <1>2, <1>3, <1>4
<1>6. /\ Cash[user] = u /\ Cash[Vault] = w - r
      /\ Cash'[user] = u - d /\ Cash'[Vault] = (w + d) - (r + d - v)
  <2>1. tokens' = [tokens EXCEPT ![user] = u - d, ![Vault] = w + d] /\ retained' = r + d - v
    BY <1>2, <1>3, <1>4, <1>5
  <2>2. tokens'[user] = u - d /\ tokens'[Vault] = w + d /\ DOMAIN tokens' = Accounts
    BY <2>1, <1>4
  <2>3. Cash' = [tokens' EXCEPT ![Vault] = tokens'[Vault] - retained']
    BY DEF Cash
  <2>4. Cash'[user] = u - d /\ Cash'[Vault] = (w + d) - (r + d - v)
    BY <2>1, <2>2, <2>3, <1>4
  <2>5. Cash[user] = u /\ Cash[Vault] = w - r
    BY <1>3, <1>4, <1>5 DEF Cash
  <2> QED
    BY <2>4, <2>5
<1>7. v \in 0 .. Cash[user] /\ Cash'[Vault] = Cash[Vault] + v /\ Cash'[user] <= Cash[user] - v
  <2>1. v \in 0 .. u /\ (w + d) - (r + d - v) = (w - r) + v /\ u - d <= u - v
    BY <1>3, <1>5
  <2> QED
    BY <1>6, <2>1
<1>8. \A label \in DOMAIN depositRecords : Credit'[label] = Credit[label]
  <2> SUFFICES ASSUME NEW label \in DOMAIN depositRecords PROVE Credit'[label] = Credit[label]
    OBVIOUS
  <2>1. label # note.label
    BY <1>2
  <2>2. LiveNotes(label)' = LiveNotes(label)
    BY <2>1, <1>2 DEF LiveNotes, Live
  <2> QED
    BY <2>2, <1>2 DEF Credit
<1>9. Credit'[note.label] = v
  <2>1. note.id \notin nullifierRecords
    <3>1. PICK n \in Nat : n = made
      BY <1>1, MaxAssumption
    <3>2. \A k \in nullifierRecords : k \in 1 .. MaxNotes /\ k <= n
      BY <1>1, <3>1, NotesAre
    <3> QED
      BY <3>1, <3>2, <1>2
  <2>2. note \in Leaves' /\ Live(note)'
    BY <2>1, <1>2 DEF Live
  <2>3. LiveNotes(note.label)' = {note}
    BY <2>2, <1>1 DEF TreeInv, LeavesOK, LiveNotes
  <2>4. Worth({note}) = note.value
    BY DEF Worth
  <2> QED
    BY <2>3, <2>4, <1>2, <1>3 DEF Credit
<1>10. Credit' = Append(Credit, v)
  <2>1. PICK n \in Nat : n = Len(depositRecords) /\ DOMAIN depositRecords = 1 .. n
    BY <1>1, DepositsShape
  <2>2. /\ DOMAIN Credit = 1 .. n /\ Credit = [label \in 1 .. n |-> Credit[label]]
        /\ \A label \in 1 .. n : Credit[label] \in Nat
    BY <2>1, CreditIsNat
  <2>3. Credit \in Seq(Nat) /\ Len(Credit) = n
    BY <2>2, SeqDef, LenProperties
  <2>4. PICK s : s = Append(Credit, v)
    OBVIOUS
  <2>5. /\ s \in Seq(Nat) /\ Len(s) = n + 1 /\ s[n + 1] = v
        /\ \A label \in 1 .. n : s[label] = Credit[label]
    BY <2>3, <2>4, AppendProperties
  <2>6. DOMAIN s = 1 .. n + 1 /\ s = [label \in 1 .. n + 1 |-> s[label]]
    BY <2>5, LenProperties
  <2>7. DOMAIN depositRecords' = 1 .. n + 1
    BY <2>1, <1>2
  <2>8. Credit' = [label \in 1 .. n + 1 |-> Credit'[label]]
    BY <2>7 DEF Credit
  <2>9. \A label \in 1 .. n + 1 : Credit'[label] = s[label]
    BY <2>1, <2>5, <1>2, <1>8, <1>9
  <2> QED
    BY <2>4, <2>6, <2>8, <2>9
<1>11. user \in DOMAIN Cash \ {Vault}
  BY <1>4
<1> QED
  BY <1>2, <1>7, <1>10, <1>11 DEF Ledger!Open

(* A withdrawal draws on one. *)
LEMMA RelayDraws ==
  ASSUME SvmInv, NEW payment \in Payments, RelayWithdrawal(payment), made' = made, TreeInv',
         intents' \in [Orders -> [expectedAmount : Nat, fulfilled : BOOLEAN, nullifier : 0 .. MaxNotes]]
  PROVE  \E label \in DOMAIN Credit : Ledger!Draw(label)
<1>1. /\ PoolTypeOK /\ made \in 0 .. MaxNotes /\ TreeInv /\ NotesOK /\ LeavesOK /\ PaymentsOK
  BY DEF SvmInv, SvmTypeOK, TreeInv
<1>2. /\ payment.nullifier \notin nullifierRecords
      /\ nullifierRecords' = nullifierRecords \cup {payment.nullifier}
      /\ payment.aspRoot = pool.aspRoot /\ pool'.aspRoot = pool.aspRoot
      /\ Leaves' = Leaves \cup {payment.change}
      /\ tokens'[Vault] = tokens[Vault] - payment.amount
      /\ depositRecords' = depositRecords /\ retained' = retained
      /\ PoolTypeOK'
  BY <1>1, RelayDoes
<1>3. PICK spent \in Leaves : Spends(payment, spent)
  BY <1>1 DEF PaymentsOK, PaymentOK
<1>4. PICK label : label = payment.change.label
  OBVIOUS
<1>5. /\ pool.aspRoot = {label} /\ spent.id = payment.nullifier /\ spent.label = label
      /\ spent.value = payment.amount + payment.change.value
      /\ payment.amount \in Nat /\ payment.change.value \in Nat /\ label \in DOMAIN depositRecords
  BY <1>1, <1>2, <1>3, <1>4, NotesAre DEF PaymentsOK, PaymentOK, Spends, Note
<1>6. Live(spent)
  BY <1>2, <1>5 DEF Live
<1>7. Credit[label] = spent.value
  BY <1>1, <1>5, <1>6, LiveNoteIsCredit
<1>8. Credit'[label] = payment.change.value
  <2>1. /\ payment.change.id \notin nullifierRecords /\ payment.change.id # payment.nullifier
    BY <1>1, <1>2, FreshChange
  <2>2. payment.change \in Leaves' /\ Live(payment.change)'
    BY <2>1, <1>2 DEF Live
  <2>3. LiveNotes(label)' = {payment.change}
    BY <2>2, <1>4 DEF TreeInv, LeavesOK, LiveNotes
  <2>4. Worth({payment.change}) = payment.change.value
    BY DEF Worth
  <2> QED
    BY <2>3, <2>4, <1>2, <1>5 DEF Credit
<1>9. ASSUME NEW other \in DOMAIN depositRecords, other # label PROVE Credit'[other] = Credit[other]
  <2>1. \A m \in Leaves : m.label = other => m.id # payment.nullifier
    BY <1>1, <1>5, <1>9 DEF NotesOK, Notes
  <2>2. LiveNotes(other)' = LiveNotes(other)
    BY <2>1, <1>2, <1>4, <1>9 DEF LiveNotes, Live
  <2> QED
    BY <2>2, <1>2 DEF Credit
<1>10. Credit' = [Credit EXCEPT ![label] = Credit[label] - payment.amount]
  <2>1. /\ DOMAIN Credit = DOMAIN depositRecords
        /\ Credit = [k \in DOMAIN depositRecords |-> Credit[k]]
    BY CreditIsNat
  <2>2. Credit' = [k \in DOMAIN depositRecords |-> Credit'[k]]
    BY <1>2 DEF Credit
  <2>3. Credit'[label] = Credit[label] - payment.amount
    BY <1>5, <1>7, <1>8
  <2>4. \A k \in DOMAIN depositRecords : Credit'[k] = IF k = label THEN Credit[label] - payment.amount ELSE Credit[k]
    BY <2>3, <1>9
  <2> QED
    BY <2>1, <2>2, <2>4
<1>11. payment.amount \in 0 .. Credit[label]
  BY <1>5, <1>7
<1>12. Cash'[Vault] >= Cash[Vault] - payment.amount
  <2>1. Vault \in Accounts /\ tokens \in [Accounts -> Nat] /\ tokens' \in [Accounts -> Nat] /\ retained \in Nat
    BY <1>1, <1>2 DEF PoolTypeOK, Accounts
  <2>2. Cash[Vault] = tokens[Vault] - retained
    BY <2>1 DEF Cash
  <2>3. Cash'[Vault] = tokens'[Vault] - retained
    BY <2>1, <1>2 DEF Cash
  <2>4. tokens[Vault] \in Nat
    BY <2>1
  <2> QED
    BY <2>1, <2>2, <2>3, <2>4, <1>2, <1>5
<1>13. label \in DOMAIN Credit
  BY <1>5 DEF Credit
<1>14. Ledger!Draw(label)
  BY <1>2, <1>5, <1>10, <1>11, <1>12 DEF Ledger!Draw
<1> QED
  BY <1>13, <1>14

(* Every step of the payments is a step of the ledger. *)
LEMMA SvmLedgerStep ==
  ASSUME SvmInv, [SvmNext]_svmVars
  PROVE  [Ledger!Next]_(Ledger!ledgerVars)
<1>1. ASSUME UNCHANGED <<depositRecords, nullifierRecords, events, tokens, retained>>, pool'.aspRoot = pool.aspRoot
      PROVE  UNCHANGED Ledger!ledgerVars
  BY <1>1, LedgerRests DEF Ledger!ledgerVars
<1>2. ASSUME UNCHANGED poolVars PROVE UNCHANGED Ledger!ledgerVars
  <2>1. UNCHANGED <<depositRecords, nullifierRecords, events, tokens, retained>> /\ pool'.aspRoot = pool.aspRoot
    BY <1>2 DEF poolVars
  <2> QED
    BY <2>1, <1>1
<1>3. CASE BuyerDeposit \/ BuyerDepositLost \/ OtherDeposit
  <2>1. \E user \in Users : DepositStep(user)
    <3>1. faults \in 0 .. MaxFaults /\ Buyer \in Users /\ Other \in Users
      BY UsersAssumption DEF SvmInv, SvmTypeOK
    <3>2. CASE BuyerDeposit
      BY <3>1, <3>2 DEF BuyerDeposit, DepositStep
    <3>3. CASE BuyerDepositLost
      BY <3>1, <3>3, FaultCounts DEF BuyerDepositLost, DepositStep, clientVars
    <3>4. CASE OtherDeposit
      BY <3>1, <3>4 DEF OtherDeposit, DepositStep, clientVars
    <3> QED
      BY <1>3, <3>2, <3>3, <3>4
  <2>2. Ledger!Open
    BY <2>1, DepositOpensLine
  <2> QED
    BY <2>2 DEF Ledger!Next
<1>4. ASSUME NEW payment \in Payments, RelayWithdrawal(payment), made' = made,
             intents' = intents \/ \E order \in Orders : FulfillHanded(order, payment)
      PROVE  Ledger!Next
  <2>1. intents' \in [Orders -> [expectedAmount : Nat, fulfilled : BOOLEAN, nullifier : 0 .. MaxNotes]]
    BY SvmStep DEF SvmInv, SvmTypeOK, PoolTypeOK
  <2>2. TreeInv'
    BY SvmStep DEF SvmInv
  <2>3. \E label \in DOMAIN Credit : Ledger!Draw(label)
    BY <1>4, <2>1, <2>2, RelayDraws
  <2> QED
    BY <2>3 DEF Ledger!Next
<1>5. ASSUME NEW i \in DOMAIN requests, Land(i) PROVE Ledger!Next
  <2>1. requests[i].payment \in Payments
    BY DEF Payments
  <2>2. RelayWithdrawal(requests[i].payment) /\ made' = made /\ intents' = intents
    BY <1>5 DEF Land
  <2> QED
    BY <2>1, <2>2, <1>4
<1>6. ASSUME NEW payment \in handed,
             RelayHanded(payment) \/ \E order \in Orders : FulfillHanded(order, payment)
      PROVE  Ledger!Next
  <2>1. payment \in Payments
    BY DEF Payments
  <2>2. /\ RelayWithdrawal(payment) /\ made' = made
        /\ intents' = intents \/ \E order \in Orders : FulfillHanded(order, payment)
    BY <1>6 DEF RelayHanded, FulfillHanded, FulfillPrivatePayment
  <2> QED
    BY <2>1, <2>2, <1>4
<1>7. CASE Govern
  <2>1. UNCHANGED <<depositRecords, nullifierRecords, events, tokens, retained>>
    BY <1>7 DEF Govern, UpdateAspRoot, SetPaused, CreatePaymentIntent
  <2>2. UNCHANGED <<depositRecords, Credit, Cash>>
    BY <2>1, LedgerRests
  <2>3. pool'.aspRoot \subseteq DOMAIN depositRecords
    BY <2>1, SvmStep DEF SvmInv, SvmTypeOK, PoolTypeOK
  <2>4. Ledger!Approve
    BY <2>2, <2>3 DEF Ledger!Approve
  <2> QED
    BY <2>4 DEF Ledger!Next
<1>8. ASSUME \/ \E note \in DOMAIN books, recipient \in Shops, amount \in Amounts : Draft(note, recipient, amount)
             \/ \E draft \in drafts : Register(draft) \/ RefuseDraft(draft)
             \/ \E i \in DOMAIN requests :
                  \/ Resend(i) \/ ReceiveReply(i) \/ LoseReply(i) \/ StoreFails(i)
                  \/ Verify(i) \/ Settle(i) \/ Expire(i) \/ Confirm(i) \/ RelayThrows(i)
             \/ \E n \in DOMAIN preparedByNullifier : ReconcilePayment(n)
             \/ ClientRestart \/ FacilitatorCrash
             \/ \E note \in Leaves, order \in Orders, amount \in Amounts, bps \in RelayFees :
                  Hand(note, order, amount, bps)
             \/ UNCHANGED svmVars
      PROVE  UNCHANGED poolVars
  BY <1>8 DEF Draft, Register, RefuseDraft, Resend, ReceiveReply, LoseReply, StoreFails, Hear, Verify, Settle,
              Expire, Confirm, RelayThrows, ReconcilePayment, ClientRestart, FacilitatorCrash, Hand, svmVars
<1> QED
  BY <1>2, <1>3, <1>5, <1>6, <1>7, <1>8 DEF SvmNext

(* The Solana pool implements the ledger of notes. *)
THEOREM SvmImplementsLedger == SvmSpec => LedgerSpec
<1>1. SvmInit => Ledger!Init
  BY SvmLedgerInit
<1>2. SvmInv /\ [SvmNext]_svmVars => [Ledger!Next]_(Ledger!ledgerVars)
  BY SvmLedgerStep
<1> QED
  BY <1>1, <1>2, SvmInvariance, PTL DEF SvmSpec, LedgerSpec, Ledger!Spec
=============================================================================
