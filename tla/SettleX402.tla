------------------------------ MODULE SettleX402 ------------------------------
(***************************************************************************)
(* One private x402 payment from one note: the buyer's client              *)
(* (settlePrivatelyX402 and payAndFetch of packages/core), the route       *)
(* POST /api/facilitator/settle-x402 it retries, the Redis settlement      *)
(* store behind the route, the withdrawal the route asks for and the chain *)
(* it may or may not land on.                                              *)
(*                                                                         *)
(* Every attempt of the client starts one run of the route, a "post",      *)
(* which goes on when the client has stopped waiting for it, as the run of *)
(* /api/withdraw it asks for goes on when the post has ended.  A payment   *)
(* header is named by the seller it pays: the payer account is derived     *)
(* from the note and the seller, and only the payer the withdrawal went to *)
(* holds money.  A call of the store or of another route may fail before   *)
(* or after it took effect.                                                *)
(***************************************************************************)
EXTENDS Naturals, Sequences

CONSTANTS
  Seller,      \* whom the buyer may want to pay
  Nobody,      \* no header
  Attempts,    \* posts per call, 4 in the code (backoffs)
  MaxCalls,    \* bound: payments the buyer asks for
  MaxExpiries  \* bound: keys of the store that outlive their TTL

ASSUME SellerAssumption == Nobody \notin Seller
ASSUME AttemptsAssumption == Attempts \in Nat \ {0}
ASSUME BoundsAssumption == MaxCalls \in Nat /\ MaxExpiries \in Nat

VARIABLES
  storeOn,   \* Redis is configured
  lock,      \* the lease on the note: the post that holds it, or 0
  record,    \* the settled record: the header it stores, or Nobody
  expiries,  \* TTLs run out so far
  lapsed,    \* history: the posts whose lease ran out
  asked,     \* posts whose run of /api/withdraw has not broadcast yet
  mempool,   \* posts whose withdrawal was broadcast and is neither mined nor dropped
  spentBy,   \* the post whose withdrawal spent the note, or 0
  posts,     \* the runs of the route, in the order they started
  client     \* the buyer

storeVars == <<storeOn, lock, record, expiries, lapsed>>
chainVars == <<asked, mempool, spentBy>>
vars == <<storeVars, chainVars, posts, client>>

(* Where a post is: it has arrived; it has seen no record; it has seen no lock; *)
(* it has not seen the note spent; the withdrawal is asked for; it is broadcast;*)
(* it was refused; it succeeded; the post has ended.                            *)
PC == {"arrived", "noRecord", "noLock", "unspent", "dispatched", "sent", "rejected", "paid", "ended"}

(* "refused" is settled:false with nothing else; "busy" is settling:true;       *)
(* "lost" is no answer at all.                                                  *)
Kind == {"none", "settled", "refused", "busy", "uncertain", "lost"}

Outcome == {"none", "settled", "unspent", "uncertain"}

Post == [payTo : Seller, pc : PC, answer : Kind, header : Seller \cup {Nobody}]

Client == [calls : 0 .. MaxCalls, attempts : 0 .. Attempts, awaiting : Nat, active : BOOLEAN,
           payTo : Seller \cup {Nobody}, outcome : Outcome, header : Seller \cup {Nobody}]

TypeOK ==
  /\ storeOn \in BOOLEAN
  /\ lock \in 0 .. Len(posts)
  /\ record \in Seller \cup {Nobody}
  /\ expiries \in Nat
  /\ lapsed \subseteq DOMAIN posts
  /\ asked \cup mempool \subseteq DOMAIN posts
  /\ spentBy \in 0 .. Len(posts)
  /\ posts \in Seq(Post)
  /\ client \in Client /\ client.awaiting \in 0 .. Len(posts)

Init ==
  /\ storeOn \in BOOLEAN
  /\ lock = 0
  /\ record = Nobody
  /\ expiries = 0
  /\ lapsed = {}
  /\ asked = {} /\ mempool = {}
  /\ spentBy = 0
  /\ posts = << >>
  /\ client = [calls |-> 0, attempts |-> 0, awaiting |-> 0, active |-> FALSE,
               payTo |-> Nobody, outcome |-> "none", header |-> Nobody]

-----------------------------------------------------------------------------
(* The buyer *)

(* payAndFetch: a note told to be unspent may pay anybody; an uncertain payment *)
(* is retried as it was; a settled one is over.                                 *)
Call(seller) ==
  /\ ~client.active
  /\ client.calls < MaxCalls
  /\ client.outcome # "settled"
  /\ client.outcome = "uncertain" => seller = client.payTo
  /\ client' = [calls |-> client.calls + 1, attempts |-> 0, awaiting |-> 0, active |-> TRUE,
                payTo |-> seller, outcome |-> "none", header |-> Nobody]
  /\ UNCHANGED <<storeVars, chainVars, posts>>

Attempt ==
  /\ client.active /\ client.awaiting = 0
  /\ client.attempts < Attempts
  /\ posts' = Append(posts, [payTo |-> client.payTo, pc |-> "arrived", answer |-> "none",
                             header |-> Nobody])
  /\ client' = [client EXCEPT !.attempts = @ + 1, !.awaiting = Len(posts) + 1]
  /\ UNCHANGED <<storeVars, chainVars>>

End(outcome, header) ==
  client' = [client EXCEPT !.active = FALSE, !.awaiting = 0, !.outcome = outcome, !.header = header]

(* An answer ends the call, unless it is a 409 or uncertain. *)
Receive ==
  /\ client.awaiting # 0
  /\ LET post == posts[client.awaiting]
     IN \/ post.answer = "settled" /\ End("settled", post.header)
        \/ post.answer = "refused" /\ End("unspent", Nobody)
        \/ post.answer \in {"busy", "uncertain"} /\ client' = [client EXCEPT !.awaiting = 0]
  /\ UNCHANGED <<storeVars, chainVars, posts>>

(* The request or its answer is lost, or the answer cannot be parsed. *)
LoseAnswer ==
  /\ client.awaiting # 0
  /\ client' = [client EXCEPT !.awaiting = 0]
  /\ UNCHANGED <<storeVars, chainVars, posts>>

GiveUp ==
  /\ client.active /\ client.awaiting = 0
  /\ client.attempts = Attempts
  /\ End("uncertain", Nobody)
  /\ UNCHANGED <<storeVars, chainVars, posts>>

-----------------------------------------------------------------------------
(* The route *)

At(p, pc) == p \in DOMAIN posts /\ posts[p].pc = pc

Goto(p, pc) == posts' = [posts EXCEPT ![p].pc = pc]

Answer(p, kind, header) ==
  posts' = [posts EXCEPT ![p].pc = "ended", ![p].answer = kind, ![p].header = header]

(* Readiness, validation, rate limit and header building, all before the store. *)
Refuse(p) ==
  /\ At(p, "arrived")
  /\ Answer(p, "refused", Nobody)
  /\ UNCHANGED <<storeVars, chainVars, client>>

(* getSettlement reads the record, then the lock; a read that throws is answered *)
(* like any error before the withdrawal, with a bare settled:false.              *)
GetRecord(p) ==
  /\ At(p, "arrived")
  /\ \/ storeOn /\ record # Nobody /\ Answer(p, "settled", record)
     \/ (~storeOn \/ record = Nobody) /\ Goto(p, "noRecord")
     \/ storeOn /\ Answer(p, "refused", Nobody)
  /\ UNCHANGED <<storeVars, chainVars, client>>

GetLock(p) ==
  /\ At(p, "noRecord")
  /\ \/ storeOn /\ lock # 0 /\ Answer(p, "busy", Nobody)
     \/ (~storeOn \/ lock = 0) /\ Goto(p, "noLock")
     \/ storeOn /\ Answer(p, "refused", Nobody)
  /\ UNCHANGED <<storeVars, chainVars, client>>

(* Fault: a note found spent is answered with a header signed afresh. *)
CheckChainFabricates(p) ==
  /\ At(p, "noLock")
  /\ \/ spentBy # 0 /\ Answer(p, "settled", posts[p].payTo)
     \/ Goto(p, "unspent")
  /\ UNCHANGED <<storeVars, chainVars, client>>

(* nullifierSpentOnChain; when the read fails the route carries on. *)
CheckChain(p) ==
  /\ At(p, "noLock")
  /\ \/ spentBy # 0 /\ Answer(p, "uncertain", Nobody)
     \/ Goto(p, "unspent")
  /\ UNCHANGED <<storeVars, chainVars, client>>

(* From here on the withdrawal runs on its own. *)
Dispatch(p) == Goto(p, "dispatched") /\ asked' = asked \cup {p}

(* reserveSettlement looks at the lock alone.  When the store answers with an *)
(* error the lock may have been taken all the same.                           *)
Reserve(p) ==
  /\ At(p, "unspent")
  /\ \/ ~storeOn /\ Dispatch(p) /\ UNCHANGED lock
     \/ storeOn /\ lock = 0 /\ Dispatch(p) /\ lock' = p
     \/ storeOn /\ lock # 0 /\ Answer(p, "busy", Nobody) /\ UNCHANGED <<lock, asked>>
     \/ /\ storeOn /\ lock' \in {lock, IF lock = 0 THEN p ELSE lock}
        /\ Answer(p, "refused", Nobody) /\ UNCHANGED asked
  /\ UNCHANGED <<storeOn, record, expiries, lapsed, mempool, spentBy, client>>

(* /api/withdraw answers 400 or 503: nothing was broadcast. *)
WithdrawRejected(p) ==
  /\ At(p, "dispatched") /\ p \in asked
  /\ Goto(p, "rejected")
  /\ asked' = asked \ {p}
  /\ UNCHANGED <<storeVars, mempool, spentBy, client>>

(* It broadcasts the relay transaction, whether the post still waits or not. *)
WithdrawBroadcast(p) ==
  /\ p \in asked
  /\ IF At(p, "dispatched") THEN Goto(p, "sent") ELSE UNCHANGED posts
  /\ asked' = asked \ {p}
  /\ mempool' = mempool \cup {p}
  /\ UNCHANGED <<storeVars, spentBy, client>>

(* It ends without a broadcast: an error, a reply that is lost, a crash. *)
WithdrawDies(p) ==
  /\ p \in asked
  /\ asked' = asked \ {p}
  /\ UNCHANGED <<storeVars, mempool, spentBy, posts, client>>

(* Fault: every failure of the withdrawal reads as nothing spent. *)
WithdrawFailedBare(p) ==
  /\ At(p, "dispatched") \/ At(p, "sent")
  /\ Answer(p, "refused", Nobody)
  /\ UNCHANGED <<storeVars, chainVars, client>>

(* It fails with any other status, or its answer does not arrive: the lease is *)
(* kept and the answer is uncertain.                                           *)
WithdrawFailed(p) ==
  /\ At(p, "dispatched") \/ At(p, "sent")
  /\ Answer(p, "uncertain", Nobody)
  /\ UNCHANGED <<storeVars, chainVars, client>>

(* Fault: the status in the receipt is not looked at. *)
WithdrawSucceededUnread(p) ==
  /\ At(p, "sent")
  /\ p \notin mempool
  /\ Goto(p, "paid")
  /\ UNCHANGED <<storeVars, chainVars, client>>

(* It answers 200: the receipt says the transaction succeeded. *)
WithdrawSucceeded(p) ==
  /\ At(p, "sent")
  /\ spentBy = p
  /\ Goto(p, "paid")
  /\ UNCHANGED <<storeVars, chainVars, client>>

(* Fault: the lock deleted whoever holds it. *)
ReleaseAny(p) ==
  /\ At(p, "rejected")
  /\ \/ lock' = 0 /\ Answer(p, "refused", Nobody)
     \/ lock' = lock /\ Answer(p, "uncertain", Nobody)
  /\ UNCHANGED <<storeOn, record, expiries, lapsed, chainVars, client>>

(* releaseSettlement deletes the lock only while this post holds it; when the *)
(* store fails the answer is uncertain.                                       *)
Release(p) ==
  /\ At(p, "rejected")
  /\ \/ /\ lock' = IF storeOn /\ lock = p THEN 0 ELSE lock
        /\ Answer(p, "refused", Nobody)
     \/ /\ storeOn
        /\ lock' \in {lock, IF lock = p THEN 0 ELSE lock}
        /\ Answer(p, "uncertain", Nobody)
  /\ UNCHANGED <<storeOn, record, expiries, lapsed, chainVars, client>>

(* finalizeSettlement; a failing store is ignored. *)
Finalize(p) ==
  /\ At(p, "paid")
  /\ \/ storeOn /\ lock = p /\ lock' = 0 /\ record' = posts[p].payTo
     \/ storeOn /\ lock # p /\ record = Nobody /\ record' = posts[p].payTo /\ UNCHANGED lock
     \/ UNCHANGED <<lock, record>>
  /\ Answer(p, "settled", posts[p].payTo)
  /\ UNCHANGED <<storeOn, expiries, lapsed, chainVars, client>>

(* The platform ends the function: no answer, no clean-up. *)
Crash(p) ==
  /\ p \in DOMAIN posts /\ posts[p].pc # "ended"
  /\ Answer(p, "lost", Nobody)
  /\ UNCHANGED <<storeVars, chainVars, client>>

-----------------------------------------------------------------------------
(* The chain and the clock of the store *)

(* The pool accepts one withdrawal of the note; a later one reverts. *)
Mine(p) ==
  /\ p \in mempool
  /\ mempool' = mempool \ {p}
  /\ spentBy' = IF spentBy = 0 THEN p ELSE spentBy
  /\ UNCHANGED <<storeVars, asked, posts, client>>

(* It reverts for another reason, or is dropped. *)
Drop(p) ==
  /\ p \in mempool
  /\ mempool' = mempool \ {p}
  /\ UNCHANGED <<storeVars, asked, spentBy, posts, client>>

ExpireLock ==
  /\ lock # 0 /\ expiries < MaxExpiries
  /\ lock' = 0
  /\ lapsed' = lapsed \cup {lock}
  /\ expiries' = expiries + 1
  /\ UNCHANGED <<storeOn, record, chainVars, posts, client>>

ExpireRecord ==
  /\ record # Nobody /\ expiries < MaxExpiries
  /\ record' = Nobody
  /\ expiries' = expiries + 1
  /\ UNCHANGED <<storeOn, lock, lapsed, chainVars, posts, client>>

-----------------------------------------------------------------------------
RouteStep(p) ==
  \/ Refuse(p) \/ GetRecord(p) \/ GetLock(p) \/ CheckChain(p) \/ Reserve(p)
  \/ WithdrawRejected(p) \/ WithdrawBroadcast(p) \/ WithdrawDies(p)
  \/ WithdrawFailed(p) \/ WithdrawSucceeded(p)
  \/ Release(p) \/ Finalize(p) \/ Crash(p)

Next ==
  \/ \E seller \in Seller : Call(seller)
  \/ Attempt \/ Receive \/ LoseAnswer \/ GiveUp
  \/ \E p \in DOMAIN posts : RouteStep(p)
  \/ \E p \in mempool : Mine(p) \/ Drop(p)
  \/ ExpireLock \/ ExpireRecord

Spec == Init /\ [][Next]_vars

-----------------------------------------------------------------------------
(* Properties *)

(* A settled answer hands out a header whose payer the pool has really funded: *)
(* also when it is replayed, from a record written late or by a post that had  *)
(* lost its lease (POST step 3, FINALIZE_LUA).                                 *)
SettledIsFunded ==
  \A p \in DOMAIN posts : posts[p].answer = "settled" =>
    /\ spentBy # 0
    /\ posts[p].header = posts[spentBy].payTo

(* The stored record describes the withdrawal that spent the note, so no stale *)
(* worker ever replaces it by another header (finalizeSettlement).             *)
RecordIsTheSpend == record # Nobody => spentBy # 0 /\ record = posts[spentBy].payTo

(* A post that answers a bare settled:false has not spent the note and will    *)
(* not: nothing it started is still under way (POST, the 400 and 503 branch).  *)
BareRefusalDidNotSpend ==
  \A p \in DOMAIN posts : posts[p].answer = "refused" =>
    spentBy # p /\ p \notin asked \cup mempool

(* While a withdrawal may still land and its lease has not run out, the lease  *)
(* is in place, whoever crashed or answered uncertain: no second withdrawal of *)
(* the note is started (reserve, release and finalize by token).               *)
LeaseCoversDoubt ==
  \A p \in DOMAIN posts :
    storeOn /\ p \notin lapsed /\ spentBy # p
      /\ (p \in asked \cup mempool \/ posts[p].pc \in {"dispatched", "sent"})
    => lock = p

(* What the client documents of its answer: settled:false without uncertain is *)
(* proof that the note is unspent (SettleX402Result.uncertain).                *)
UnspentIsProven == client.outcome = "unspent" => spentBy = 0
=============================================================================
