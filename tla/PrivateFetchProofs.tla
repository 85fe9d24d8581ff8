-------------------------- MODULE PrivateFetchProofs --------------------------
(***************************************************************************)
(* Proofs about buyers and private sellers, for any sellers, purchases and *)
(* retries, and for buyers who wait for their answers and who do not.      *)
(*                                                                         *)
(* The argument.  A header exists only for a note that was spent, and the  *)
(* purchase that spent it never changes, so neither does the payee.  A     *)
(* run that was verified is one of the payee, one that was relayed has     *)
(* served, and a receipt that says success is of the only transfer that    *)
(* uses the authorization.  A buyer who waits has one purchase under way,  *)
(* with the note the pointer is at; the pointer moves on once that note    *)
(* is spent.                                                               *)
(***************************************************************************)
EXTENDS PrivateFetch, SequenceTheorems, TLAPS

(* A purchase sends a header only when there is one, and waits for a run of it. *)
BuysOK ==
  \A b \in DOMAIN buys :
    /\ buys[b].note <= b
    /\ buys[b].pc # "done" => buys[b].outcome = "none"
    /\ buys[b].pc \in {"settling", "send"} => buys[b].sends < Sends
    /\ buys[b].pc \in {"send", "waiting"} => fundedBy[buys[b].note] # 0
    /\ buys[b].pc = "waiting" =>
         /\ buys[b].run \in DOMAIN runs
         /\ runs[buys[b].run].note = buys[b].note /\ runs[buys[b].run].seller = buys[b].seller
    /\ buys[b].outcome = "delivered" => fundedBy[buys[b].note] # 0 /\ buys[b].run # 0

(* How far a run has come tells what its payment is. *)
RunsOK ==
  \A r \in DOMAIN runs :
    /\ fundedBy[runs[r].note] # 0
    /\ runs[r].pc \in {"verified", "handled", "relayed"} \/ r \in relays \/ runs[r].receipt = "success"
         => Payee(runs[r].note) = runs[r].seller
    /\ runs[r].pc \in {"handled", "relayed"} \/ r \in relays => runs[r].served
    /\ runs[r].receipt = "success" => usedBy[runs[r].note] = r
    /\ runs[r].pc \in {"arrived", "verified", "handled"} \/ r \in relays => runs[r].receipt = "none"
    /\ r \in relays => runs[r].pc \in {"relayed", "ended"}
    /\ runs[r].answer = "ok" => runs[r].receipt = "success"

RecordedOK == \A n \in recorded : fundedBy[n] # 0

(* A buyer who waits has one purchase under way, with the current note. *)
OrderOK ==
  /\ current <= Len(buys) + 1
  /\ ~overlap =>
       /\ \A b \in DOMAIN buys :
            buys[b].note <= current /\ (buys[b].pc # "done" => buys[b].note = current)
       /\ \A b, c \in DOMAIN buys : buys[b].pc # "done" /\ buys[c].pc # "done" => b = c

IInv ==
  /\ TypeOK
  /\ BuysOK
  /\ RunsOK
  /\ RecordedOK
  /\ OrderOK
  /\ DeliveredIsPaid
  /\ PointerIsFrontier
  /\ NotChargedForErrors

-----------------------------------------------------------------------------
LEMMA Domains ==
  ASSUME TypeOK
  PROVE  /\ Len(buys) \in Nat /\ DOMAIN buys = 1 .. Len(buys)
         /\ \A b \in DOMAIN buys : buys[b] \in Purchase
         /\ Len(runs) \in Nat /\ DOMAIN runs = 1 .. Len(runs)
         /\ \A r \in DOMAIN runs : runs[r] \in Run
         /\ MaxBuys \in Nat /\ Note = 1 .. MaxBuys + 1 /\ Sends \in Nat \ {0}
BY LenProperties, ElementOfSeq, BuysAssumption, SendsAssumption DEF TypeOK, Note

(* A purchase becomes m. *)
LEMMA UpdateBuys ==
  ASSUME TypeOK, NEW b \in DOMAIN buys, NEW m \in Purchase, buys' = [buys EXCEPT ![b] = m]
  PROVE  /\ buys' \in Seq(Purchase) /\ Len(buys') = Len(buys) /\ DOMAIN buys' = DOMAIN buys
         /\ \A c \in DOMAIN buys : c # b => buys'[c] = buys[c]
         /\ buys'[b] = m
<1>1. buys \in Seq(Purchase) /\ b \in 1 .. Len(buys)
  BY Domains DEF TypeOK
<1>2. /\ [buys EXCEPT ![b] = m] \in Seq(Purchase)
      /\ Len([buys EXCEPT ![b] = m]) = Len(buys)
      /\ \A c \in 1 .. Len(buys) : [buys EXCEPT ![b] = m][c] = IF c = b THEN m ELSE buys[c]
  BY <1>1, ExceptSeq
<1> QED
  BY <1>1, <1>2

(* A run becomes m. *)
LEMMA UpdateRuns ==
  ASSUME TypeOK, NEW r \in DOMAIN runs, NEW m \in Run, runs' = [runs EXCEPT ![r] = m]
  PROVE  /\ runs' \in Seq(Run) /\ Len(runs') = Len(runs) /\ DOMAIN runs' = DOMAIN runs
         /\ \A q \in DOMAIN runs : q # r => runs'[q] = runs[q]
         /\ runs'[r] = m
<1>1. runs \in Seq(Run) /\ r \in 1 .. Len(runs)
  BY Domains DEF TypeOK
<1>2. /\ [runs EXCEPT ![r] = m] \in Seq(Run)
      /\ Len([runs EXCEPT ![r] = m]) = Len(runs)
      /\ \A q \in 1 .. Len(runs) : [runs EXCEPT ![r] = m][q] = IF q = r THEN m ELSE runs[q]
  BY <1>1, ExceptSeq
<1> QED
  BY <1>1, <1>2

(* Init satisfies the invariant. *)
LEMMA InitIInv == Init => IInv
<1> SUFFICES ASSUME Init PROVE IInv
  OBVIOUS
<1>1. /\ buys \in Seq(Purchase) /\ Len(buys) = 0 /\ DOMAIN buys = {}
      /\ runs \in Seq(Run) /\ Len(runs) = 0 /\ DOMAIN runs = {}
  BY EmptySeq DEF Init
<1>2. TypeOK
  BY <1>1, BuysAssumption DEF Init, TypeOK, Note
<1>3. BuysOK /\ RunsOK /\ RecordedOK /\ OrderOK /\ DeliveredIsPaid
  BY <1>1 DEF Init, BuysOK, RunsOK, RecordedOK, OrderOK, DeliveredIsPaid
<1>4. PointerIsFrontier /\ NotChargedForErrors
  BY DEF Init, PointerIsFrontier, NotChargedForErrors, Note
<1> QED
  BY <1>2, <1>3, <1>4 DEF IInv

-----------------------------------------------------------------------------
(* The purchases *)

LEMMA BuyIInv ==
  ASSUME IInv, NEW seller \in Seller, Buy(seller)
  PROVE  IInv'
<1> USE DEF IInv
<1> DEFINE m == [note |-> current, seller |-> seller, pc |-> "settling", sends |-> 0, run |-> 0,
                 outcome |-> "none"]
<1>1. /\ Len(buys) < MaxBuys /\ (overlap \/ \A b \in DOMAIN buys : buys[b].pc = "done")
      /\ buys' = Append(buys, m)
      /\ UNCHANGED <<overlap, current, asked, fundedBy, recorded, expired, runs, relays, usedBy>>
  BY DEF Buy, settlementVars, sellerVars
<1>2. m \in Purchase
  BY Domains DEF Purchase, TypeOK
<1>3. m.note = current /\ m.pc = "settling" /\ m.outcome = "none" /\ m.sends = 0
  OBVIOUS
<1> HIDE DEF m
<1>4. /\ buys' \in Seq(Purchase) /\ Len(buys') = Len(buys) + 1
      /\ DOMAIN buys' = DOMAIN buys \cup {Len(buys) + 1}
      /\ \A b \in DOMAIN buys : buys'[b] = buys[b]
      /\ buys'[Len(buys) + 1] = m
  <2>1. buys \in Seq(Purchase)
    BY DEF TypeOK
  <2>2. /\ buys' \in Seq(Purchase) /\ Len(buys') = Len(buys) + 1
        /\ \A b \in 1 .. Len(buys) : buys'[b] = buys[b]
        /\ buys'[Len(buys) + 1] = m
    BY <1>1, <1>2, <2>1, AppendProperties
  <2> QED
    BY <2>2, Domains, LenProperties
<1>5. TypeOK'
  BY SMTT(20), <1>1, <1>4, Domains DEF TypeOK
<1>6. \A n \in Note : fundedBy[n] # 0 => Payee(n)' = Payee(n)
  BY <1>1, <1>4, Domains DEF Payee, TypeOK
<1>7. \A b \in DOMAIN buys : buys[b].note \in Note
  BY Domains DEF Purchase
<1>8. \A r \in DOMAIN runs : runs[r].note \in Note
  BY Domains DEF Run
<1>9. BuysOK'
  BY <1>1, <1>3, <1>4, SendsAssumption DEF BuysOK, OrderOK
<1>10. RunsOK'
  BY <1>1, <1>6, <1>8 DEF RunsOK
<1>11. RecordedOK' /\ NotChargedForErrors'
  BY <1>1 DEF RecordedOK, NotChargedForErrors
<1>12. OrderOK'
  BY SMTT(20), <1>1, <1>3, <1>4, Domains DEF OrderOK, TypeOK, Note
<1>13. DeliveredIsPaid'
  BY <1>1, <1>3, <1>4, <1>6, <1>7 DEF DeliveredIsPaid, BuysOK
<1>14. PointerIsFrontier'
  BY <1>1 DEF PointerIsFrontier
<1> QED
  BY <1>5, <1>9, <1>10, <1>11, <1>12, <1>13, <1>14

(* A purchase under way goes on, or ends and moves the pointer past its note. *)
LEMMA PurchaseIInv ==
  ASSUME IInv, NEW b \in DOMAIN buys, NEW m \in Purchase, buys' = [buys EXCEPT ![b] = m],
         m.note = buys[b].note, m.seller = buys[b].seller, buys[b].pc # "done",
         m.pc # "done" => m.outcome = "none",
         m.pc \in {"send", "waiting"} => fundedBy[m.note] # 0,
         m.pc # "waiting", m.pc \in {"settling", "send"} => m.sends < Sends,
         m.outcome = "delivered" =>
           fundedBy[m.note] # 0 /\ m.run # 0 /\ usedBy[m.note] = m.run /\ Payee(m.note) = m.seller,
         \/ current' = current
         \/ current' = m.note + 1 /\ m.pc = "done" /\ fundedBy[m.note] # 0,
         UNCHANGED <<overlap, asked, fundedBy, recorded, expired, runs, relays, usedBy>>
  PROVE  IInv' /\ (~overlap => current' >= current)
<1> USE DEF IInv
<1>1. /\ buys' \in Seq(Purchase) /\ Len(buys') = Len(buys) /\ DOMAIN buys' = DOMAIN buys
      /\ \A c \in DOMAIN buys : c # b => buys'[c] = buys[c]
      /\ buys'[b] = m
  BY UpdateBuys
<1>2. \A c \in DOMAIN buys : buys'[c].note = buys[c].note /\ buys'[c].seller = buys[c].seller
  BY <1>1
<1>3. m.note \in Note /\ m.note <= b /\ b \in 1 .. Len(buys) /\ Len(buys) <= MaxBuys /\ current \in Note
  BY Domains DEF Purchase, BuysOK, TypeOK
<1>4. current' \in Note /\ current' <= Len(buys) + 1
  BY <1>3, Domains DEF OrderOK
<1>5. TypeOK'
  BY <1>1, <1>4 DEF TypeOK
<1>6. \A n \in Note : fundedBy[n] # 0 => Payee(n)' = Payee(n)
  BY <1>2, Domains DEF Payee, TypeOK
<1>7. \A c \in DOMAIN buys : buys[c].note \in Note
  BY Domains DEF Purchase
<1>8. \A r \in DOMAIN runs : runs[r].note \in Note
  BY Domains DEF Run
<1>9. BuysOK'
  BY <1>1, <1>3 DEF BuysOK
<1>10. RunsOK'
  BY <1>6, <1>8 DEF RunsOK
<1>11. RecordedOK' /\ NotChargedForErrors'
  BY DEF RecordedOK, NotChargedForErrors
<1>12. ~overlap => m.note = current
  BY DEF OrderOK
<1>13. OrderOK'
  <2> SUFFICES ASSUME ~overlap
               PROVE  /\ \A c \in DOMAIN buys :
                           buys'[c].note <= current' /\ (buys'[c].pc # "done" => buys'[c].note = current')
                      /\ \A c, d \in DOMAIN buys : buys'[c].pc # "done" /\ buys'[d].pc # "done" => c = d
    BY <1>1, <1>4 DEF OrderOK
  <2>1. \A c \in DOMAIN buys : c # b => buys'[c].pc = "done" /\ buys'[c].note <= current
    BY <1>1 DEF OrderOK
  <2>2. current' >= current /\ (m.pc # "done" => current' = current)
    BY <1>3, <1>12, Domains
  <2>3. buys'[b] = m /\ m.note = current
    BY <1>1, <1>12
  <2>4. \A c \in DOMAIN buys : buys[c].note \in Nat
    BY <1>7, Domains
  <2> QED
    BY SMTT(20), <1>2, <1>3, <1>4, <2>1, <2>2, <2>3, <2>4, Domains
<1>14. DeliveredIsPaid'
  BY <1>1, <1>3, <1>6, <1>7 DEF DeliveredIsPaid, BuysOK
<1>15. PointerIsFrontier' /\ (~overlap => current' >= current)
  <2> SUFFICES ASSUME ~overlap
               PROVE  /\ \A n \in Note : /\ n < current' => fundedBy[n] # 0
                                         /\ n > current' => fundedBy[n] = 0
                      /\ current' >= current
    BY DEF PointerIsFrontier
  <2> QED
    BY <1>3, <1>4, <1>12, Domains DEF PointerIsFrontier
<1> QED
  BY <1>5, <1>9, <1>10, <1>11, <1>13, <1>14, <1>15

(* A purchase that ends as outcome says. *)
LEMMA EndIInv ==
  ASSUME IInv, NEW b \in DOMAIN buys, NEW outcome \in {"unpaid", "delivered", "settled_not_delivered"},
         buys' = [buys EXCEPT ![b].pc = "done", ![b].outcome = outcome], buys[b].pc # "done",
         outcome = "delivered" =>
           /\ fundedBy[buys[b].note] # 0 /\ buys[b].run # 0
           /\ usedBy[buys[b].note] = buys[b].run /\ Payee(buys[b].note) = buys[b].seller,
         current' = current \/ (current' = buys[b].note + 1 /\ fundedBy[buys[b].note] # 0),
         UNCHANGED <<overlap, asked, fundedBy, recorded, expired, runs, relays, usedBy>>
  PROVE  IInv' /\ (~overlap => current' >= current)
<1> DEFINE m == [buys[b] EXCEPT !.pc = "done", !.outcome = outcome]
<1>1. buys[b] \in Purchase /\ buys \in Seq(Purchase)
  BY Domains DEF IInv, TypeOK
<1>2. buys' = [buys EXCEPT ![b] = m]
  <2>1. buys' = [[buys EXCEPT ![b] = [buys[b] EXCEPT !.pc = "done"]] EXCEPT ![b] = m]
    BY <1>1
  <2> QED
    BY <2>1
<1>3. /\ m \in Purchase /\ m.note = buys[b].note /\ m.seller = buys[b].seller /\ m.run = buys[b].run
      /\ m.pc = "done" /\ m.outcome = outcome
  BY <1>1 DEF Purchase
<1> HIDE DEF m
<1> QED
  BY <1>2, <1>3, PurchaseIInv

LEMMA NotSettledIInv ==
  ASSUME IInv, NEW b \in DOMAIN buys, NotSettled(b)
  PROVE  IInv' /\ (~overlap => current' >= current)
BY EndIInv DEF NotSettled, settlementVars, sellerVars

LEMMA SettledIInv ==
  ASSUME IInv, NEW b \in DOMAIN buys, Settled(b)
  PROVE  IInv' /\ (~overlap => current' >= current)
<1> DEFINE m == [buys[b] EXCEPT !.pc = "send"]
<1>1. buys[b] \in Purchase /\ b # 0
  BY Domains DEF IInv
<1>2. /\ m \in Purchase /\ m.note = buys[b].note /\ m.seller = buys[b].seller /\ m.run = buys[b].run
      /\ m.pc = "send" /\ m.outcome = buys[b].outcome /\ m.sends = buys[b].sends
  BY <1>1 DEF Purchase
<1>3. /\ buys' = [buys EXCEPT ![b] = m] /\ buys[b].pc = "settling"
      /\ UNCHANGED <<overlap, current, asked, fundedBy, recorded, expired, runs, relays, usedBy>>
  BY DEF Settled, settlementVars, sellerVars
<1>4. fundedBy[buys[b].note] # 0
  BY <1>1 DEF Settled, IInv, RecordedOK
<1>5. m.outcome = "none" /\ m.sends < Sends
  BY <1>2, <1>3 DEF IInv, BuysOK
<1> HIDE DEF m
<1> QED
  BY <1>2, <1>3, <1>4, <1>5, PurchaseIInv

(* The run a purchase waits for says ok only of its own transfer. *)
LEMMA ReceiveIInv ==
  ASSUME IInv, NEW b \in DOMAIN buys, Receive(b)
  PROVE  IInv' /\ (~overlap => current' >= current)
<1> USE DEF IInv
<1>1. /\ buys[b].pc = "waiting"
      /\ UNCHANGED <<overlap, asked, fundedBy, recorded, expired, runs, relays, usedBy>>
  BY DEF Receive, settlementVars, sellerVars
<1>2. /\ buys[b] \in Purchase /\ fundedBy[buys[b].note] # 0
      /\ buys[b].run \in DOMAIN runs /\ buys[b].run # 0
      /\ runs[buys[b].run].note = buys[b].note /\ runs[buys[b].run].seller = buys[b].seller
  BY <1>1, Domains DEF BuysOK
<1>3. CASE runs[buys[b].run].answer = "ok" /\ Return(b, "delivered")
  <2>1. usedBy[buys[b].note] = buys[b].run /\ Payee(buys[b].note) = buys[b].seller
    BY <1>2, <1>3 DEF RunsOK
  <2> QED
    BY <1>1, <1>2, <1>3, <2>1, EndIInv DEF Return
<1>4. CASE Return(b, "settled_not_delivered")
  BY <1>1, <1>2, <1>4, EndIInv DEF Return
<1>5. CASE buys[b].sends < Sends /\ buys' = [buys EXCEPT ![b].pc = "send"] /\ UNCHANGED current
  <2> DEFINE m == [buys[b] EXCEPT !.pc = "send"]
  <2>1. /\ m \in Purchase /\ m.note = buys[b].note /\ m.seller = buys[b].seller /\ m.run = buys[b].run
        /\ m.pc = "send" /\ m.outcome = buys[b].outcome /\ m.sends = buys[b].sends
    BY <1>2 DEF Purchase
  <2>2. m.outcome = "none"
    BY <1>1, <2>1 DEF BuysOK
  <2> HIDE DEF m
  <2>3. buys' = [buys EXCEPT ![b] = m]
    BY <1>5 DEF m
  <2> QED
    BY <1>1, <1>2, <1>5, <2>1, <2>2, <2>3, PurchaseIInv
<1> QED
  BY <1>3, <1>4, <1>5 DEF Receive

LEMMA LoseResponseIInv ==
  ASSUME IInv, NEW b \in DOMAIN buys, LoseResponse(b)
  PROVE  IInv' /\ (~overlap => current' >= current)
<1>1. buys[b].pc = "waiting" /\ fundedBy[buys[b].note] # 0
  BY DEF LoseResponse, IInv, BuysOK
<1> QED
  BY <1>1, EndIInv DEF LoseResponse, Return, settlementVars, sellerVars

(* The header is presented in a new run. *)
LEMMA SendIInv ==
  ASSUME IInv, NEW b \in DOMAIN buys, Send(b)
  PROVE  IInv'
<1> USE DEF IInv
<1> PICK k : k = Len(runs) + 1
  OBVIOUS
<1> DEFINE m1 == [buys[b] EXCEPT !.pc = "waiting"]
           m2 == [m1 EXCEPT !.sends = buys[b].sends + 1]
           m == [m2 EXCEPT !.run = k]
           x == [note |-> buys[b].note, seller |-> buys[b].seller, pc |-> "arrived",
                 served |-> FALSE, receipt |-> "none", answer |-> "none"]
<1>1. /\ buys[b].pc = "send" /\ runs' = Append(runs, x)
      /\ UNCHANGED <<overlap, current, asked, fundedBy, recorded, expired, relays, usedBy>>
  BY DEF Send, settlementVars
<1>2. /\ buys[b] \in Purchase /\ buys \in Seq(Purchase) /\ k \in Nat /\ k \notin DOMAIN runs
      /\ runs \in Seq(Run)
  BY Domains DEF TypeOK
<1>3. buys' = [buys EXCEPT ![b] = m]
  <2>1. buys' = [[[buys EXCEPT ![b] = m1] EXCEPT ![b] = m2] EXCEPT ![b] = m]
    BY <1>2 DEF Send
  <2> QED
    BY <2>1
<1>4. buys[b].sends + 1 \in 0 .. Sends
  <2> HIDE DEF m1, m2, m, x
  <2>1. buys[b].sends \in 0 .. Sends
    BY <1>2 DEF Purchase
  <2>2. buys[b].sends < Sends
    BY <1>1 DEF BuysOK
  <2> PICK s : s = buys[b].sends
    OBVIOUS
  <2>3. s \in 0 .. Sends /\ s < Sends
    BY <2>1, <2>2
  <2> HIDE DEF IInv
  <2>4. s + 1 \in 0 .. Sends
    BY <2>3, SendsAssumption
  <2> QED
    BY <2>4
<1>5. m1 \in Purchase /\ m1.note = buys[b].note /\ m1.seller = buys[b].seller /\ m1.pc = "waiting"
      /\ m1.outcome = buys[b].outcome
  BY <1>2 DEF Purchase
<1> HIDE DEF m1
<1>6. m2 \in Purchase /\ m2.note = buys[b].note /\ m2.seller = buys[b].seller /\ m2.pc = "waiting"
      /\ m2.outcome = buys[b].outcome
  BY <1>4, <1>5 DEF Purchase
<1> HIDE DEF m2
<1>7. m \in Purchase /\ m.note = buys[b].note /\ m.seller = buys[b].seller /\ m.pc = "waiting"
      /\ m.outcome = buys[b].outcome /\ m.run = k
  BY <1>2, <1>6 DEF Purchase
<1> HIDE DEF m
<1>8. /\ buys' \in Seq(Purchase) /\ Len(buys') = Len(buys) /\ DOMAIN buys' = DOMAIN buys
      /\ \A c \in DOMAIN buys : c # b => buys'[c] = buys[c]
      /\ buys'[b] = m
  BY <1>3, <1>7, UpdateBuys
<1>9. x \in Run
  BY <1>2 DEF Run, Purchase
<1>10. /\ x.note = buys[b].note /\ x.seller = buys[b].seller /\ x.pc = "arrived" /\ ~x.served
       /\ x.receipt = "none" /\ x.answer = "none"
  OBVIOUS
<1> HIDE DEF x
<1>11. /\ runs' \in Seq(Run) /\ Len(runs') = k /\ DOMAIN runs' = DOMAIN runs \cup {k}
       /\ \A r \in DOMAIN runs : runs'[r] = runs[r]
       /\ runs'[k] = x
  <2>1. /\ runs' \in Seq(Run) /\ Len(runs') = Len(runs) + 1
        /\ \A r \in 1 .. Len(runs) : runs'[r] = runs[r]
        /\ runs'[Len(runs) + 1] = x
    BY <1>1, <1>2, <1>9, AppendProperties
  <2> QED
    BY <2>1, Domains, LenProperties
<1>12. TypeOK'
  <2>1. usedBy \in [Note -> 0 .. k] /\ relays \subseteq DOMAIN runs \cup {k}
    <3>1. 0 .. Len(runs) \subseteq 0 .. k
      BY <1>2, Domains
    <3> QED
      BY <3>1 DEF TypeOK
  <2>2. UNCHANGED Note
    BY DEF Note
  <2> QED
    BY <1>1, <1>8, <1>11, <2>1, <2>2 DEF TypeOK
<1>13. \A c \in DOMAIN buys : buys'[c].note = buys[c].note /\ buys'[c].seller = buys[c].seller
  BY <1>7, <1>8
<1>14. \A n \in Note : fundedBy[n] # 0 => Payee(n)' = Payee(n)
  BY SMTT(20), <1>1, <1>13, Domains DEF Payee, TypeOK
<1>15. (\A c \in DOMAIN buys : buys[c].note \in Note) /\ (\A r \in DOMAIN runs : runs[r].note \in Note)
  BY Domains DEF Purchase, Run
<1>16. fundedBy[buys[b].note] # 0 /\ buys[b].outcome = "none"
  BY <1>1 DEF BuysOK
<1>17. k \notin relays
  BY <1>2 DEF TypeOK
<1>18. BuysOK'
  BY <1>1, <1>7, <1>8, <1>10, <1>11, <1>13, <1>16 DEF BuysOK
<1>19. RunsOK'
  BY <1>1, <1>10, <1>11, <1>14, <1>15, <1>16, <1>17 DEF RunsOK
<1>20. RecordedOK' /\ PointerIsFrontier'
  BY <1>1 DEF RecordedOK, PointerIsFrontier
<1>21. OrderOK'
  BY <1>1, <1>7, <1>8, <1>13 DEF OrderOK
<1>22. DeliveredIsPaid'
  BY <1>1, <1>7, <1>8, <1>14, <1>15, <1>16 DEF DeliveredIsPaid, BuysOK
<1>23. NotChargedForErrors'
  BY SMTT(20), <1>1, <1>11, Domains DEF NotChargedForErrors, TypeOK
<1> QED
  BY <1>12, <1>18, <1>19, <1>20, <1>21, <1>22, <1>23

-----------------------------------------------------------------------------
(* The withdrawals *)

(* The purchases and the runs say nothing of what is asked, recorded, expired. *)
LEMMA AroundIInv ==
  ASSUME IInv, UNCHANGED <<overlap, current, buys, fundedBy, runs, relays, usedBy>>,
         asked' \subseteq DOMAIN buys, recorded' \subseteq Note, expired' \subseteq Note, RecordedOK'
  PROVE  IInv'
<1>1. TypeOK' /\ BuysOK' /\ RunsOK' /\ OrderOK'
  BY DEF IInv, TypeOK, BuysOK, RunsOK, OrderOK, Payee
<1>2. DeliveredIsPaid' /\ PointerIsFrontier' /\ NotChargedForErrors'
  BY DEF IInv, DeliveredIsPaid, PointerIsFrontier, NotChargedForErrors, Payee
<1> QED
  BY <1>1, <1>2 DEF IInv

LEMMA DispatchIInv ==
  ASSUME IInv, NEW b \in DOMAIN buys, Dispatch(b)
  PROVE  IInv'
BY AroundIInv DEF Dispatch, IInv, TypeOK, RecordedOK, sellerVars

LEMMA LandNotIInv ==
  ASSUME IInv, NEW b \in DOMAIN buys, LandNot(b)
  PROVE  IInv'
BY AroundIInv DEF LandNot, IInv, TypeOK, RecordedOK, sellerVars

LEMMA FinalizeIInv ==
  ASSUME IInv, NEW n \in Note, Finalize(n)
  PROVE  IInv'
BY AroundIInv DEF Finalize, IInv, TypeOK, RecordedOK, sellerVars

LEMMA ExpireIInv ==
  ASSUME IInv, NEW n \in Note, Expire(n)
  PROVE  IInv'
BY AroundIInv DEF Expire, IInv, TypeOK, RecordedOK, settlementVars, sellerVars

(* The note of a first withdrawal has no header yet, and is the current one of *)
(* a buyer who waits.                                                          *)
LEMMA LandIInv ==
  ASSUME IInv, NEW b \in DOMAIN buys, Land(b)
  PROVE  IInv'
<1> USE DEF IInv
<1>1. asked' \subseteq asked /\ UNCHANGED <<overlap, current, buys, recorded, expired, runs, relays, usedBy>>
  BY DEF Land, sellerVars
<1>2. CASE fundedBy[buys[b].note] # 0
  <2>1. UNCHANGED fundedBy /\ asked' \subseteq DOMAIN buys
    BY <1>1, <1>2 DEF Land, TypeOK
  <2> QED
    BY <1>1, <2>1, AroundIInv DEF TypeOK, RecordedOK
<1>3. CASE fundedBy[buys[b].note] = 0
  <2>1. fundedBy' = [fundedBy EXCEPT ![buys[b].note] = b]
    BY <1>3 DEF Land
  <2>2. buys[b].note \in Note /\ b \in 0 .. Len(buys) /\ b # 0 /\ current \in Note
    <3>1. buys[b] \in Purchase /\ b \in 1 .. Len(buys) /\ Len(buys) \in Nat
      BY Domains
    <3> QED
      BY SMTT(20), <3>1 DEF Purchase, TypeOK
  <2>3. fundedBy'[buys[b].note] = b /\ \A n \in Note : n # buys[b].note => fundedBy'[n] = fundedBy[n]
    BY <2>1, <2>2 DEF TypeOK
  <2>4. \A n \in Note : fundedBy[n] # 0 => fundedBy'[n] = fundedBy[n] /\ Payee(n)' = Payee(n)
    BY <1>1, <1>3, <2>2, <2>3 DEF Payee
  <2>5. (\A c \in DOMAIN buys : buys[c].note \in Note) /\ (\A r \in DOMAIN runs : runs[r].note \in Note)
    BY Domains DEF Purchase, Run
  <2>6. TypeOK'
    BY <1>1, <2>1, <2>2 DEF TypeOK
  <2>7. BuysOK'
    BY <1>1, <2>4, <2>5 DEF BuysOK
  <2>8. RunsOK'
    BY <1>1, <2>4, <2>5 DEF RunsOK
  <2>9. RecordedOK'
    BY <1>1, <2>4 DEF RecordedOK, TypeOK
  <2>10. OrderOK' /\ NotChargedForErrors'
    BY <1>1 DEF OrderOK, NotChargedForErrors
  <2>11. DeliveredIsPaid'
    BY <1>1, <2>4, <2>5 DEF DeliveredIsPaid, BuysOK
  <2>12. ~overlap => buys[b].note = current
    BY <1>3, <2>2, Domains DEF OrderOK, PointerIsFrontier
  <2>13. PointerIsFrontier'
    BY <1>1, <2>2, <2>3, <2>12, Domains DEF PointerIsFrontier
  <2> QED
    BY <2>6, <2>7, <2>8, <2>9, <2>10, <2>11, <2>13
<1> QED
  BY <1>2, <1>3

-----------------------------------------------------------------------------
(* The runs *)

(* A run becomes m; its transfer may begin, end or use the authorization. *)
LEMMA RunIInv ==
  ASSUME IInv, NEW r \in DOMAIN runs, NEW m \in Run, runs' = [runs EXCEPT ![r] = m],
         m.note = runs[r].note, m.seller = runs[r].seller, runs[r].served => m.served,
         relays' \subseteq relays \cup {r},
         \/ usedBy' = usedBy
         \/ usedBy[m.note] = 0 /\ usedBy' = [usedBy EXCEPT ![m.note] = r] /\ m.served,
         m.pc \in {"verified", "handled", "relayed"} \/ r \in relays' \/ m.receipt = "success"
           => Payee(m.note) = m.seller,
         m.pc \in {"handled", "relayed"} \/ r \in relays' => m.served,
         m.receipt = "success" => usedBy'[m.note] = r,
         m.pc \in {"arrived", "verified", "handled"} \/ r \in relays' => m.receipt = "none",
         r \in relays' => m.pc \in {"relayed", "ended"},
         m.answer = "ok" => m.receipt = "success",
         UNCHANGED <<overlap, current, buys, asked, fundedBy, recorded, expired>>
  PROVE  IInv'
<1> USE DEF IInv
<1>1. /\ runs' \in Seq(Run) /\ Len(runs') = Len(runs) /\ DOMAIN runs' = DOMAIN runs
      /\ \A q \in DOMAIN runs : q # r => runs'[q] = runs[q]
      /\ runs'[r] = m
  BY UpdateRuns
<1>2. m.note \in Note /\ r \in 0 .. Len(runs) /\ r # 0
  BY Domains DEF Run
<1>3. (\A c \in DOMAIN buys : buys[c].note \in Note) /\ (\A q \in DOMAIN runs : runs[q].note \in Note)
  BY Domains DEF Purchase, Run
<1>4. \A n \in Note : /\ usedBy[n] # 0 => usedBy'[n] = usedBy[n]
                      /\ usedBy'[n] = usedBy[n] \/ (usedBy'[n] = r /\ m.served)
  BY <1>2 DEF TypeOK
<1>5. \A n \in Note : Payee(n)' = Payee(n)
  BY DEF Payee
<1>6. TypeOK'
  <2>1. usedBy' \in [Note -> 0 .. Len(runs)]
    BY <1>2 DEF TypeOK
  <2> QED
    BY <1>1, <2>1 DEF TypeOK
<1>7. BuysOK'
  BY <1>1 DEF BuysOK
<1>8. RunsOK'
  <2> SUFFICES ASSUME NEW q \in DOMAIN runs
               PROVE  /\ fundedBy[runs'[q].note] # 0
                      /\ runs'[q].pc \in {"verified", "handled", "relayed"} \/ q \in relays' \/ runs'[q].receipt = "success"
                           => Payee(runs'[q].note) = runs'[q].seller
                      /\ runs'[q].pc \in {"handled", "relayed"} \/ q \in relays' => runs'[q].served
                      /\ runs'[q].receipt = "success" => usedBy'[runs'[q].note] = q
                      /\ runs'[q].pc \in {"arrived", "verified", "handled"} \/ q \in relays'
                           => runs'[q].receipt = "none"
                      /\ q \in relays' => runs'[q].pc \in {"relayed", "ended"}
                      /\ runs'[q].answer = "ok" => runs'[q].receipt = "success"
    BY <1>1 DEF RunsOK, Payee
  <2>1. CASE q = r
    BY <1>1, <2>1 DEF RunsOK
  <2>2. CASE q # r
    <3>1. runs'[q] = runs[q] /\ (q \in relays' => q \in relays) /\ q # 0
      BY <1>1, <2>2, Domains
    <3>2. runs[q].receipt = "success" => usedBy'[runs[q].note] = q
      BY <1>3, <1>4, <3>1 DEF RunsOK
    <3> QED
      BY <3>1, <3>2 DEF RunsOK
  <2> QED
    BY <2>1, <2>2
<1>9. RecordedOK' /\ OrderOK' /\ PointerIsFrontier'
  BY DEF RecordedOK, OrderOK, PointerIsFrontier
<1>10. DeliveredIsPaid'
  <2> SUFFICES ASSUME NEW b \in DOMAIN buys, buys[b].outcome = "delivered"
               PROVE  usedBy'[buys[b].note] = buys[b].run /\ Payee(buys[b].note) = buys[b].seller
    BY <1>5 DEF DeliveredIsPaid, Payee
  <2> QED
    BY <1>3, <1>4 DEF DeliveredIsPaid, BuysOK
<1>11. NotChargedForErrors'
  BY <1>1, <1>2, <1>4 DEF NotChargedForErrors
<1> QED
  BY <1>6, <1>7, <1>8, <1>9, <1>10, <1>11

LEMMA AnsweredIInv ==
  ASSUME IInv, NEW r \in DOMAIN runs, NEW answer \in {"none", "ok", "402", "error", "lost"},
         Answered(r, answer), answer = "ok" => runs[r].receipt = "success",
         UNCHANGED <<overlap, current, buys, asked, fundedBy, recorded, expired, relays, usedBy>>
  PROVE  IInv'
<1> DEFINE m == [runs[r] EXCEPT !.pc = "ended", !.answer = answer]
<1>1. runs[r] \in Run
  BY Domains DEF IInv
<1>2. runs' = [runs EXCEPT ![r] = m]
  <2>1. runs' = [[runs EXCEPT ![r] = [runs[r] EXCEPT !.pc = "ended"]] EXCEPT ![r] = m]
    BY <1>1 DEF Answered
  <2> QED
    BY <2>1
<1>3. /\ m \in Run /\ m.note = runs[r].note /\ m.seller = runs[r].seller /\ m.pc = "ended"
      /\ m.served = runs[r].served /\ m.receipt = runs[r].receipt /\ m.answer = answer
  BY <1>1 DEF Run
<1> HIDE DEF m
<1>4. /\ r \in relays \/ m.receipt = "success" => Payee(m.note) = m.seller
      /\ r \in relays => m.served /\ m.receipt = "none"
      /\ m.receipt = "success" => usedBy[m.note] = r
  BY <1>3 DEF IInv, RunsOK
<1>5. relays' \subseteq relays \cup {r} /\ (r \in relays' => r \in relays)
  OBVIOUS
<1> QED
  BY <1>2, <1>3, <1>4, <1>5, RunIInv

(* A run that goes on: pc and served change. *)
LEMMA GoesOnIInv ==
  ASSUME IInv, NEW r \in DOMAIN runs, NEW pc \in {"verified", "handled", "relayed"},
         NEW served \in BOOLEAN, runs' = [runs EXCEPT ![r] = [@ EXCEPT !.pc = pc, !.served = served]],
         runs[r].served => served, pc \in {"handled", "relayed"} => served,
         \/ relays' = relays /\ r \notin relays
         \/ relays' = relays \cup {r} /\ pc = "relayed",
         runs[r].receipt = "none",
         Payee(runs[r].note) = runs[r].seller,
         UNCHANGED <<overlap, current, buys, asked, fundedBy, recorded, expired, usedBy>>
  PROVE  IInv'
<1> DEFINE m == [runs[r] EXCEPT !.pc = pc, !.served = served]
<1>1. runs[r] \in Run
  BY Domains DEF IInv
<1>2. runs' = [runs EXCEPT ![r] = m]
  OBVIOUS
<1>3. /\ m \in Run /\ m.note = runs[r].note /\ m.seller = runs[r].seller /\ m.pc = pc
      /\ m.served = served /\ m.receipt = runs[r].receipt /\ m.answer = runs[r].answer
  BY <1>1 DEF Run
<1> HIDE DEF m
<1>4. runs[r].answer # "ok"
  BY DEF IInv, RunsOK
<1>5. relays' \subseteq relays \cup {r} /\ (r \in relays' => pc = "relayed")
  OBVIOUS
<1>6. /\ m.pc \in {"handled", "relayed"} \/ r \in relays' => m.served
      /\ r \in relays' => m.pc \in {"relayed", "ended"}
      /\ m.receipt = "none" /\ m.answer # "ok"
  BY <1>3, <1>4, <1>5
<1> QED
  BY <1>2, <1>3, <1>5, <1>6, RunIInv

LEMMA VerifyIInv ==
  ASSUME IInv, NEW r \in DOMAIN runs, Verify(r)
  PROVE  IInv'
<1>1. runs[r] \in Run
  BY Domains DEF IInv
<1>2. UNCHANGED <<overlap, current, buys, asked, fundedBy, recorded, expired, relays, usedBy>>
  BY DEF Verify, settlementVars
<1>3. CASE Answered(r, "402")
  BY <1>2, <1>3, AnsweredIInv
<1>4. CASE Verifies(r) /\ runs' = [runs EXCEPT ![r].pc = "verified"]
  <2>1. runs' = [runs EXCEPT ![r] = [@ EXCEPT !.pc = "verified", !.served = runs[r].served]]
    <3>1. [runs[r] EXCEPT !.pc = "verified"] = [runs[r] EXCEPT !.pc = "verified", !.served = runs[r].served]
      BY <1>1 DEF Run
    <3> QED
      BY <1>4, <3>1
  <2>2. runs[r].served \in BOOLEAN
    BY <1>1 DEF Run
  <2>3. runs[r].pc = "arrived"
    BY DEF Verify
  <2> QED
    BY ZenonT(20), <1>2, <1>4, <2>1, <2>2, <2>3, GoesOnIInv DEF Verifies, IInv, RunsOK
<1> QED
  BY <1>3, <1>4 DEF Verify

LEMMA HandleIInv ==
  ASSUME IInv, NEW r \in DOMAIN runs, Handle(r)
  PROVE  IInv'
<1>1. runs[r] \in Run
  BY Domains DEF IInv
<1>2. /\ runs[r].pc = "verified"
      /\ UNCHANGED <<overlap, current, buys, asked, fundedBy, recorded, expired, relays, usedBy>>
  BY DEF Handle, settlementVars
<1>3. CASE Answered(r, "error")
  BY <1>2, <1>3, AnsweredIInv
<1>4. CASE runs' = [runs EXCEPT ![r].pc = "handled", ![r].served = TRUE]
  <2>1. runs' = [[runs EXCEPT ![r] = [runs[r] EXCEPT !.pc = "handled"]]
                   EXCEPT ![r] = [runs[r] EXCEPT !.pc = "handled", !.served = TRUE]]
    BY <1>1, <1>4
  <2>2. runs' = [runs EXCEPT ![r] = [@ EXCEPT !.pc = "handled", !.served = TRUE]]
    BY <2>1
  <2> QED
    BY <1>2, <2>2, GoesOnIInv DEF IInv, RunsOK
<1> QED
  BY <1>3, <1>4 DEF Handle

LEMMA SettleIInv ==
  ASSUME IInv, NEW r \in DOMAIN runs, Settle(r)
  PROVE  IInv'
<1>1. runs[r] \in Run
  BY Domains DEF IInv
<1>2. /\ runs[r].pc = "handled" /\ runs[r].served
      /\ UNCHANGED <<overlap, current, buys, asked, fundedBy, recorded, expired, usedBy>>
  BY DEF Settle, settlementVars, IInv, RunsOK
<1>3. CASE Answered(r, "402") /\ UNCHANGED relays
  BY <1>2, <1>3, AnsweredIInv
<1>4. CASE Verifies(r) /\ runs' = [runs EXCEPT ![r].pc = "relayed"] /\ relays' = relays \cup {r}
  <2>1. runs' = [runs EXCEPT ![r] = [@ EXCEPT !.pc = "relayed", !.served = TRUE]]
    <3>1. [runs[r] EXCEPT !.pc = "relayed"] = [runs[r] EXCEPT !.pc = "relayed", !.served = TRUE]
      BY <1>1, <1>2 DEF Run
    <3> QED
      BY <1>4, <3>1
  <2> QED
    BY <1>2, <1>4, <2>1, GoesOnIInv DEF Verifies, IInv, RunsOK
<1> QED
  BY <1>3, <1>4 DEF Settle

LEMMA ReceiptIInv ==
  ASSUME IInv, NEW r \in DOMAIN runs, Receipt(r)
  PROVE  IInv'
BY AnsweredIInv DEF Receipt, settlementVars

LEMMA CrashIInv ==
  ASSUME IInv, NEW r \in DOMAIN runs, Crash(r)
  PROVE  IInv'
BY AnsweredIInv DEF Crash, settlementVars

LEMMA MineIInv ==
  ASSUME IInv, NEW r \in DOMAIN runs, Mine(r)
  PROVE  IInv'
<1> DEFINE lands == usedBy[runs[r].note] = 0 /\ runs[r].note \notin expired
           m == [runs[r] EXCEPT !.receipt = IF lands THEN "success" ELSE "reverted"]
<1>1. runs[r] \in Run
  BY Domains DEF IInv
<1>2. /\ r \in relays /\ relays' \subseteq relays /\ runs' = [runs EXCEPT ![r] = m]
      /\ usedBy' = IF lands THEN [usedBy EXCEPT ![runs[r].note] = r] ELSE usedBy
      /\ UNCHANGED <<overlap, current, buys, asked, fundedBy, recorded, expired>>
  BY DEF Mine, settlementVars
<1>3. /\ m \in Run /\ m.note = runs[r].note /\ m.seller = runs[r].seller /\ m.pc = runs[r].pc
      /\ m.served = runs[r].served /\ m.answer = runs[r].answer
      /\ m.receipt = IF lands THEN "success" ELSE "reverted"
  BY <1>1 DEF Run
<1> HIDE DEF m
<1>4. relays' = relays \ {r}
  BY DEF Mine
<1>5. /\ runs[r].served /\ Payee(runs[r].note) = runs[r].seller
      /\ runs[r].receipt = "none" /\ runs[r].answer # "ok"
  BY <1>2 DEF IInv, RunsOK
<1>6. usedBy' = usedBy \/ (usedBy[m.note] = 0 /\ usedBy' = [usedBy EXCEPT ![m.note] = r] /\ m.served)
  BY <1>2, <1>3, <1>5
<1>7. m.receipt = "success" => usedBy'[m.note] = r
  <2>1. runs[r].note \in Note
    BY <1>1 DEF Run
  <2> QED
    BY <1>2, <1>3, <2>1 DEF IInv, TypeOK
<1>8. m.pc \in {"relayed", "ended"}
  BY <1>2, <1>3 DEF IInv, RunsOK
<1> QED
  BY <1>1, <1>2, <1>3, <1>4, <1>5, <1>6, <1>7, <1>8, RunIInv DEF IInv, RunsOK

LEMMA MineNotIInv ==
  ASSUME IInv, NEW r \in DOMAIN runs, MineNot(r)
  PROVE  IInv'
<1>1. runs[r] \in Run /\ runs \in Seq(Run)
  BY Domains DEF IInv, TypeOK
<1>2. runs' = [runs EXCEPT ![r] = runs[r]]
  BY <1>1 DEF MineNot
<1>3. relays' \subseteq relays /\ UNCHANGED <<overlap, current, buys, asked, fundedBy, recorded, expired, usedBy>>
  BY DEF MineNot, settlementVars
<1> QED
  BY <1>1, <1>2, <1>3, RunIInv DEF IInv, RunsOK

-----------------------------------------------------------------------------
LEMMA NextIInv ==
  ASSUME IInv, [Next]_vars
  PROVE  IInv' /\ (~overlap => current' >= current)
<1> USE DEF IInv
<1>1. current \in Nat
  BY Domains DEF TypeOK
<1>2. CASE UNCHANGED vars
  <2>1. UNCHANGED <<overlap, current, buys, asked, fundedBy, recorded, expired, runs, relays, usedBy>>
    BY <1>2 DEF vars, settlementVars, sellerVars
  <2> QED
    BY <1>1, <2>1, AroundIInv DEF TypeOK, RecordedOK
<1>3. ASSUME NEW seller \in Seller, Buy(seller)
      PROVE  IInv' /\ current' = current
  BY <1>3, BuyIInv DEF Buy
<1>4. ASSUME NEW b \in DOMAIN buys, BuyerStep(b)
      PROVE  IInv' /\ (~overlap => current' >= current)
  <2>1. CASE Dispatch(b) \/ Land(b) \/ LandNot(b) \/ Send(b)
    <3>1. IInv'
      BY <2>1, DispatchIInv, LandIInv, LandNotIInv, SendIInv
    <3>2. current' = current
      BY <2>1 DEF Dispatch, Land, LandNot, Send
    <3> QED
      BY <1>1, <3>1, <3>2
  <2> QED
    BY <1>4, <2>1, SettledIInv, NotSettledIInv, ReceiveIInv, LoseResponseIInv DEF BuyerStep
<1>5. ASSUME NEW n \in Note, Finalize(n) \/ Expire(n)
      PROVE  IInv' /\ current' = current
  BY <1>5, FinalizeIInv, ExpireIInv DEF Finalize, Expire
<1>6. ASSUME NEW r \in DOMAIN runs, SellerStep(r)
      PROVE  IInv' /\ current' = current
  <2>1. IInv'
    BY <1>6, VerifyIInv, HandleIInv, SettleIInv, MineIInv, MineNotIInv, ReceiptIInv, CrashIInv DEF SellerStep
  <2>2. current' = current
    BY <1>6 DEF SellerStep, Verify, Handle, Settle, Mine, MineNot, Receipt, Crash
  <2> QED
    BY <2>1, <2>2
<1> QED
  BY <1>1, <1>2, <1>3, <1>4, <1>5, <1>6 DEF Next

(* The inductive invariant of the purchases: what each has sent, who serves  *)
(* it, whose header a note's record holds and where the pointer stands.      *)
THEOREM Invariant == Spec => []IInv
<1>1. IInv /\ [Next]_vars => IInv'
  BY NextIInv
<1> QED
  BY InitIInv, <1>1, PTL DEF Spec

(* The purchases and the runs keep their types. *)
THEOREM TypeCorrect == Spec => []TypeOK
<1>1. IInv => TypeOK
  BY DEF IInv
<1> QED
  BY <1>1, Invariant, PTL

(* What is reported delivered was paid by the run that answered, to its      *)
(* seller, with any retries, replays and overlapping purchases (payAndFetch, *)
(* withPrivateX402, x402/settle).                                            *)
THEOREM Delivered == Spec => []DeliveredIsPaid
<1>1. IInv => DeliveredIsPaid
  BY DEF IInv
<1> QED
  BY <1>1, Invariant, PTL

(* The buyer who waits for every answer stands at the first unspent note, or *)
(* at the one just spent by the purchase under way (createPrivateFetch).     *)
THEOREM Frontier == Spec => []PointerIsFrontier
<1>1. IInv => PointerIsFrontier
  BY DEF IInv
<1> QED
  BY <1>1, Invariant, PTL

(* Only what a handler served is charged for (withPrivateX402). *)
THEOREM NotCharged == Spec => []NotChargedForErrors
<1>1. IInv => NotChargedForErrors
  BY DEF IInv
<1> QED
  BY <1>1, Invariant, PTL

(* The pointer of a buyer who waits never goes back (createPrivateFetch);    *)
(* with overlapping purchases it does.                                       *)
THEOREM Advances == Spec => [][~overlap => current' >= current]_vars
<1>1. IInv /\ [Next]_vars => [~overlap => current' >= current]_vars
  BY NextIInv
<1> QED
  BY <1>1, Invariant, PTL DEF Spec
=============================================================================
