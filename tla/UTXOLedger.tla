------------------------------ MODULE UTXOLedger ------------------------------
(***************************************************************************)
(* What a pool of two-in, two-out notes promises, with no tree, roots,     *)
(* nullifiers or proofs: notes are minted once, and two live notes may be  *)
(* exchanged for two new ones worth no more.  A retired note never comes   *)
(* back.  Nothing is promised once a note was spent as if it were another. *)
(***************************************************************************)
EXTENDS Naturals

CONSTANT Note  \* records with at least a field amount

VARIABLES
  live,    \* notes that can still be exchanged
  retired, \* notes that were
  astray   \* a note was spent as if it were another

ledgerVars == <<live, retired, astray>>

Init == live = {} /\ retired = {} /\ astray = FALSE

Fresh(note) == note \in Note /\ note \notin live \cup retired

Mint(note) ==
  /\ Fresh(note)
  /\ live' = live \cup {note}
  /\ UNCHANGED <<retired, astray>>

Exchange(a, b, c, d) ==
  /\ {a, b} \subseteq live
  /\ a # b
  /\ Fresh(c)
  /\ Fresh(d)
  /\ c # d
  /\ c.amount + d.amount <= a.amount + b.amount
  /\ live' = (live \ {a, b}) \cup {c, d}
  /\ retired' = retired \cup {a, b}
  /\ UNCHANGED astray

Next ==
  \/ \E note \in live' : Mint(note)
  \/ \E a, b \in live : \E c, d \in live' : Exchange(a, b, c, d)

Spec == Init /\ [][Next \/ astray']_ledgerVars
=============================================================================
