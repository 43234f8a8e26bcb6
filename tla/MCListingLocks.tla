--------------------------- MODULE MCListingLocks ---------------------------
(***************************************************************************)
(* ListingLocks for TLC: a peer that is the taker of one trade, with two   *)
(* quotes to choose from, and the maker of two others, whose quotes are    *)
(* bound to the same offer line.                                           *)
(***************************************************************************)
EXTENDS ListingLocks, TLC

CONSTANTS t1, t2, t3, q1, q2, q3, q4, l1

BothTradeOf == (q1 :> t1 @@ q2 :> t1 @@ q3 :> t2 @@ q4 :> t3)
BothLineOf == [q \in Quotes |-> l1]

TakerTradeOf == [q \in Quotes |-> t1]
TakerLineOf == [q \in Quotes |-> l1]

\* Taking and making share nothing but the calls: searched one at a time.
Touched(t) ==
  \/ RunningFor(t) \/ Committed(t) \/ rows[t] # "none" \/ t \in canceling
  \/ \E k \in Listings : locks[k] # NoLock /\ locks[k].trade = t
OneSide == Touched(t1) => ~Touched(t2) /\ ~Touched(t3)

WorkerSymmetry == Permutations(Workers)
=============================================================================
