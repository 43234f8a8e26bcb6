----------------------------- MODULE SwapPhases -----------------------------
(***************************************************************************)
(* What a trade record promises: each party's view of a trade moves only   *)
(* forward, from negotiation to one of three ends, and what was agreed and *)
(* what is to be paid are fixed once and for all when they are first set.  *)
(***************************************************************************)
CONSTANTS Parties, Agreements, Payments, Nothing

VARIABLES stage, agreed, payment

vars == <<stage, agreed, payment>>

Init ==
  /\ stage = [p \in Parties |-> "open"]
  /\ agreed = [p \in Parties |-> Nothing]
  /\ payment = [p \in Parties |-> Nothing]

Move(p, from, to) == stage[p] \in from /\ stage' = [stage EXCEPT ![p] = to]

\* p's entry changes to some member of S and no other entry changes.
Settle(f, g, p, S) == g[p] \in S /\ g = [f EXCEPT ![p] = g[p]]

Agree(p) ==
  /\ Move(p, {"open"}, "accepted")
  /\ Settle(agreed, agreed', p, Agreements)
  /\ UNCHANGED payment

Bill(p) ==
  /\ Move(p, {"accepted"}, "invoice")
  /\ Settle(payment, payment', p, Payments)
  /\ UNCHANGED agreed

Fund(p) == Move(p, {"invoice"}, "escrow") /\ UNCHANGED <<agreed, payment>>

Pay(p) == Move(p, {"escrow"}, "ln_paid") /\ UNCHANGED <<agreed, payment>>

Claim(p) ==
  Move(p, {"escrow", "ln_paid"}, "claimed") /\ UNCHANGED <<agreed, payment>>

Refund(p) == Move(p, {"escrow"}, "refunded") /\ UNCHANGED <<agreed, payment>>

Drop(p) ==
  /\ Move(p, {"open", "accepted", "invoice"}, "dropped")
  /\ UNCHANGED <<agreed, payment>>

Next == \E p \in Parties :
          \/ Agree(p) \/ Bill(p) \/ Fund(p) \/ Pay(p)
          \/ Claim(p) \/ Refund(p) \/ Drop(p)

Spec == Init /\ [][Next]_vars
=============================================================================
