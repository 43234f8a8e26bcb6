---------------------------- MODULE MCNegotiation ----------------------------
(* Two makers that both quote the one RFQ of a taker. *)
EXTENDS Negotiation

CONSTANTS m1, m2, t
=============================================================================
