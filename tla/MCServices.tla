----------------------------- MODULE MCServices -----------------------------
(* Services with an offer and an RFQ job of one name, a trade of two stages,
   a channel, three endpoints. *)
EXTENDS Services

CONSTANTS j1, s1, e1, e2

OneName == [j \in Jobs |-> j1]
OneAmount == [l \in Lines |-> "a"]
OneExpiry == [j \in Jobs |-> 2]
TwoTriggers == [s \in Stages |-> IF s = s1 THEN e1 ELSE e2]
=============================================================================
