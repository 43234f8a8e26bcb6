--------------------------- MODULE EscrowPromise ---------------------------
(***************************************************************************)
(* What the settlement of a swap promises, per payment hash ("leg"): USDT  *)
(* is deposited once; the payer commits to a Lightning payment only        *)
(* against a deposit whose refund time has not come; the deposit leaves    *)
(* escrow to the payer only for a payment and to the depositor only when   *)
(* the refund time has come.                                               *)
(***************************************************************************)
CONSTANT Legs

VARIABLES usdt,       \* usdt[l]: where the deposit of leg l is
          committed,  \* the legs the payer is about to pay
          paid,       \* the legs paid over Lightning
          late        \* the refund time has come

vars == <<usdt, committed, paid, late>>

Init ==
  /\ usdt = [l \in Legs |-> "none"]
  /\ committed = {} /\ paid = {} /\ late \in BOOLEAN

Move(l, from, to) == usdt[l] = from /\ usdt' = [usdt EXCEPT ![l] = to]

Lock(l) == Move(l, "none", "locked") /\ UNCHANGED <<committed, paid, late>>

Commit(l) ==
  /\ usdt[l] = "locked" /\ ~late
  /\ committed' = committed \cup {l}
  /\ UNCHANGED <<usdt, paid, late>>

\* A payment has no time limit: by now the deposit may be gone.
Pay(l) ==
  /\ l \in committed
  /\ paid' = paid \cup {l}
  /\ committed' \in {committed, committed \ {l}}
  /\ UNCHANGED <<usdt, late>>

GiveUp ==
  committed' \in SUBSET committed /\ UNCHANGED <<usdt, paid, late>>

Claim(l) ==
  /\ l \in paid /\ ~late /\ Move(l, "locked", "claimed")
  /\ UNCHANGED <<committed, paid, late>>

Refund(l) ==
  late /\ Move(l, "locked", "refunded") /\ UNCHANGED <<committed, paid, late>>

Expire == ~late /\ late' = TRUE /\ UNCHANGED <<usdt, committed, paid>>

Next ==
  \/ Expire \/ GiveUp
  \/ \E l \in Legs : Lock(l) \/ Commit(l) \/ Pay(l) \/ Claim(l) \/ Refund(l)

Spec == Init /\ [][Next]_vars
=============================================================================
