---------------------------- MODULE MCSwapTrade ----------------------------
(***************************************************************************)
(* Envelope sets for TLC.  The receiver posts terms and replaces them, a   *)
(* third peer tries to author terms of its own, the payer accepts the      *)
(* first version (in time, or a millisecond late), the receiver sends an   *)
(* invoice, its replay without the optional fields, and one for a second   *)
(* hash; every deadline has an envelope on the boundary and one beyond it. *)
(***************************************************************************)
EXTENDS SwapTrade, TLC

CONSTANTS a, b, receiver, payer, other, h1, h2, deal1, deal2, pda1, tx1, tx2

Env(k, s, ts, body) == [kind |-> k, signer |-> s, ts |-> ts, body |-> body]

TermsBody(r, deal, refundAfter) ==
  [ln_receiver_peer |-> r, ln_payer_peer |-> payer, btc_sats |-> 1,
   deal |-> deal, sol_refund_after_unix |-> refundAfter,
   terms_valid_until_unix |-> 2]

T1 == Env("terms", receiver, 0, TermsBody(receiver, deal1, 5))
T2 == Env("terms", receiver, 1, TermsBody(receiver, deal2, 6))
T3 == Env("terms", other, 0, TermsBody(other, deal1, 5))

AcceptOf(t, ts) == Env("accept", payer, ts, [terms_hash |-> TermsHash(t)])

InvoiceOf(h, amount, expiry) ==
  [payment_hash_hex |-> h, bolt11 |-> h, amount_msat |-> amount,
   expires_at_unix |-> expiry]

EscrowOf(h, deal, refundAfter, tx) ==
  [payment_hash_hex |-> h, escrow_pda |-> pda1, deal |-> deal,
   refund_after_unix |-> refundAfter, tx_sig |-> tx]

SettledBy(h, tx) ==
  [payment_hash_hex |-> h, escrow_pda |-> pda1, tx_sig |-> tx]

Invoice1 == Env("ln_invoice", receiver, 2000, InvoiceOf(h1, 1000, 3))
Escrow1 == Env("sol_escrow_created", receiver, 2000, EscrowOf(h1, deal1, 5, tx1))
Paid1 == Env("ln_paid", payer, 3000, [payment_hash_hex |-> h1])
Claimed1 == Env("sol_claimed", payer, 4000, SettledBy(h1, tx1))
Refunded1 == Env("sol_refunded", receiver, 5000, SettledBy(h1, tx1))
Cancel1 == Env("cancel", other, 0, [reason |-> None])

RichEnvelopes ==
  { T1, T2, T3, AcceptOf(T1, 2000), AcceptOf(T1, 2001),
    Invoice1,
    Env("ln_invoice", receiver, 2000, InvoiceOf(h1, None, None)),
    Env("ln_invoice", receiver, 2000, InvoiceOf(h2, 1000, 3)),
    Env("ln_invoice", receiver, 2000, InvoiceOf(h1, 1001, 3)),
    Escrow1,
    Env("sol_escrow_created", receiver, 2000, EscrowOf(h2, deal1, 5, tx1)),
    Env("sol_escrow_created", receiver, 2000, EscrowOf(h1, deal2, 5, tx1)),
    Env("sol_escrow_created", receiver, 2000, EscrowOf(h1, deal1, 4, tx2)),
    Env("sol_escrow_created", receiver, 2000, EscrowOf(h1, deal2, 6, tx2)),
    Paid1, Env("ln_paid", payer, 3001, [payment_hash_hex |-> h1]),
    Env("ln_paid", payer, 3000, [payment_hash_hex |-> h2]),
    Claimed1, Env("sol_claimed", payer, 4000, SettledBy(h1, tx2)),
    Env("sol_claimed", payer, 4000, SettledBy(h2, tx1)),
    Refunded1, Env("sol_refunded", receiver, 4999, SettledBy(h1, tx1)),
    Cancel1, Env("status", other, 0, None) }
=============================================================================
