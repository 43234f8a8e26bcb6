------------------------------ MODULE SwapTrade ------------------------------
(***************************************************************************)
(* The trade record that each party folds signed swap envelopes into       *)
(* (src/src/swap/stateMachine.js).  A replica is one party's record of one *)
(* trade.  The sidechannel gives no order and no exactly-once delivery, so *)
(* a replica may be handed any envelope of Envelopes, in any order, any    *)
(* number of times; an envelope the code rejects leaves the record as it   *)
(* was and is no step.  Envelopes that fail the schema, carry another      *)
(* trade_id or a bad signature never change the record: they are outside   *)
(* Envelopes.                                                              *)
(***************************************************************************)
EXTENDS Integers

CONSTANTS Replicas,     \* the records kept of the trade (one per party)
          Peers,        \* signer public keys
          Hashes,       \* LN payment hashes
          Bolt11s,      \* encoded invoices
          Deals,        \* usdt_amount, sol_mint, sol_recipient, sol_refund
          Pdas,         \* escrow_pda and vault_ata
          Txs,          \* Solana transaction signatures
          Reasons,      \* cancel reasons
          Envelopes,    \* the signed envelopes that may be delivered
          None          \* an absent optional field, null in the record

MsPerSec == 1000

Optional(S) == S \cup {None}

(***************************************************************************)
(* The bodies that validateSwapBody lets through.                          *)
(***************************************************************************)
Terms == [ln_receiver_peer : Peers, ln_payer_peer : Peers, btc_sats : Nat,
          deal : Deals, sol_refund_after_unix : Nat,
          terms_valid_until_unix : Optional(Nat)]

Invoice == [payment_hash_hex : Hashes, bolt11 : Bolt11s,
            amount_msat : Optional(Nat), expires_at_unix : Optional(Nat)]

Escrow == [payment_hash_hex : Hashes, escrow_pda : Pdas, deal : Deals,
           refund_after_unix : Nat, tx_sig : Txs]

LnPaid == [payment_hash_hex : Hashes]

Settled == [payment_hash_hex : Hashes, escrow_pda : Pdas, tx_sig : Txs]

(***************************************************************************)
(* hashUnsignedEnvelope covers everything but the signature and signer.    *)
(***************************************************************************)
TermsHashes == [ts : Nat, body : Terms]

TermsHash(e) == [ts |-> e.ts, body |-> e.body]

Envelope ==
       [kind : {"terms"}, signer : Peers, ts : Nat, body : Terms]
  \cup [kind : {"accept"}, signer : Peers, ts : Nat,
        body : [terms_hash : TermsHashes]]
  \cup [kind : {"ln_invoice"}, signer : Peers, ts : Nat, body : Invoice]
  \cup [kind : {"sol_escrow_created"}, signer : Peers, ts : Nat, body : Escrow]
  \cup [kind : {"ln_paid"}, signer : Peers, ts : Nat, body : LnPaid]
  \cup [kind : {"sol_claimed", "sol_refunded"}, signer : Peers, ts : Nat,
        body : Settled]
  \cup [kind : {"cancel"}, signer : Peers, ts : Nat,
        body : [reason : Optional(Reasons)]]
  \cup [kind : {"status"}, signer : Peers, ts : Nat, body : {None}]

ASSUME EnvelopesAssumption == Envelopes \subseteq Envelope

ASSUME NoneAssumption ==
  /\ None \notin Nat /\ None \notin Terms /\ None \notin TermsHashes
  /\ None \notin Invoice /\ None \notin Escrow /\ None \notin LnPaid
  /\ None \notin Settled

States == {"init", "terms", "accepted", "invoice", "escrow", "ln_paid",
           "claimed", "refunded", "canceled"}

Kinds == {"terms", "accept", "ln_invoice", "sol_escrow_created", "ln_paid",
          "sol_claimed", "sol_refunded", "cancel", "status"}

Trade == [state : States,
          terms : Optional(Terms), terms_hash : Optional(TermsHashes),
          invoice : Optional(Invoice), escrow : Optional(Escrow),
          ln_paid : Optional(LnPaid), claimed : Optional(Settled),
          refunded : Optional(Settled),
          accepted_at : Optional(Nat), canceled_reason : Optional(Reasons),
          last : Optional([kind : Kinds, ts : Nat, signer : Peers])]

VARIABLE trade

InitialTrade ==
  [state |-> "init", terms |-> None, terms_hash |-> None, invoice |-> None,
   escrow |-> None, ln_paid |-> None, claimed |-> None, refunded |-> None,
   accepted_at |-> None, canceled_reason |-> None, last |-> None]

Init == trade = [r \in Replicas |-> InitialTrade]

-----------------------------------------------------------------------------
UnixSecToMs(sec) == sec * MsPerSec

\* A deadline in unix seconds, absent or not yet passed by an envelope's ts.
NotAfter(ts, deadline) == deadline # None => ts <= UnixSecToMs(deadline)

\* An optional field of a replay must agree only when both sides carry it.
Compatible(a, b) == a # None /\ b # None => a = b

SameInvoice(prior, body) ==
  /\ prior.payment_hash_hex = body.payment_hash_hex
  /\ prior.bolt11 = body.bolt11
  /\ Compatible(prior.amount_msat, body.amount_msat)
  /\ Compatible(prior.expires_at_unix, body.expires_at_unix)

SameEscrow(prior, body) ==
  /\ prior.escrow_pda = body.escrow_pda
  /\ prior.tx_sig = body.tx_sig

\* The first body recorded stays; a replay that was let through adds nothing.
FirstOf(prior, body) == IF prior = None THEN body ELSE prior

StoreUnsigned(r, e, next) ==
  trade' = [trade EXCEPT ![r] =
              [next EXCEPT !.last = [kind |-> e.kind, ts |-> e.ts]]]

\* The record next replaces r's; every accepted envelope is noted in last.
Store(r, e, next) ==
  trade' = [trade EXCEPT ![r] =
              [next EXCEPT !.last = [kind |-> e.kind, ts |-> e.ts,
                                     signer |-> e.signer]]]

\* Before a trade is accepted, new terms replace the old ones.
TermsOpenLonger == {"init", "terms", "accepted"}

TermsOpen == {"init", "terms"}

\* The deal and the refund time an escrow must keep to.
FitsDeal(terms, body) == body.deal = terms.deal

FitsTerms(terms, body) ==
  /\ body.deal = terms.deal
  /\ body.refund_after_unix >= terms.sol_refund_after_unix

RefundEvenIfPaid == {"escrow", "ln_paid", "refunded"}

RefundStates == {"escrow", "refunded"}

NoCancelOnceClaimed == {"claimed", "refunded", "ln_paid"}

NoCancel == {"claimed", "refunded", "escrow", "ln_paid"}

-----------------------------------------------------------------------------
(***************************************************************************)
(* One action per envelope kind: the branch of applySwapEnvelope that      *)
(* accepts it.                                                             *)
(***************************************************************************)
SetTerms(r, e) ==
  LET t == trade[r] IN
  /\ e.kind = "terms"
  /\ e.signer = e.body.ln_receiver_peer
  /\ t.terms # None => e.signer = t.terms.ln_receiver_peer
  /\ t.state \in TermsOpen
  /\ Store(r, e, [t EXCEPT !.terms = e.body, !.terms_hash = TermsHash(e),
                           !.state = "terms", !.accepted_at = None,
                           !.invoice = None, !.escrow = None,
                           !.ln_paid = None, !.claimed = None,
                           !.refunded = None])

ReplayTerms(r, e) ==
  LET t == trade[r] IN
  /\ e.kind = "terms"
  /\ e.signer = e.body.ln_receiver_peer
  /\ t.terms # None => e.signer = t.terms.ln_receiver_peer
  /\ t.state \notin TermsOpen
  /\ t.terms_hash = TermsHash(e)
  /\ Store(r, e, t)

AcceptAnyTerms(t, e) ==
  e.kind = "accept" /\ t.terms # None /\ e.signer = t.terms.ln_payer_peer

AcceptMatches(t, e) ==
  /\ e.kind = "accept"
  /\ t.terms # None
  /\ e.signer = t.terms.ln_payer_peer
  /\ e.body.terms_hash = t.terms_hash

Accept(r, e) ==
  LET t == trade[r] IN
  /\ AcceptMatches(t, e)
  /\ t.state = "terms"
  /\ NotAfter(e.ts, t.terms.terms_valid_until_unix)
  /\ Store(r, e, [t EXCEPT !.state = "accepted", !.accepted_at = e.ts])

ReplayAccept(r, e) ==
  LET t == trade[r] IN
  /\ AcceptMatches(t, e)
  /\ t.state \notin {"terms", "canceled"}
  /\ Store(r, e, t)

LnInvoice(r, e) ==
  LET t == trade[r] IN
  /\ e.kind = "ln_invoice"
  /\ t.state \in {"accepted", "invoice", "escrow"}
  /\ t.terms # None
  /\ e.signer = t.terms.ln_receiver_peer
  /\ e.body.amount_msat # None => e.body.amount_msat = t.terms.btc_sats * 1000
  /\ NotAfter(e.ts, e.body.expires_at_unix)
  /\ t.invoice # None => SameInvoice(t.invoice, e.body)
  /\ Store(r, e, [t EXCEPT !.invoice = FirstOf(@, e.body),
                           !.state = IF @ = "accepted" THEN "invoice" ELSE @])

SolEscrowCreated(r, e) ==
  LET t == trade[r] IN
  /\ e.kind = "sol_escrow_created"
  /\ t.state \in {"invoice", "escrow"}
  /\ t.terms # None /\ t.invoice # None
  /\ e.signer = t.terms.ln_receiver_peer
  /\ e.body.payment_hash_hex = t.invoice.payment_hash_hex
  /\ FitsTerms(t.terms, e.body)
  /\ t.escrow # None => SameEscrow(t.escrow, e.body)
  /\ Store(r, e, [t EXCEPT !.escrow = FirstOf(@, e.body),
                           !.state = "escrow"])

LnPaidSeen(r, e) ==
  LET t == trade[r] IN
  /\ e.kind = "ln_paid"
  /\ t.state \in {"escrow", "ln_paid"}
  /\ t.terms # None /\ t.invoice # None /\ t.escrow # None
  /\ e.signer = t.terms.ln_payer_peer
  /\ e.body.payment_hash_hex = t.invoice.payment_hash_hex
  /\ e.body.payment_hash_hex = t.escrow.payment_hash_hex
  /\ NotAfter(e.ts, t.invoice.expires_at_unix)
  /\ t.ln_paid # None =>
       t.ln_paid.payment_hash_hex = e.body.payment_hash_hex
  /\ Store(r, e, [t EXCEPT !.ln_paid = FirstOf(@, e.body),
                           !.state = "ln_paid"])

NamesPda(t, e) ==
  /\ t.terms # None /\ t.escrow # None
  /\ e.body.escrow_pda = t.escrow.escrow_pda

\* SOL_CLAIMED and SOL_REFUNDED must name the escrow on record.
NamesEscrow(t, e) ==
  /\ t.terms # None /\ t.escrow # None
  /\ e.body.payment_hash_hex = t.escrow.payment_hash_hex
  /\ e.body.escrow_pda = t.escrow.escrow_pda

SolClaimed(r, e) ==
  LET t == trade[r] IN
  /\ e.kind = "sol_claimed"
  /\ t.state \in {"escrow", "ln_paid", "claimed"}
  /\ NamesEscrow(t, e)
  /\ e.signer = t.terms.ln_payer_peer
  /\ t.claimed # None => t.claimed.tx_sig = e.body.tx_sig
  /\ Store(r, e, [t EXCEPT !.claimed = FirstOf(@, e.body),
                           !.state = "claimed"])

SolRefunded(r, e) ==
  LET t == trade[r] IN
  /\ e.kind = "sol_refunded"
  /\ t.state \in RefundStates
  /\ NamesEscrow(t, e)
  /\ e.signer = t.terms.ln_receiver_peer
  /\ e.ts >= UnixSecToMs(t.escrow.refund_after_unix)
  /\ t.refunded # None => t.refunded.tx_sig = e.body.tx_sig
  /\ Store(r, e, [t EXCEPT !.refunded = FirstOf(@, e.body),
                           !.state = "refunded"])

\* Anyone on the channel may cancel; a second CANCEL keeps the first reason.
Cancel(r, e) ==
  LET t == trade[r] IN
  /\ e.kind = "cancel"
  /\ t.state \notin NoCancel
  /\ Store(r, e, IF t.state = "canceled" THEN t
                 ELSE [t EXCEPT !.state = "canceled",
                                !.canceled_reason = e.body.reason])

Status(r, e) == e.kind = "status" /\ Store(r, e, trade[r])

Deliver(r, e) ==
  \/ SetTerms(r, e) \/ ReplayTerms(r, e) \/ Accept(r, e) \/ ReplayAccept(r, e)
  \/ LnInvoice(r, e) \/ SolEscrowCreated(r, e) \/ LnPaidSeen(r, e)
  \/ SolClaimed(r, e) \/ SolRefunded(r, e) \/ Cancel(r, e) \/ Status(r, e)

Next == \E r \in Replicas, e \in Envelopes : Deliver(r, e)

vars == trade

Spec == Init /\ [][Next]_vars
-----------------------------------------------------------------------------
(***************************************************************************)
(* Properties.                                                             *)
(***************************************************************************)
\* Every replica holds a record of the shape createInitialTrade declares.
TypeOK == trade \in [Replicas -> Trade]

Bound(r) == trade[r].accepted_at # None

\* What is on record hangs together: the escrow is keyed by the invoice's
\* hash, carries the accepted deal and a refund time no earlier than agreed,
\* and a claim or refund names that very escrow.  It takes replays, late
\* invoices and replaced terms, each checked in a different branch, to break.
EvidenceChain ==
  \A r \in Replicas :
    LET t == trade[r] IN
    /\ t.escrow # None =>
         /\ Bound(r) /\ t.invoice # None
         /\ t.escrow.payment_hash_hex = t.invoice.payment_hash_hex
         /\ t.escrow.deal = t.terms.deal
         /\ t.escrow.refund_after_unix >= t.terms.sol_refund_after_unix
    /\ t.ln_paid # None =>
         /\ t.escrow # None
         /\ t.ln_paid.payment_hash_hex = t.invoice.payment_hash_hex
    /\ \A s \in {t.claimed, t.refunded} \ {None} :
         /\ t.escrow # None
         /\ s.payment_hash_hex = t.escrow.payment_hash_hex
         /\ s.escrow_pda = t.escrow.escrow_pda

\* No record ever shows both a claim and a refund, nor a refund once the
\* payer's LN_PAID is on record: the receiver would keep both sides.
ClaimXorRefund ==
  \A r \in Replicas :
    trade[r].refunded # None =>
      trade[r].claimed = None /\ trade[r].ln_paid = None

\* A trade that went CANCELED never had, and never gets, an escrow on record
\* ("Either side may cancel before escrow is created").
CanceledNeverFunded ==
  \A r \in Replicas : trade[r].state = "canceled" => trade[r].escrow = None

\* When the payer signs ACCEPT for one set of terms only, two parties that
\* consider the trade accepted hold the same terms, whichever TERMS
\* replacements each of them saw and in whatever order.
OneAcceptSigned ==
  \A a, b \in {e \in Envelopes : e.kind = "accept"} : a.body = b.body

AcceptedTermsAgree ==
  OneAcceptSigned =>
    \A r, s \in Replicas :
      Bound(r) /\ Bound(s) => trade[r].terms = trade[s].terms

\* A refund is recorded only from an envelope dated at or after the refund
\* time the payer accepted in TERMS, not merely the one the escrow carries.
RefundWaitsForTerms ==
  [][\A r \in Replicas :
       trade[r].refunded = None /\ trade'[r].refunded # None =>
         trade'[r].last.ts >=
           UnixSecToMs(trade[r].terms.sol_refund_after_unix)]_vars

\* The record implements the promise of SwapPhases: phases only move forward,
\* and the terms and the payment hash, once bound, are never exchanged.
Stage(t) ==
  CASE t.state \in {"init", "terms"} -> "open"
    [] t.state = "canceled" -> "dropped"
    [] OTHER -> t.state

AgreedIn(t) == IF t.accepted_at = None THEN None ELSE t.terms_hash

PaymentIn(t) == IF t.invoice = None THEN None ELSE t.invoice.payment_hash_hex

stageBar == [r \in Replicas |-> Stage(trade[r])]
agreedBar == [r \in Replicas |-> AgreedIn(trade[r])]
paymentBar == [r \in Replicas |-> PaymentIn(trade[r])]

Phases ==
  INSTANCE SwapPhases WITH
    Parties <- Replicas, Agreements <- TermsHashes, Payments <- Hashes,
    Nothing <- None, stage <- stageBar, agreed <- agreedBar,
    payment <- paymentBar

ImplementsPhases == Phases!Spec
=============================================================================
