-------------------------- MODULE SwapTradeProofs --------------------------
(***************************************************************************)
(* Proofs about SwapTrade for any set of replicas and any envelopes.       *)
(* Every safety property of the record follows from one inductive          *)
(* invariant, Inv: the state field tells exactly which evidence is on      *)
(* record (Backed), and the evidence on record hangs together (Chained).   *)
(***************************************************************************)
EXTENDS SwapTrade, TLAPS

\* The state field and the evidence fields of a record never drift apart.
Backed(t) ==
  /\ t.terms = None <=> t.terms_hash = None
  /\ t.terms # None => t.terms_hash.body = t.terms
  /\ t.state = "init" => t.terms = None
  /\ t.state \in {"init", "terms"} => t.accepted_at = None
  /\ t.state \in {"accepted", "invoice", "escrow", "ln_paid", "claimed",
                  "refunded"} => t.accepted_at # None
  /\ t.accepted_at # None =>
       /\ t.terms # None
       /\ \E e \in Envelopes :
            e.kind = "accept" /\ e.body.terms_hash = t.terms_hash
  /\ t.invoice # None => t.accepted_at # None
  /\ t.state = "accepted" => t.invoice = None
  /\ t.state \in {"invoice", "escrow", "ln_paid", "claimed", "refunded"} =>
       t.invoice # None
  /\ t.escrow # None <=>
       t.state \in {"escrow", "ln_paid", "claimed", "refunded"}
  /\ t.ln_paid # None => t.state \in {"ln_paid", "claimed"}
  /\ t.claimed # None <=> t.state = "claimed"
  /\ t.refunded # None <=> t.state = "refunded"

\* EvidenceChain for one record.
Chained(t) ==
  /\ t.escrow # None =>
       /\ t.escrow.payment_hash_hex = t.invoice.payment_hash_hex
       /\ t.escrow.deal = t.terms.deal
       /\ t.escrow.refund_after_unix >= t.terms.sol_refund_after_unix
  /\ t.ln_paid # None =>
       t.ln_paid.payment_hash_hex = t.invoice.payment_hash_hex
  /\ t.claimed # None =>
       /\ t.claimed.payment_hash_hex = t.escrow.payment_hash_hex
       /\ t.claimed.escrow_pda = t.escrow.escrow_pda
  /\ t.refunded # None =>
       /\ t.refunded.payment_hash_hex = t.escrow.payment_hash_hex
       /\ t.refunded.escrow_pda = t.escrow.escrow_pda

Inv == TypeOK /\ \A r \in Replicas : Backed(trade[r]) /\ Chained(trade[r])

-----------------------------------------------------------------------------
\* What the schema guarantees of an envelope, kind by kind.
LEMMA EnvelopeTyped ==
  ASSUME NEW e \in Envelopes
  PROVE  /\ e.kind \in Kinds /\ e.ts \in Nat /\ e.signer \in Peers
         /\ e.kind = "terms" => e.body \in Terms
         /\ e.kind = "accept" => e.body.terms_hash \in TermsHashes
         /\ e.kind = "ln_invoice" => e.body \in Invoice
         /\ e.kind = "sol_escrow_created" => e.body \in Escrow
         /\ e.kind = "ln_paid" => e.body \in LnPaid
         /\ e.kind \in {"sol_claimed", "sol_refunded"} => e.body \in Settled
         /\ e.kind = "cancel" => e.body.reason \in Optional(Reasons)
  BY EnvelopesAssumption DEF Envelope, Kinds

\* The record a step of r leaves behind, and that it touches no other record.
LEMMA StoreEffect ==
  ASSUME NEW r \in Replicas, NEW e \in Envelopes, NEW next \in Trade,
         TypeOK, Store(r, e, next)
  PROVE  /\ trade' = [trade EXCEPT ![r] = trade'[r]]
         /\ trade'[r] = [next EXCEPT !.last = [kind |-> e.kind, ts |-> e.ts,
                                               signer |-> e.signer]]
         /\ trade'[r] \in Trade
<1>1. trade'[r] = [next EXCEPT !.last = [kind |-> e.kind, ts |-> e.ts,
                                         signer |-> e.signer]]
      /\ trade' = [trade EXCEPT ![r] = trade'[r]]
  BY DEF Store, TypeOK
<1>2. [kind |-> e.kind, ts |-> e.ts, signer |-> e.signer]
        \in [kind : Kinds, ts : Nat, signer : Peers]
  BY EnvelopeTyped
<1> QED
  BY <1>1, <1>2 DEF Trade, Optional

\* Noting the envelope in last disturbs no other field.
LEMMA LastIsFree ==
  ASSUME NEW next \in Trade, NEW l, Backed(next), Chained(next)
  PROVE  Backed([next EXCEPT !.last = l]) /\ Chained([next EXCEPT !.last = l])
  BY DEF Trade, Backed, Chained

\* An envelope keeps the invariant when the record it stores is a good one.
LEMMA GoodStore ==
  ASSUME Inv, NEW r \in Replicas, NEW e \in Envelopes, NEW next \in Trade,
         Backed(next), Chained(next), Store(r, e, next)
  PROVE  Inv'
<1>1. /\ trade' = [trade EXCEPT ![r] = trade'[r]]
      /\ trade'[r] = [next EXCEPT !.last = [kind |-> e.kind, ts |-> e.ts,
                                            signer |-> e.signer]]
      /\ trade'[r] \in Trade
  BY StoreEffect DEF Inv
<1>2. Backed(trade'[r]) /\ Chained(trade'[r])
  BY <1>1, LastIsFree
<1>3. TypeOK'
  BY <1>1 DEF Inv, TypeOK
<1>4. ASSUME NEW s \in Replicas
      PROVE  Backed(trade'[s]) /\ Chained(trade'[s])
  <2>1. CASE s = r
    BY <1>2, <2>1
  <2>2. CASE s # r
    BY <1>1, <2>2 DEF Inv, TypeOK
  <2> QED
    BY <2>1, <2>2
<1> QED
  BY <1>3, <1>4 DEF Inv

-----------------------------------------------------------------------------
(***************************************************************************)
(* The invariant, one lemma per group of envelope kinds.                   *)
(***************************************************************************)
\* TERMS, new or replayed, keeps the invariant.
LEMMA TermsStep ==
  ASSUME Inv, NEW r \in Replicas, NEW e \in Envelopes,
         SetTerms(r, e) \/ ReplayTerms(r, e)
  PROVE  Inv'
<1>1. trade[r] \in Trade /\ Backed(trade[r]) /\ Chained(trade[r])
  BY DEF Inv, TypeOK
<1>2. CASE SetTerms(r, e)
  <2> DEFINE next == [trade[r] EXCEPT !.terms = e.body,
                        !.terms_hash = TermsHash(e), !.state = "terms",
                        !.accepted_at = None, !.invoice = None,
                        !.escrow = None, !.ln_paid = None, !.claimed = None,
                        !.refunded = None]
  <2>1. /\ e.body \in Terms /\ TermsHash(e) \in TermsHashes
        /\ TermsHash(e).body = e.body
    BY <1>2, EnvelopeTyped DEF SetTerms, TermsHash, TermsHashes
  <2>2. next \in Trade
    BY <1>1, <2>1 DEF Trade, Optional, States
  <2>3. Backed(next) /\ Chained(next)
    BY <1>1, <2>1, NoneAssumption DEF Trade, Backed, Chained
  <2>4. Store(r, e, next)
    BY <1>2 DEF SetTerms
  <2> QED
    BY <2>2, <2>3, <2>4, GoodStore
<1>3. CASE ReplayTerms(r, e)
  BY <1>1, <1>3, GoodStore DEF ReplayTerms
<1> QED
  BY <1>2, <1>3

\* ACCEPT, binding or replayed, keeps the invariant.
LEMMA AcceptStep ==
  ASSUME Inv, NEW r \in Replicas, NEW e \in Envelopes,
         Accept(r, e) \/ ReplayAccept(r, e)
  PROVE  Inv'
<1>1. trade[r] \in Trade /\ Backed(trade[r]) /\ Chained(trade[r])
  BY DEF Inv, TypeOK
<1>2. CASE Accept(r, e)
  <2> DEFINE next == [trade[r] EXCEPT !.state = "accepted",
                                      !.accepted_at = e.ts]
  <2>1. e.ts \in Nat /\ e.ts # None
    BY EnvelopeTyped, NoneAssumption
  <2>2. next \in Trade
    BY <1>1, <2>1 DEF Trade, Optional, States
  <2>3. /\ trade[r].state = "terms" /\ trade[r].terms # None
        /\ e.kind = "accept" /\ e.body.terms_hash = trade[r].terms_hash
    BY <1>2 DEF Accept, AcceptMatches
  <2>4. Backed(next) /\ Chained(next)
    BY <1>1, <2>1, <2>3 DEF Trade, Backed, Chained
  <2>5. Store(r, e, next)
    BY <1>2 DEF Accept
  <2> QED
    BY <2>2, <2>4, <2>5, GoodStore
<1>3. CASE ReplayAccept(r, e)
  BY <1>1, <1>3, GoodStore DEF ReplayAccept
<1> QED
  BY <1>2, <1>3

\* LN_INVOICE keeps the invariant, the late replay of an invoice included.
LEMMA InvoiceStep ==
  ASSUME Inv, NEW r \in Replicas, NEW e \in Envelopes, LnInvoice(r, e)
  PROVE  Inv'
<1> DEFINE t == trade[r]
           next == [t EXCEPT
                      !.invoice = FirstOf(@, e.body),
                      !.state = IF @ = "accepted" THEN "invoice" ELSE @]
<1>1. t \in Trade /\ Backed(t) /\ Chained(t)
  BY DEF Inv, TypeOK
<1>2. e.body \in Invoice /\ e.body # None
  BY EnvelopeTyped, NoneAssumption DEF LnInvoice
<1>3. t.state \in {"accepted", "invoice", "escrow"}
  BY DEF LnInvoice
<1>4. next \in Trade
  <2>1. FirstOf(t.invoice, e.body) \in Optional(Invoice)
    BY <1>1, <1>2 DEF Trade, Optional, FirstOf
  <2> QED
    BY <1>1, <2>1 DEF Trade, States
<1>5. CASE t.state = "accepted"
  <2>1. t.invoice = None /\ t.escrow = None
    BY <1>1, <1>5 DEF Backed
  <2>2. Backed(next) /\ Chained(next)
    BY <1>1, <1>2, <1>5, <2>1 DEF Trade, Backed, Chained, FirstOf
  <2> QED
    BY <1>4, <2>2, GoodStore DEF LnInvoice
<1>6. CASE t.state # "accepted"
  <2>1. t.invoice # None
    BY <1>1, <1>3, <1>6 DEF Backed
  <2>2. Backed(next) /\ Chained(next)
    BY <1>1, <1>6, <2>1 DEF Trade, Backed, Chained, FirstOf
  <2> QED
    BY <1>4, <2>2, GoodStore DEF LnInvoice
<1> QED
  BY <1>5, <1>6

\* SOL_ESCROW_CREATED keeps the invariant.
LEMMA EscrowStep ==
  ASSUME Inv, NEW r \in Replicas, NEW e \in Envelopes, SolEscrowCreated(r, e)
  PROVE  Inv'
<1> DEFINE t == trade[r]
           next == [t EXCEPT !.escrow = FirstOf(@, e.body),
                             !.state = "escrow"]
<1>1. t \in Trade /\ Backed(t) /\ Chained(t)
  BY DEF Inv, TypeOK
<1>2. e.body \in Escrow /\ e.body # None
  BY EnvelopeTyped, NoneAssumption DEF SolEscrowCreated
<1>3. /\ t.state \in {"invoice", "escrow"} /\ t.invoice # None
      /\ e.body.payment_hash_hex = t.invoice.payment_hash_hex
      /\ e.body.deal = t.terms.deal
      /\ e.body.refund_after_unix >= t.terms.sol_refund_after_unix
  BY DEF SolEscrowCreated, FitsTerms
<1>4. next \in Trade
  <2>1. FirstOf(t.escrow, e.body) \in Optional(Escrow)
    BY <1>1, <1>2 DEF Trade, Optional, FirstOf
  <2> QED
    BY <1>1, <2>1 DEF Trade, States
<1>5. Backed(next) /\ Chained(next)
  BY <1>1, <1>2, <1>3 DEF Trade, Backed, Chained, FirstOf
<1>6. Store(r, e, next)
  BY DEF SolEscrowCreated
<1> QED
  BY <1>4, <1>5, <1>6, GoodStore

\* LN_PAID keeps the invariant.
LEMMA PaidStep ==
  ASSUME Inv, NEW r \in Replicas, NEW e \in Envelopes, LnPaidSeen(r, e)
  PROVE  Inv'
<1> DEFINE t == trade[r]
           next == [t EXCEPT !.ln_paid = FirstOf(@, e.body),
                             !.state = "ln_paid"]
<1>1. t \in Trade /\ Backed(t) /\ Chained(t)
  BY DEF Inv, TypeOK
<1>2. e.body \in LnPaid /\ e.body # None
  BY EnvelopeTyped, NoneAssumption DEF LnPaidSeen
<1>3. /\ t.state \in {"escrow", "ln_paid"}
      /\ e.body.payment_hash_hex = t.invoice.payment_hash_hex
  BY DEF LnPaidSeen
<1>4. next \in Trade
  <2>1. FirstOf(t.ln_paid, e.body) \in Optional(LnPaid)
    BY <1>1, <1>2 DEF Trade, Optional, FirstOf
  <2> QED
    BY <1>1, <2>1 DEF Trade, States
<1>5. Backed(next) /\ Chained(next)
  BY <1>1, <1>2, <1>3 DEF Trade, Backed, Chained, FirstOf
<1>6. Store(r, e, next)
  BY DEF LnPaidSeen
<1> QED
  BY <1>4, <1>5, <1>6, GoodStore

\* SOL_CLAIMED and SOL_REFUNDED keep the invariant.
LEMMA SettledStep ==
  ASSUME Inv, NEW r \in Replicas, NEW e \in Envelopes,
         SolClaimed(r, e) \/ SolRefunded(r, e)
  PROVE  Inv'
<1> DEFINE t == trade[r]
<1>1. t \in Trade /\ Backed(t) /\ Chained(t)
  BY DEF Inv, TypeOK
<1>2. e.body \in Settled /\ e.body # None
  BY EnvelopeTyped, NoneAssumption DEF SolClaimed, SolRefunded
<1>3. /\ e.body.payment_hash_hex = t.escrow.payment_hash_hex
      /\ e.body.escrow_pda = t.escrow.escrow_pda
  BY DEF SolClaimed, SolRefunded, NamesEscrow
<1>4. CASE SolClaimed(r, e)
  <2> DEFINE next == [t EXCEPT !.claimed = FirstOf(@, e.body),
                               !.state = "claimed"]
  <2>1. t.state \in {"escrow", "ln_paid", "claimed"}
    BY <1>4 DEF SolClaimed
  <2>2. next \in Trade
    <3>1. FirstOf(t.claimed, e.body) \in Optional(Settled)
      BY <1>1, <1>2 DEF Trade, Optional, FirstOf
    <3> QED
      BY <1>1, <3>1 DEF Trade, States
  <2>3. Backed(next) /\ Chained(next)
    BY <1>1, <1>2, <1>3, <2>1 DEF Trade, Backed, Chained, FirstOf
  <2>4. Store(r, e, next)
    BY <1>4 DEF SolClaimed
  <2> QED
    BY <2>2, <2>3, <2>4, GoodStore
<1>5. CASE SolRefunded(r, e)
  <2> DEFINE next == [t EXCEPT !.refunded = FirstOf(@, e.body),
                               !.state = "refunded"]
  <2>1. t.state \in {"escrow", "refunded"}
    BY <1>5 DEF SolRefunded, RefundStates
  <2>2. next \in Trade
    <3>1. FirstOf(t.refunded, e.body) \in Optional(Settled)
      BY <1>1, <1>2 DEF Trade, Optional, FirstOf
    <3> QED
      BY <1>1, <3>1 DEF Trade, States
  <2>3. Backed(next) /\ Chained(next)
    BY <1>1, <1>2, <1>3, <2>1 DEF Trade, Backed, Chained, FirstOf
  <2>4. Store(r, e, next)
    BY <1>5 DEF SolRefunded
  <2> QED
    BY <2>2, <2>3, <2>4, GoodStore
<1> QED
  BY <1>4, <1>5

\* CANCEL and STATUS keep the invariant.
LEMMA CancelStep ==
  ASSUME Inv, NEW r \in Replicas, NEW e \in Envelopes,
         Cancel(r, e) \/ Status(r, e)
  PROVE  Inv'
<1> DEFINE t == trade[r]
           next == [t EXCEPT !.state = "canceled",
                             !.canceled_reason = e.body.reason]
<1>1. t \in Trade /\ Backed(t) /\ Chained(t)
  BY DEF Inv, TypeOK
<1>2. CASE Cancel(r, e) /\ t.state # "canceled"
  <2>1. e.body.reason \in Optional(Reasons)
    BY <1>2, EnvelopeTyped DEF Cancel
  <2>2. next \in Trade
    BY <1>1, <2>1 DEF Trade, States
  <2>3. t.state \in {"init", "terms", "accepted", "invoice"}
    BY <1>1, <1>2 DEF Cancel, NoCancel, Trade, States
  <2>4. Backed(next) /\ Chained(next)
    BY <1>1, <2>3 DEF Trade, Backed, Chained
  <2> QED
    BY <1>2, <2>2, <2>4, GoodStore DEF Cancel
<1>3. CASE Status(r, e) \/ (Cancel(r, e) /\ t.state = "canceled")
  BY <1>1, <1>3, GoodStore DEF Cancel, Status
<1> QED
  BY <1>2, <1>3

\* Inv is inductive.
LEMMA InvInductive == Spec => []Inv
<1>1. Init => Inv
  BY DEF Init, Inv, TypeOK, InitialTrade, Trade, States, Optional, Backed,
         Chained
<1>2. Inv /\ [Next]_vars => Inv'
  <2> SUFFICES ASSUME Inv, [Next]_vars PROVE Inv'
    OBVIOUS
  <2>1. CASE Next
    <3>1. PICK r \in Replicas, e \in Envelopes : Deliver(r, e)
      BY <2>1 DEF Next
    <3> QED
      BY <3>1, TermsStep, AcceptStep, InvoiceStep, EscrowStep, PaidStep,
         SettledStep, CancelStep DEF Deliver
  <2>2. CASE UNCHANGED vars
    BY <2>2 DEF vars, Inv, TypeOK
  <2> QED
    BY <2>1, <2>2
<1> QED
  BY <1>1, <1>2, PTL DEF Spec

-----------------------------------------------------------------------------
(***************************************************************************)
(* The properties the runs check, for every value of the constants.        *)
(***************************************************************************)
\* Every record keeps the shape createInitialTrade declares.
THEOREM TypeCorrect == Spec => []TypeOK
  BY InvInductive, PTL DEF Inv

\* The evidence on every record hangs together, whatever is delivered.
THEOREM EvidenceChained == Spec => []EvidenceChain
<1>1. Inv => EvidenceChain
  <2> SUFFICES ASSUME Inv, NEW r \in Replicas
               PROVE  LET t == trade[r] IN
                      /\ t.escrow # None =>
                           /\ Bound(r) /\ t.invoice # None
                           /\ t.escrow.payment_hash_hex =
                                t.invoice.payment_hash_hex
                           /\ t.escrow.deal = t.terms.deal
                           /\ t.escrow.refund_after_unix >=
                                t.terms.sol_refund_after_unix
                      /\ t.ln_paid # None =>
                           /\ t.escrow # None
                           /\ t.ln_paid.payment_hash_hex =
                                t.invoice.payment_hash_hex
                      /\ \A s \in {t.claimed, t.refunded} \ {None} :
                           /\ t.escrow # None
                           /\ s.payment_hash_hex = t.escrow.payment_hash_hex
                           /\ s.escrow_pda = t.escrow.escrow_pda
    BY DEF EvidenceChain
  <2>1. Backed(trade[r]) /\ Chained(trade[r])
    BY DEF Inv
  <2> QED
    BY <2>1 DEF Backed, Chained, Bound
<1> QED
  BY InvInductive, <1>1, PTL

\* No record shows a refund together with a claim or a payment.
THEOREM NeverClaimAndRefund == Spec => []ClaimXorRefund
<1>1. Inv => ClaimXorRefund
  BY DEF Inv, Backed, ClaimXorRefund
<1> QED
  BY InvInductive, <1>1, PTL

\* A canceled record carries no escrow.
THEOREM CanceledUnfunded == Spec => []CanceledNeverFunded
<1>1. Inv => CanceledNeverFunded
  BY DEF Inv, Backed, CanceledNeverFunded
<1> QED
  BY InvInductive, <1>1, PTL

\* One signed ACCEPT binds every party that is bound to the same terms.
THEOREM BoundPartiesAgree == Spec => []AcceptedTermsAgree
<1>1. Inv => AcceptedTermsAgree
  <2> SUFFICES ASSUME Inv, OneAcceptSigned,
                      NEW r \in Replicas, NEW s \in Replicas,
                      Bound(r), Bound(s)
               PROVE  trade[r].terms = trade[s].terms
    BY DEF AcceptedTermsAgree
  <2>1. Backed(trade[r]) /\ Backed(trade[s])
    BY DEF Inv
  <2>2. PICK d \in Envelopes :
          d.kind = "accept" /\ d.body.terms_hash = trade[r].terms_hash
    BY <2>1 DEF Backed, Bound
  <2>3. PICK e \in Envelopes :
          e.kind = "accept" /\ e.body.terms_hash = trade[s].terms_hash
    BY <2>1 DEF Backed, Bound
  <2>4. trade[r].terms_hash = trade[s].terms_hash
    BY <2>2, <2>3 DEF OneAcceptSigned
  <2> QED
    BY <2>1, <2>4 DEF Backed, Bound
<1> QED
  BY InvInductive, <1>1, PTL

\* A refund enters a record only once the agreed refund time has come.
THEOREM RefundsWait == Spec => RefundWaitsForTerms
<1> DEFINE Waits(r) == trade[r].refunded = None /\ trade'[r].refunded # None =>
                         trade'[r].last.ts >=
                           UnixSecToMs(trade[r].terms.sol_refund_after_unix)
<1>1. Inv /\ [Next]_vars => [\A r \in Replicas : Waits(r)]_vars
  <2> SUFFICES ASSUME Inv, Next, NEW s \in Replicas PROVE Waits(s)
    BY DEF vars
  <2>1. PICK r \in Replicas, e \in Envelopes : Deliver(r, e)
    BY DEF Next
  <2>2. CASE s = r /\ SolRefunded(r, e)
    <3> DEFINE t == trade[r]
               next == [t EXCEPT !.refunded = FirstOf(@, e.body),
                                 !.state = "refunded"]
    <3>1. t \in Trade /\ Backed(t) /\ Chained(t)
      BY DEF Inv, TypeOK
    <3>2. t.escrow # None /\ t.terms # None
      BY <2>2 DEF SolRefunded, NamesEscrow
    <3>3. e.ts \in Nat /\ e.ts >= UnixSecToMs(t.escrow.refund_after_unix)
      BY <2>2, EnvelopeTyped DEF SolRefunded
    <3>4. /\ t.escrow.refund_after_unix \in Nat
          /\ t.terms.sol_refund_after_unix \in Nat
      BY <3>1, <3>2 DEF Trade, Optional, Escrow, Terms
    <3>5. t.escrow.refund_after_unix >= t.terms.sol_refund_after_unix
      BY <3>1, <3>2 DEF Chained
    <3>6. e.ts >= UnixSecToMs(t.terms.sol_refund_after_unix)
      BY <3>3, <3>4, <3>5 DEF UnixSecToMs, MsPerSec
    <3>7. trade'[r].last.ts = e.ts
      BY <2>2 DEF SolRefunded, Store, Inv, TypeOK, Trade
    <3> QED
      BY <2>2, <3>6, <3>7
  <2>3. CASE s # r
    BY <2>1, <2>3 DEF Deliver, SetTerms, ReplayTerms, Accept, ReplayAccept,
       LnInvoice, SolEscrowCreated, LnPaidSeen, SolClaimed, SolRefunded,
       Cancel, Status, Store, Inv, TypeOK
  <2>4. CASE s = r /\ ~SolRefunded(r, e)
    <3> DEFINE Kept == \/ trade'[r].refunded = None
                       \/ trade'[r].refunded = trade[r].refunded
    <3>1. ASSUME SetTerms(r, e) PROVE Kept
      BY <3>1 DEF SetTerms, Store, Inv, TypeOK, Trade
    <3>2. ASSUME ReplayTerms(r, e) \/ ReplayAccept(r, e) \/ Status(r, e)
          PROVE  Kept
      BY <3>2 DEF ReplayTerms, ReplayAccept, Status, Store, Inv, TypeOK, Trade
    <3>3. ASSUME Accept(r, e) PROVE Kept
      BY <3>3 DEF Accept, Store, Inv, TypeOK, Trade
    <3>4. ASSUME LnInvoice(r, e) PROVE Kept
      BY <3>4 DEF LnInvoice, Store, Inv, TypeOK, Trade
    <3>5. ASSUME SolEscrowCreated(r, e) PROVE Kept
      BY <3>5 DEF SolEscrowCreated, Store, Inv, TypeOK, Trade
    <3>6. ASSUME LnPaidSeen(r, e) PROVE Kept
      BY <3>6 DEF LnPaidSeen, Store, Inv, TypeOK, Trade
    <3>7. ASSUME SolClaimed(r, e) PROVE Kept
      BY <3>7 DEF SolClaimed, Store, Inv, TypeOK, Trade
    <3>8. ASSUME Cancel(r, e) PROVE Kept
      BY <3>8 DEF Cancel, Store, Inv, TypeOK, Trade
    <3>9. Kept
      BY <2>1, <2>4, <3>1, <3>2, <3>3, <3>4, <3>5, <3>6, <3>7, <3>8
         DEF Deliver
    <3> QED
      BY <2>4, <3>9
  <2> QED
    BY <2>2, <2>3, <2>4
<1> QED
  BY InvInductive, <1>1, PTL DEF Spec, RefundWaitsForTerms

-----------------------------------------------------------------------------
(***************************************************************************)
(* SwapTrade implements SwapPhases.                                        *)
(***************************************************************************)
\* Storing next for r changes r's image under the refinement mapping, and
\* no other replica's.
LEMMA StoreMapped ==
  ASSUME Inv, NEW r \in Replicas, NEW e \in Envelopes, NEW next \in Trade,
         Store(r, e, next)
  PROVE  /\ stageBar' = [stageBar EXCEPT ![r] = Stage(next)]
         /\ agreedBar' = [agreedBar EXCEPT ![r] = AgreedIn(next)]
         /\ paymentBar' = [paymentBar EXCEPT ![r] = PaymentIn(next)]
<1>1. /\ trade' = [trade EXCEPT ![r] = trade'[r]]
      /\ trade'[r] = [next EXCEPT !.last = [kind |-> e.kind, ts |-> e.ts,
                                            signer |-> e.signer]]
  BY StoreEffect DEF Inv
<1>2. /\ Stage(trade'[r]) = Stage(next)
      /\ AgreedIn(trade'[r]) = AgreedIn(next)
      /\ PaymentIn(trade'[r]) = PaymentIn(next)
  BY <1>1 DEF Trade, Stage, AgreedIn, PaymentIn
<1>3. \A s \in Replicas : s # r => trade'[s] = trade[s]
  BY <1>1 DEF Inv, TypeOK
<1>4. stageBar' = [stageBar EXCEPT ![r] = Stage(next)]
  BY <1>2, <1>3 DEF stageBar
<1>5. agreedBar' = [agreedBar EXCEPT ![r] = AgreedIn(next)]
  BY <1>2, <1>3 DEF agreedBar
<1>6. paymentBar' = [paymentBar EXCEPT ![r] = PaymentIn(next)]
  BY <1>2, <1>3 DEF paymentBar
<1> QED
  BY <1>4, <1>5, <1>6

\* A step that keeps the agreement and the hash moves only the stage.
LEMMA MoveMapped ==
  ASSUME Inv, NEW r \in Replicas, NEW e \in Envelopes, NEW next \in Trade,
         Store(r, e, next),
         AgreedIn(next) = AgreedIn(trade[r]),
         PaymentIn(next) = PaymentIn(trade[r])
  PROVE  /\ stageBar[r] = Stage(trade[r])
         /\ stageBar' = [stageBar EXCEPT ![r] = Stage(next)]
         /\ agreedBar' = agreedBar
         /\ paymentBar' = paymentBar
<1>1. /\ stageBar' = [stageBar EXCEPT ![r] = Stage(next)]
      /\ agreedBar' = [agreedBar EXCEPT ![r] = AgreedIn(next)]
      /\ paymentBar' = [paymentBar EXCEPT ![r] = PaymentIn(next)]
  BY StoreMapped
<1>2. stageBar[r] = Stage(trade[r])
  BY DEF stageBar
<1>3. agreedBar' = agreedBar
  BY <1>1 DEF agreedBar
<1>4. paymentBar' = paymentBar
  BY <1>1 DEF paymentBar
<1> QED
  BY <1>1, <1>2, <1>3, <1>4

\* A record whose image does not change makes the step a stutter.
LEMMA StutterMapped ==
  ASSUME Inv, NEW r \in Replicas, NEW e \in Envelopes, NEW next \in Trade,
         Store(r, e, next), Stage(next) = Stage(trade[r]),
         AgreedIn(next) = AgreedIn(trade[r]),
         PaymentIn(next) = PaymentIn(trade[r])
  PROVE  UNCHANGED <<stageBar, agreedBar, paymentBar>>
<1>1. /\ stageBar' = [stageBar EXCEPT ![r] = Stage(next)]
      /\ agreedBar' = agreedBar /\ paymentBar' = paymentBar
  BY MoveMapped
<1>2. stageBar' = stageBar
  BY <1>1 DEF stageBar
<1> QED
  BY <1>1, <1>2

\* Each envelope moves its replica along one edge of SwapPhases, or none.
LEMMA StepMapped ==
  ASSUME Inv, NEW r \in Replicas, NEW e \in Envelopes, Deliver(r, e)
  PROVE  Phases!Next \/ UNCHANGED Phases!vars
<1> DEFINE t == trade[r]
           Stutter == UNCHANGED <<stageBar, agreedBar, paymentBar>>
<1>1. t \in Trade /\ Backed(t)
  BY DEF Inv, TypeOK
<1>2. /\ stageBar[r] = Stage(t) /\ agreedBar[r] = AgreedIn(t)
      /\ paymentBar[r] = PaymentIn(t)
  BY DEF stageBar, agreedBar, paymentBar
<1>3. ASSUME SetTerms(r, e) PROVE Stutter
  <2> DEFINE next == [t EXCEPT !.terms = e.body,
                        !.terms_hash = TermsHash(e), !.state = "terms",
                        !.accepted_at = None, !.invoice = None,
                        !.escrow = None, !.ln_paid = None, !.claimed = None,
                        !.refunded = None]
  <2>1. /\ e.body \in Terms /\ TermsHash(e) \in TermsHashes
    BY <1>3, EnvelopeTyped DEF SetTerms, TermsHash, TermsHashes
  <2>2. next \in Trade
    BY <1>1, <2>1 DEF Trade, Optional, States
  <2>3. t.state \in {"init", "terms"}
    BY <1>3 DEF SetTerms, TermsOpen
  <2>4. t.accepted_at = None /\ t.invoice = None
    BY <1>1, <2>3 DEF Backed
  <2>5. /\ Stage(next) = Stage(t) /\ AgreedIn(next) = AgreedIn(t)
        /\ PaymentIn(next) = PaymentIn(t)
    BY <1>1, <2>3, <2>4 DEF Trade, Stage, AgreedIn, PaymentIn
  <2>6. Store(r, e, next)
    BY <1>3 DEF SetTerms
  <2> QED
    BY <2>2, <2>5, <2>6, StutterMapped
<1>4. ASSUME ReplayTerms(r, e) \/ ReplayAccept(r, e) \/ Status(r, e)
      PROVE  Stutter
  BY <1>1, <1>4, StutterMapped DEF ReplayTerms, ReplayAccept, Status
<1>5. ASSUME Accept(r, e) PROVE Phases!Agree(r)
  <2> DEFINE next == [t EXCEPT !.state = "accepted", !.accepted_at = e.ts]
  <2>1. e.ts \in Nat /\ e.ts # None
    BY EnvelopeTyped, NoneAssumption
  <2>2. next \in Trade
    BY <1>1, <2>1 DEF Trade, Optional, States
  <2>3. t.state = "terms" /\ t.terms_hash \in TermsHashes
    <3>1. e.body.terms_hash \in TermsHashes
      BY <1>5, EnvelopeTyped DEF Accept, AcceptMatches
    <3> QED
      BY <1>5, <3>1 DEF Accept, AcceptMatches
  <2>4. /\ Stage(t) = "open" /\ Stage(next) = "accepted"
        /\ AgreedIn(next) = t.terms_hash /\ PaymentIn(next) = PaymentIn(t)
    BY <1>1, <2>1, <2>3 DEF Trade, Stage, AgreedIn, PaymentIn
  <2>5. Store(r, e, next)
    BY <1>5 DEF Accept
  <2>6. /\ stageBar' = [stageBar EXCEPT ![r] = "accepted"]
        /\ agreedBar' = [agreedBar EXCEPT ![r] = t.terms_hash]
        /\ UNCHANGED paymentBar
    <3>1. /\ stageBar' = [stageBar EXCEPT ![r] = Stage(next)]
          /\ agreedBar' = [agreedBar EXCEPT ![r] = AgreedIn(next)]
          /\ paymentBar' = [paymentBar EXCEPT ![r] = PaymentIn(next)]
      BY <2>2, <2>5, StoreMapped
    <3>2. paymentBar' = paymentBar
      BY <1>2, <2>4, <3>1 DEF paymentBar
    <3> QED
      BY <2>4, <3>1, <3>2
  <2>7. agreedBar'[r] = t.terms_hash
    BY <2>6 DEF agreedBar
  <2> QED
    BY <1>2, <2>3, <2>4, <2>6, <2>7
       DEF Phases!Agree, Phases!Move, Phases!Settle
<1>6. ASSUME LnInvoice(r, e) PROVE Phases!Bill(r) \/ Stutter
  <2> DEFINE next == [t EXCEPT
                        !.invoice = FirstOf(@, e.body),
                        !.state = IF @ = "accepted" THEN "invoice" ELSE @]
  <2>1. e.body \in Invoice /\ e.body # None
    BY <1>6, EnvelopeTyped, NoneAssumption DEF LnInvoice
  <2>2. FirstOf(t.invoice, e.body) \in Optional(Invoice)
    BY <1>1, <2>1 DEF Trade, Optional, FirstOf
  <2>3. next \in Trade
    BY <1>1, <2>2 DEF Trade, States
  <2>4. Store(r, e, next)
    BY <1>6 DEF LnInvoice
  <2>5. CASE t.state = "accepted"
    <3>1. t.invoice = None
      BY <1>1, <2>5 DEF Backed
    <3>2. next.invoice = e.body /\ next.state = "invoice"
          /\ next.accepted_at = t.accepted_at /\ next.terms_hash = t.terms_hash
      BY <1>1, <2>5, <3>1 DEF Trade, FirstOf
    <3>3. /\ Stage(t) = "accepted" /\ Stage(next) = "invoice"
          /\ AgreedIn(next) = AgreedIn(t)
      BY <2>5, <3>2 DEF Stage, AgreedIn
    <3>4. /\ PaymentIn(next) = e.body.payment_hash_hex
          /\ e.body.payment_hash_hex \in Hashes
      BY <2>1, <3>2 DEF PaymentIn, Invoice
    <3>5. /\ stageBar' = [stageBar EXCEPT ![r] = "invoice"]
          /\ paymentBar' = [paymentBar EXCEPT ![r] = e.body.payment_hash_hex]
          /\ UNCHANGED agreedBar
      <4>1. /\ stageBar' = [stageBar EXCEPT ![r] = Stage(next)]
            /\ agreedBar' = [agreedBar EXCEPT ![r] = AgreedIn(next)]
            /\ paymentBar' = [paymentBar EXCEPT ![r] = PaymentIn(next)]
        BY <2>3, <2>4, StoreMapped
      <4>2. agreedBar' = agreedBar
        BY <1>2, <3>3, <4>1 DEF agreedBar
      <4> QED
        BY <3>3, <3>4, <4>1, <4>2
    <3>6. paymentBar'[r] = e.body.payment_hash_hex
      BY <3>5 DEF paymentBar
    <3> QED
      BY <1>2, <3>3, <3>4, <3>5, <3>6
         DEF Phases!Bill, Phases!Move, Phases!Settle
  <2>6. CASE t.state # "accepted"
    <3>1. t.invoice # None
      BY <1>1, <1>6, <2>6 DEF Backed, LnInvoice
    <3>2. /\ Stage(next) = Stage(t) /\ AgreedIn(next) = AgreedIn(t)
          /\ PaymentIn(next) = PaymentIn(t)
      BY <1>1, <2>6, <3>1 DEF Trade, Stage, AgreedIn, PaymentIn, FirstOf
    <3> QED
      BY <2>3, <2>4, <3>2, StutterMapped
  <2> QED
    BY <2>5, <2>6
<1>7. ASSUME SolEscrowCreated(r, e) PROVE Phases!Fund(r) \/ Stutter
  <2> DEFINE next == [t EXCEPT !.escrow = FirstOf(@, e.body),
                               !.state = "escrow"]
  <2>1. e.body \in Escrow
    BY <1>7, EnvelopeTyped DEF SolEscrowCreated
  <2>2. FirstOf(t.escrow, e.body) \in Optional(Escrow)
    BY <1>1, <2>1 DEF Trade, Optional, FirstOf
  <2>3. next \in Trade
    BY <1>1, <2>2 DEF Trade, States
  <2>4. Store(r, e, next)
    BY <1>7 DEF SolEscrowCreated
  <2>5. /\ Stage(next) = "escrow" /\ AgreedIn(next) = AgreedIn(t)
        /\ PaymentIn(next) = PaymentIn(t)
    BY <1>1 DEF Trade, Stage, AgreedIn, PaymentIn
  <2>6. CASE t.state \in {"invoice"}
    <3>1. Stage(t) \in {"invoice"}
      BY <2>6 DEF Stage
    <3>2. /\ stageBar[r] = Stage(t)
          /\ stageBar' = [stageBar EXCEPT ![r] = "escrow"]
          /\ UNCHANGED <<agreedBar, paymentBar>>
      BY <2>3, <2>4, <2>5, MoveMapped
    <3> QED
      BY <3>1, <3>2 DEF Phases!Fund, Phases!Move
  <2>7. CASE t.state = "escrow"
    BY <2>3, <2>4, <2>5, <2>7, StutterMapped DEF Stage
  <2> QED
    BY <1>7, <2>6, <2>7 DEF SolEscrowCreated
<1>8. ASSUME LnPaidSeen(r, e) PROVE Phases!Pay(r) \/ Stutter
  <2> DEFINE next == [t EXCEPT !.ln_paid = FirstOf(@, e.body),
                               !.state = "ln_paid"]
  <2>1. e.body \in LnPaid
    BY <1>8, EnvelopeTyped DEF LnPaidSeen
  <2>2. FirstOf(t.ln_paid, e.body) \in Optional(LnPaid)
    BY <1>1, <2>1 DEF Trade, Optional, FirstOf
  <2>3. next \in Trade
    BY <1>1, <2>2 DEF Trade, States
  <2>4. Store(r, e, next)
    BY <1>8 DEF LnPaidSeen
  <2>5. /\ Stage(next) = "ln_paid" /\ AgreedIn(next) = AgreedIn(t)
        /\ PaymentIn(next) = PaymentIn(t)
    BY <1>1 DEF Trade, Stage, AgreedIn, PaymentIn
  <2>6. CASE t.state \in {"escrow"}
    <3>1. Stage(t) \in {"escrow"}
      BY <2>6 DEF Stage
    <3>2. /\ stageBar[r] = Stage(t)
          /\ stageBar' = [stageBar EXCEPT ![r] = "ln_paid"]
          /\ UNCHANGED <<agreedBar, paymentBar>>
      BY <2>3, <2>4, <2>5, MoveMapped
    <3> QED
      BY <3>1, <3>2 DEF Phases!Pay, Phases!Move
  <2>7. CASE t.state = "ln_paid"
    BY <2>3, <2>4, <2>5, <2>7, StutterMapped DEF Stage
  <2> QED
    BY <1>8, <2>6, <2>7 DEF LnPaidSeen
<1>9. ASSUME SolClaimed(r, e) PROVE Phases!Claim(r) \/ Stutter
  <2> DEFINE next == [t EXCEPT !.claimed = FirstOf(@, e.body),
                               !.state = "claimed"]
  <2>1. e.body \in Settled
    BY <1>9, EnvelopeTyped DEF SolClaimed
  <2>2. FirstOf(t.claimed, e.body) \in Optional(Settled)
    BY <1>1, <2>1 DEF Trade, Optional, FirstOf
  <2>3. next \in Trade
    BY <1>1, <2>2 DEF Trade, States
  <2>4. Store(r, e, next)
    BY <1>9 DEF SolClaimed
  <2>5. /\ Stage(next) = "claimed" /\ AgreedIn(next) = AgreedIn(t)
        /\ PaymentIn(next) = PaymentIn(t)
    BY <1>1 DEF Trade, Stage, AgreedIn, PaymentIn
  <2>6. CASE t.state \in {"escrow", "ln_paid"}
    <3>1. Stage(t) \in {"escrow", "ln_paid"}
      BY <2>6 DEF Stage
    <3>2. /\ stageBar[r] = Stage(t)
          /\ stageBar' = [stageBar EXCEPT ![r] = "claimed"]
          /\ UNCHANGED <<agreedBar, paymentBar>>
      BY <2>3, <2>4, <2>5, MoveMapped
    <3> QED
      BY <3>1, <3>2 DEF Phases!Claim, Phases!Move
  <2>7. CASE t.state = "claimed"
    BY <2>3, <2>4, <2>5, <2>7, StutterMapped DEF Stage
  <2> QED
    BY <1>9, <2>6, <2>7 DEF SolClaimed
<1>10. ASSUME SolRefunded(r, e) PROVE Phases!Refund(r) \/ Stutter
  <2> DEFINE next == [t EXCEPT !.refunded = FirstOf(@, e.body),
                               !.state = "refunded"]
  <2>1. e.body \in Settled
    BY <1>10, EnvelopeTyped DEF SolRefunded
  <2>2. FirstOf(t.refunded, e.body) \in Optional(Settled)
    BY <1>1, <2>1 DEF Trade, Optional, FirstOf
  <2>3. next \in Trade
    BY <1>1, <2>2 DEF Trade, States
  <2>4. Store(r, e, next)
    BY <1>10 DEF SolRefunded
  <2>5. /\ Stage(next) = "refunded" /\ AgreedIn(next) = AgreedIn(t)
        /\ PaymentIn(next) = PaymentIn(t)
    BY <1>1 DEF Trade, Stage, AgreedIn, PaymentIn
  <2>6. CASE t.state \in {"escrow"}
    <3>1. Stage(t) \in {"escrow"}
      BY <2>6 DEF Stage
    <3>2. /\ stageBar[r] = Stage(t)
          /\ stageBar' = [stageBar EXCEPT ![r] = "refunded"]
          /\ UNCHANGED <<agreedBar, paymentBar>>
      BY <2>3, <2>4, <2>5, MoveMapped
    <3> QED
      BY <3>1, <3>2 DEF Phases!Refund, Phases!Move
  <2>7. CASE t.state = "refunded"
    BY <2>3, <2>4, <2>5, <2>7, StutterMapped DEF Stage
  <2> QED
    BY <1>10, <2>6, <2>7 DEF SolRefunded, RefundStates
<1>11. ASSUME Cancel(r, e) PROVE Phases!Drop(r) \/ Stutter
  <2> DEFINE next == [t EXCEPT !.state = "canceled",
                               !.canceled_reason = e.body.reason]
  <2>1. CASE t.state = "canceled"
    BY <1>1, <1>11, <2>1, StutterMapped DEF Cancel
  <2>2. CASE t.state # "canceled"
    <3>1. next \in Trade
      BY <1>1, <1>11, EnvelopeTyped DEF Cancel, Trade, States
    <3>2. Store(r, e, next)
      BY <1>11, <2>2 DEF Cancel
    <3>3. /\ Stage(t) \in {"open", "accepted", "invoice"}
          /\ Stage(next) = "dropped" /\ AgreedIn(next) = AgreedIn(t)
          /\ PaymentIn(next) = PaymentIn(t)
      BY <1>1, <1>11, <2>2
         DEF Cancel, NoCancel, Trade, States, Stage, AgreedIn, PaymentIn
    <3>4. /\ stageBar[r] = Stage(t)
          /\ stageBar' = [stageBar EXCEPT ![r] = "dropped"]
          /\ UNCHANGED <<agreedBar, paymentBar>>
      BY <3>1, <3>2, <3>3, MoveMapped
    <3> QED
      BY <3>3, <3>4 DEF Phases!Drop, Phases!Move
  <2> QED
    BY <2>1, <2>2
<1>12. \/ \E p \in Replicas :
            \/ Phases!Agree(p) \/ Phases!Bill(p) \/ Phases!Fund(p)
            \/ Phases!Pay(p) \/ Phases!Claim(p) \/ Phases!Refund(p)
            \/ Phases!Drop(p)
       \/ Stutter
  BY <1>3, <1>4, <1>5, <1>6, <1>7, <1>8, <1>9, <1>10, <1>11 DEF Deliver
<1> QED
  BY <1>12 DEF Phases!Next, Phases!vars

\* Phases only move forward; the terms and the hash, once bound, stay.
THEOREM RefinesPhases == Spec => ImplementsPhases
<1>1. Init => Phases!Init
  BY DEF Init, InitialTrade, Phases!Init, stageBar, agreedBar, paymentBar,
         Stage, AgreedIn, PaymentIn
<1>2. Inv /\ [Next]_vars => [Phases!Next]_(Phases!vars)
  <2>1. ASSUME Inv, Next PROVE Phases!Next \/ UNCHANGED Phases!vars
    BY <2>1, StepMapped DEF Next
  <2>2. ASSUME UNCHANGED vars PROVE UNCHANGED Phases!vars
    BY <2>2 DEF vars, Phases!vars, stageBar, agreedBar, paymentBar
  <2> QED
    BY <2>1, <2>2
<1> QED
  BY InvInductive, <1>1, <1>2, PTL DEF Spec, ImplementsPhases, Phases!Spec
=============================================================================
