--------------------------- MODULE OneInvoiceProofs ---------------------------
(***************************************************************************)
(* What settlement keeps as long as the maker issues one invoice per       *)
(* trade.  The receipts row of a trade holds one hash and a precheck       *)
(* status names none, so a second invoice breaks MakerCanRefund and        *)
(* EscrowNeedsPrecheck (the runs refund_after_retry and                    *)
(* precheck_per_invoice).  With one invoice they hold, for every number of *)
(* faults, timeouts and crashes; and a worker whose stages are not retried *)
(* (stage_retry_max = 0) issues one invoice only.                          *)
(***************************************************************************)
EXTENDS SettlementProofs

\* The maker's LN node has issued at most one invoice for the trade.
OneIssued == \A g, h \in Hashes : Issued(g) /\ Issued(h) => g = h

\* With one invoice, facts about some hash are facts about the hash at hand.
LEMMA WithOneInvoice ==
  ASSUME GInv, OneIssued
  PROVE  MakerCanRefund /\ EscrowNeedsPrecheck /\ EnvelopesBacked
<1>0. WorldTyped /\ ChainOK /\ RoutedOK /\ RcptOK /\ NetOK
  BY Types DEF GInv, Facts
<1>1. MakerCanRefund
  BY <1>0 DEF MakerCanRefund, OneIssued, ChainOK, RcptOK, Issued
<1>2. EscrowNeedsPrecheck
  BY <1>0 DEF EscrowNeedsPrecheck, OneIssued, ChainOK, RoutedOK, Issued
<1>3. EnvelopesBacked
  <2>1. ASSUME NEW m \in net PROVE m.kind = "sol_escrow_created" => chain[m.hash] # "none"
    BY <1>0 DEF NetOK, EnvOK, Deposited
  <2>2. ASSUME NEW m \in net, m.kind = "ln_paid"
        PROVE  ln[m.hash] = "paid" /\ rcpt["taker"].preimage = m.hash
    BY <1>0, <2>2 DEF NetOK, EnvOK, RcptOK, Paid, OneIssued, Issued
  <2>3. ASSUME NEW m \in net PROVE m.kind = "sol_claimed" => chain[m.hash] = "claimed"
    BY <1>0 DEF NetOK, EnvOK
  <2> QED
    BY <2>1, <2>2, <2>3 DEF EnvelopesBacked
<1> QED
  BY <1>1, <1>2, <1>3

\* OneInvoiceEnough: whatever the constants, a state in which one invoice has
\* been issued is one in which the receipts of the maker name the hash of its
\* deposit, USDT is locked only under a prechecked hash, and no envelope is
\* ahead of what it reports.
THEOREM OneInvoiceEnough ==
  Spec => [](OneIssued => MakerCanRefund /\ EscrowNeedsPrecheck /\ EnvelopesBacked)
BY Always, WithOneInvoice, PTL

-----------------------------------------------------------------------------
(* A worker that does not retry issues one invoice *)

InvoiceCall(c) == c.tool = "ln_invoice"

\* The maker's worker runs the invoice stage, has run it or will not run it.
WorkSpent ==
  \/ "ln_invoice" \in done["maker"] \/ aborted["maker"]
  \/ awaited["maker"] = "ln_invoice"

\* ... or it has lost its log in a crash, and TERMS do not come again.
InvoiceSpent == WorkSpent \/ ~Saw(log["maker"], "agreed")

\* A stage that runs has been counted.
Tried == \A p \in Peers, s \in Tools \ {"cancel"} : awaited[p] = s => tries[p][s] > 0

Single ==
  /\ Tried
  /\ \A c, d \in calls : InvoiceCall(c) /\ InvoiceCall(d) => c = d
  /\ \A c \in calls : InvoiceCall(c) /\ c.pc = "create" => \A h \in Hashes : ~Issued(h)
  /\ (\E c \in calls : InvoiceCall(c)) \/ (\E h \in Hashes : Issued(h)) => InvoiceSpent
  /\ OneIssued

\* FailureSpends: a stage that fails without retries is not run again.
LEMMA FailureSpends ==
  ASSUME StageRetryMax = 0, WorkTyped, Tried, NEW p \in Peers, NEW s \in Tools, NEW rest,
         s = awaited[p], StageFailed(p, s, rest), UNCHANGED tries
  PROVE  Tried' /\ (WorkSpent => WorkSpent')
<1>1. "maker" \in Peers /\ "cancel" \in Tools /\ "none" \notin Tools
  BY DEF Peers, Tools, MakerStages, TakerStages
<1>2. awaited' = [awaited EXCEPT ![p] = "none"] \/ awaited' = [awaited EXCEPT ![p] = "cancel"]
  BY DEF StageFailed, RetryOrAbort, Abort
<1>3. Tried'
  BY <1>1, <1>2 DEF Tried, WorkTyped
<1>4. \/ aborted' = [aborted EXCEPT ![p] = TRUE]
      \/ s # "ln_invoice" /\ UNCHANGED aborted
  <2>1. tries[p][s] \in Nat /\ (s # "cancel" => tries[p][s] > 0)
    BY DEF Tried, WorkTyped
  <2> QED
    BY <2>1 DEF StageFailed, RetryOrAbort, Abort
<1>5. UNCHANGED done \/ done' = [done EXCEPT ![p] = @ \cup {s}]
  BY DEF StageFailed, RetryOrAbort, Abort
<1>6. "ln_invoice" \in done["maker"] => "ln_invoice" \in done'["maker"]
  BY <1>1, <1>5 DEF WorkTyped
<1>7. ASSUME p = "maker", WorkSpent PROVE WorkSpent'
  <2>1. CASE aborted' = [aborted EXCEPT ![p] = TRUE]
    <3>1. aborted'["maker"]
      BY <1>1, <1>7, <2>1 DEF WorkTyped
    <3> QED
      BY <3>1 DEF WorkSpent
  <2>2. CASE s # "ln_invoice" /\ UNCHANGED aborted
    BY <1>6, <1>7, <2>2 DEF WorkSpent
  <2> QED
    BY <1>4, <2>1, <2>2
<1>8. ASSUME p # "maker", WorkSpent PROVE WorkSpent'
  <2>1. aborted'["maker"] = aborted["maker"] /\ awaited'["maker"] = awaited["maker"]
    BY <1>1, <1>2, <1>4, <1>8 DEF WorkTyped
  <2> QED
    BY <1>6, <1>8, <2>1 DEF WorkSpent
<1> QED
  BY <1>3, <1>7, <1>8

\* ToolSpends: nor is one whose tool ends, or goes on.
LEMMA ToolSpends ==
  ASSUME StageRetryMax = 0, WorkTyped, Tried, NEW c \in calls,
         Throw(c) \/ Return(c) \/ UNCHANGED worker
  PROVE  Tried' /\ (WorkSpent => WorkSpent')
<1>0. c.peer \in Peers /\ c.tool \in Tools /\ "maker" \in Peers /\ "none" \notin Tools
  BY DEF WorkTyped, CallRecs, Peers, Tools, MakerStages, TakerStages
<1>1. CASE UNCHANGED worker
  BY <1>1 DEF worker, Tried, WorkSpent
<1>2. CASE Throw(c) /\ ~UNCHANGED worker
  <2>1. PICK rest, s : rest = calls \ {c} /\ s = c.tool
    OBVIOUS
  <2>2. s = awaited[c.peer] /\ StageFailed(c.peer, s, rest) /\ UNCHANGED tries
    BY <1>2, <2>1 DEF Throw, worker, IsAwaited
  <2>3. PICK p \in Peers : p = c.peer
    BY <1>0
  <2> QED
    BY <1>0, <2>1, <2>2, <2>3, FailureSpends
<1>3. CASE Return(c) /\ ~UNCHANGED worker
  <2>1. /\ awaited[c.peer] = c.tool /\ awaited' = [awaited EXCEPT ![c.peer] = "none"]
        /\ done' = [done EXCEPT ![c.peer] = @ \cup {c.tool}]
        /\ UNCHANGED <<tries, aborted>>
    BY <1>3 DEF Return, worker, IsAwaited
  <2>2. Tried'
    BY <1>0, <2>1 DEF Tried, WorkTyped
  <2>3. WorkSpent => WorkSpent'
    BY <1>0, <2>1 DEF WorkSpent, WorkTyped
  <2> QED
    BY <2>2, <2>3
<1> QED
  BY <1>1, <1>2, <1>3

\* SingleStays: a step that makes and moves no invoice call.
LEMMA SingleStays ==
  ASSUME Single, Tried', InvoiceSpent => InvoiceSpent',
         \A d \in calls' : InvoiceCall(d) => d \in calls,
         \A h \in Hashes : Issued(h)' <=> Issued(h)
  PROVE  Single'
BY DEF Single, OneIssued, InvoiceCall

\* AgreedOnce: TERMS are not delivered again.
LEMMA AgreedOnce ==
  ASSUME \A e \in Entries("maker")' : e \in Entries("maker") \/ e.kind # "agreed"
  PROVE  Saw(log["maker"], "agreed")' => Saw(log["maker"], "agreed")
BY DEF Entries, Saw

\* SingleStage: starting stages starts the invoice stage once.
LEMMA SingleStage == ASSUME StageRetryMax = 0, GInv, Single, Stage PROVE Single'
<1>0. /\ WorkTyped /\ NetTyped /\ Tried /\ "maker" \in Peers /\ "taker" \in Peers
      /\ "none" \notin Tools /\ UNCHANGED <<ln, log>>
  BY Types DEF GInv, Single, Peers, Tools, MakerStages, TakerStages, world, Stage, Tick,
     StartInvoice, StartPrecheck, StartEscrow, EscrowHeldBack, StartPay, StartClaim, Start
<1>1. \A h \in Hashes : Issued(h)' <=> Issued(h)
  BY <1>0 DEF Issued
<1>2. ASSUME NEW p \in Peers, Tick(p) PROVE Single'
  <2>1. UNCHANGED <<calls, awaited, tries, done, aborted>>
    BY <1>2 DEF Tick, worker
  <2>2. Tried' /\ (InvoiceSpent => InvoiceSpent')
    BY <1>0, <2>1 DEF Tried, InvoiceSpent, WorkSpent
  <2> QED
    BY <1>1, <2>1, <2>2, SingleStays
<1>3. ASSUME NEW p \in Peers, NEW s \in Tools, NEW pc, NEW h, Start(p, s, pc, h)
      PROVE  /\ Tried' /\ (s # "ln_invoice" => Single')
             /\ s = "ln_invoice" => awaited'[p] = s
  <2>1. /\ awaited[p] = "none" /\ awaited' = [awaited EXCEPT ![p] = s]
        /\ tries' = [tries EXCEPT ![p][s] = @ + 1] /\ UNCHANGED <<done, aborted>>
        /\ calls' = calls \cup {Call(p, s, tries[p][s] + 1, pc, h)}
    BY <1>3 DEF Start, CanRun
  <2>2. tries[p] \in [Tools -> Nat] /\ tries[p][s] \in Nat
    BY <1>0 DEF WorkTyped
  <2>3. /\ tries'[p][s] = tries[p][s] + 1
        /\ \A q \in Peers, t \in Tools : q # p => tries'[q][t] = tries[q][t]
        /\ \A q \in Peers : awaited'[q] = IF q = p THEN s ELSE awaited[q]
    BY <1>0, <2>1, <2>2 DEF WorkTyped
  <2>4. Tried'
    BY <1>0, <2>2, <2>3 DEF Tried
  <2>5. WorkSpent => WorkSpent'
    BY <1>0, <2>1, <2>3 DEF WorkSpent
  <2>6. s # "ln_invoice" => \A d \in calls' : InvoiceCall(d) => d \in calls
    BY <2>1 DEF InvoiceCall, Call
  <2>7. InvoiceSpent => InvoiceSpent'
    BY <1>0, <2>5 DEF InvoiceSpent
  <2> QED
    BY <1>1, <2>3, <2>4, <2>6, <2>7, SingleStays
<1>4. CASE StartInvoice
  <2>1. Start("maker", "ln_invoice", "create", NoHash) /\ "ln_invoice" \in Tools
    BY <1>4 DEF StartInvoice, Tools, MakerStages
  <2>2. /\ awaited["maker"] = "none" /\ ~aborted["maker"] /\ "ln_invoice" \notin done["maker"]
        /\ Saw(Ctx("maker"), "agreed")
    BY <2>1 DEF Start, CanRun
  <2>3. Saw(log["maker"], "agreed")
    BY <1>0, <2>2, CtxIn DEF Saw
  <2>4. ~InvoiceSpent
    BY <2>2, <2>3 DEF InvoiceSpent, WorkSpent
  <2>5. (\A d \in calls : ~InvoiceCall(d)) /\ (\A h \in Hashes : ~Issued(h))
    BY <2>4 DEF Single
  <2>6. PICK c : calls' = calls \cup {c}
    BY <2>1 DEF Start
  <2>7. \A h \in Hashes : ~Issued(h)'
    BY <1>1, <2>5
  <2>8. Tried' /\ awaited'["maker"] = "ln_invoice"
    BY <1>0, <1>3, <2>1
  <2> QED
    BY <2>5, <2>6, <2>7, <2>8 DEF Single, OneIssued, InvoiceSpent, WorkSpent, InvoiceCall
<1>5. CASE StartPrecheck \/ StartEscrow \/ StartPay \/ StartClaim
  <2>1. \E p \in Peers : \E s \in Tools \ {"ln_invoice"} : \E pc, h : Start(p, s, pc, h)
    <3>1. {"ln_route_precheck", "sol_escrow", "ln_pay", "sol_claim"} \subseteq Tools \ {"ln_invoice"}
      BY DEF Tools, MakerStages, TakerStages
    <3> QED
      BY <1>0, <1>5, <3>1 DEF StartPrecheck, StartEscrow, StartPay, StartClaim
  <2> QED
    BY <1>3, <2>1
<1>6. CASE EscrowHeldBack
  <2>1. /\ awaited["maker"] = "none"
        /\ \/ awaited' = [awaited EXCEPT !["maker"] = "none"]
           \/ awaited' = [awaited EXCEPT !["maker"] = "cancel"]
    BY <1>6 DEF EscrowHeldBack, CanRun, RetryOrAbort, Abort
  <2>2. UNCHANGED tries \/ tries' = [tries EXCEPT !["maker"]["sol_escrow"] = @ + 1]
    BY <1>6 DEF EscrowHeldBack
  <2>3. tries'["taker"] = tries["taker"]
    BY <1>0, <2>2 DEF WorkTyped
  <2>4. Tried'
    <3>1. \A s \in Tools \ {"cancel"} : awaited'["maker"] # s
      BY <1>0, <2>1 DEF WorkTyped
    <3>2. awaited'["taker"] = awaited["taker"]
      BY <1>0, <2>1 DEF WorkTyped
    <3> QED
      BY <1>0, <2>3, <3>1, <3>2 DEF Tried, Peers
  <2>5. WorkSpent => WorkSpent'
    <3>1. UNCHANGED done \/ done' = [done EXCEPT !["maker"] = @ \cup {"sol_escrow"}]
      BY <1>6 DEF EscrowHeldBack, RetryOrAbort, Abort
    <3>2. "ln_invoice" \in done["maker"] => "ln_invoice" \in done'["maker"]
      BY <1>0, <3>1 DEF WorkTyped
    <3>3. UNCHANGED aborted \/ aborted' = [aborted EXCEPT !["maker"] = TRUE]
      BY <1>6 DEF EscrowHeldBack, RetryOrAbort, Abort
    <3>4. aborted["maker"] => aborted'["maker"]
      BY <1>0, <3>3 DEF WorkTyped
    <3> QED
      BY <2>1, <3>2, <3>4 DEF WorkSpent
  <2>6. \A d \in calls' : InvoiceCall(d) => d \in calls
    BY <1>6 DEF EscrowHeldBack, RetryOrAbort, Abort, InvoiceCall, Call
  <2>7. InvoiceSpent => InvoiceSpent'
    BY <1>0, <2>5 DEF InvoiceSpent
  <2> QED
    BY <1>1, <2>4, <2>6, <2>7, SingleStays
<1> QED
  BY <1>2, <1>4, <1>5, <1>6 DEF Stage

\* SingleTool: the steps of the tools.
LEMMA SingleTool ==
  ASSUME StageRetryMax = 0, GInv, Single, NEW c \in calls,
         Step(c) \/ PostFails(c) \/ ToolFails(c)
  PROVE  Single'
<1>0. /\ WorkTyped /\ WorldTyped /\ NetTyped /\ CallOK(c) /\ Tried /\ "maker" \in Peers
      /\ c \in CallRecs
  BY Types DEF GInv, Facts, CallsOK, WorkTyped, Single, Peers
<1>1. CASE CreateInvoice(c)
  <2>1. PICK h \in Hashes : /\ ln' = [ln EXCEPT ![h] = "open"]
                            /\ calls' = (calls \ {c}) \cup {[c EXCEPT !.pc = "post", !.hash = h]}
    BY <1>1 DEF CreateInvoice
  <2>2. c.tool = "ln_invoice" /\ c.pc = "create" /\ UNCHANGED <<worker, log>>
    BY <1>1 DEF CreateInvoice, AtStep
  <2>3. PICK d : d = [c EXCEPT !.pc = "post", !.hash = h]
    OBVIOUS
  <2>4. d.pc = "post"
    BY <1>0, <2>3 DEF CallRecs
  <2>5. \A e \in calls' : InvoiceCall(e) => e = d
    BY <2>1, <2>2, <2>3 DEF Single, InvoiceCall
  <2>6. \A g \in Hashes : Issued(g)' => g = h
    <3>1. \A g \in Hashes : ~Issued(g)
      BY <2>2 DEF Single, InvoiceCall
    <3> QED
      BY <1>0, <2>1, <3>1 DEF Issued, WorldTyped
  <2>7. InvoiceSpent'
    <3>1. InvoiceSpent
      BY <2>2 DEF Single, InvoiceCall
    <3> QED
      BY <2>2, <3>1 DEF InvoiceSpent, WorkSpent, worker
  <2>8. Tried'
    BY <1>0, <2>2 DEF Tried, worker
  <2> QED
    BY <2>4, <2>5, <2>6, <2>7, <2>8 DEF Single, OneIssued
<1>2. CASE ~CreateInvoice(c)
  <2>1. /\ \/ Throw(c) \/ Return(c)
           \/ \E pc : Advance(c, pc) /\ c.tool # "ln_invoice"
        /\ UNCHANGED ln \/ PaySend(c)
        /\ UNCHANGED log \/ Post(c)
    BY <1>2 DEF Step, RoutePrecheck, EscrowGate, EscrowSend, EscrowSendTwice, EscrowRecord,
                PayVerify, PaySend, PayRecord, ClaimSend, ClaimRefused, ClaimRecord,
                CancelCheck, CancelRecord, Post, PostFails, ToolFails, world, Posted, AtStep
  <2>2. Throw(c) \/ Return(c) \/ UNCHANGED worker
    BY <2>1 DEF Advance
  <2>3. Tried' /\ (WorkSpent => WorkSpent')
    BY <1>0, <2>2, ToolSpends
  <2>4. \A h \in Hashes : Issued(h)' <=> Issued(h)
    <3>1. CASE UNCHANGED ln
      BY <3>1 DEF Issued
    <3>2. CASE PaySend(c)
      <4>1. c.tool = "ln_pay" /\ c.pc = "pay" /\ ln' = [ln EXCEPT ![c.hash] = "paid"]
        BY <3>2 DEF PaySend, AtStep
      <4>2. Issued(c.hash)
        BY <1>0, <4>1 DEF CallOK, Deposited
      <4> QED
        BY <1>0, <4>1, <4>2 DEF Issued, WorldTyped
    <3> QED
      BY <2>1, <3>1, <3>2
  <2>5. \A d \in calls' : InvoiceCall(d) => d \in calls
    <3>1. CASE Throw(c)
      <4>1. \A d : Canceling(d) => ~InvoiceCall(d)
        BY DEF Canceling, InvoiceCall
      <4>2. c.tool = "ln_route_precheck" => ~InvoiceCall([c EXCEPT !.pc = "fail"])
        BY <1>0 DEF InvoiceCall, CallRecs
      <4> QED
        BY <1>0, <3>1, <4>1, <4>2, Throws
    <3>2. CASE Return(c)
      BY <3>2 DEF Return
    <3>3. ASSUME NEW pc, Advance(c, pc), c.tool # "ln_invoice"
          PROVE  \A d \in calls' : InvoiceCall(d) => d \in calls
      BY <1>0, <3>3 DEF Advance, InvoiceCall, CallRecs
    <3> QED
      BY <2>1, <3>1, <3>2, <3>3
  <2>6. Saw(log["maker"], "agreed")' => Saw(log["maker"], "agreed")
    <3>1. CASE UNCHANGED log
      BY <3>1
    <3>2. CASE Post(c)
      <4>1. PICK m, p : m = Envelope(c) /\ p = c.peer
        OBVIOUS
      <4>2. m \in Messages /\ m.kind # "agreed"
        BY <3>2, <4>1, Signed DEF Post
      <4>3. p \in Peers /\ log' = [log EXCEPT ![p] = Append(@, m)] /\ UNCHANGED view
        BY <1>0, <3>2, <4>1 DEF Post, CallRecs
      <4>4. \A e \in Entries("maker")' : e \in Entries("maker") \/ e = m
        BY <1>0, <4>2, <4>3, Appended
      <4> QED
        BY <4>2, <4>4, AgreedOnce
    <3> QED
      BY <2>1, <3>1, <3>2
  <2>7. InvoiceSpent => InvoiceSpent'
    BY <2>3, <2>6 DEF InvoiceSpent
  <2> QED
    BY <2>3, <2>4, <2>5, <2>7, SingleStays
<1> QED
  BY <1>1, <1>2

\* SingleRest: timeouts, crashes, deliveries and losses, the operator and the clock.
LEMMA SingleRest ==
  ASSUME StageRetryMax = 0, GInv, Single,
         \/ \E p \in Peers : ToolTimesOut(p) \/ Crash(p)
         \/ \E m \in net : Deliver(m) \/ Lose(m)
         \/ RecoverRefund \/ RecoverClaim \/ Clock
  PROVE  Single'
<1>0. /\ WorkTyped /\ NetTyped /\ Tried /\ "maker" \in Peers /\ UNCHANGED ln
      /\ "none" \notin Tools
  BY Types DEF GInv, Single, Peers, ToolTimesOut, Crash, Deliver, Lose, RecoverRefund,
     RecoverClaim, Clock, world, Tools, MakerStages, TakerStages
<1>1. \A h \in Hashes : Issued(h)' <=> Issued(h)
  BY <1>0 DEF Issued
<1>2. ASSUME NEW p \in Peers, ToolTimesOut(p) PROVE Single'
  <2>1. PICK s, rest : s = awaited[p] /\ rest = calls
    OBVIOUS
  <2>2. s \in Tools /\ StageFailed(p, s, rest) /\ UNCHANGED <<tries, log>>
    BY <1>0, <1>2, <2>1 DEF ToolTimesOut, WorkTyped
  <2>3. Tried' /\ (WorkSpent => WorkSpent')
    BY <1>0, <2>1, <2>2, FailureSpends
  <2>4. \A d \in calls' : d \in calls \/ Canceling(d)
    BY <1>0, <2>1, <2>2, Fails DEF WorkTyped
  <2>5. InvoiceSpent => InvoiceSpent'
    BY <2>2, <2>3 DEF InvoiceSpent
  <2> QED
    BY <1>1, <2>3, <2>4, <2>5, SingleStays DEF Canceling, InvoiceCall
<1>3. ASSUME NEW p \in Peers, Crash(p) PROVE Single'
  <2>1. /\ calls' = {c \in calls : c.peer # p} /\ log' = [log EXCEPT ![p] = <<>>]
        /\ awaited' = [awaited EXCEPT ![p] = "none"]
        /\ tries' = [tries EXCEPT ![p] = [s \in Tools |-> 0]]
        /\ done' = [done EXCEPT ![p] = {}] /\ aborted' = [aborted EXCEPT ![p] = FALSE]
    BY <1>3 DEF Crash
  <2>2. Tried'
    BY <1>0, <2>1 DEF Tried, WorkTyped
  <2>3. InvoiceSpent => InvoiceSpent'
    <3>1. CASE p = "maker"
      <4>1. log'["maker"] = <<>>
        BY <1>0, <2>1, <3>1 DEF NetTyped
      <4> QED
        BY <4>1 DEF InvoiceSpent, Saw
    <3>2. CASE p # "maker"
      <4>1. /\ log'["maker"] = log["maker"] /\ done'["maker"] = done["maker"]
            /\ aborted'["maker"] = aborted["maker"] /\ awaited'["maker"] = awaited["maker"]
        BY <1>0, <2>1, <3>2 DEF NetTyped, WorkTyped
      <4> QED
        BY <4>1 DEF InvoiceSpent, WorkSpent
    <3> QED
      BY <3>1, <3>2
  <2> QED
    BY <1>1, <2>1, <2>2, <2>3, SingleStays
<1>4. ASSUME NEW m \in net, Deliver(m) PROVE Single'
  <2>1. PICK p : p = Other(m.from)
    OBVIOUS
  <2>2. /\ p \in Peers /\ m \in Messages /\ m.kind # "agreed"
        /\ log' = [log EXCEPT ![p] = Append(@, m)]
        /\ UNCHANGED <<calls, worker, view>>
    BY <1>0, <1>4, <2>1 DEF Deliver, Other, Peers, NetTyped, GInv, Facts, NetOK
  <2>3. \A e \in Entries("maker")' : e \in Entries("maker") \/ e = m
    BY <1>0, <2>2, Appended
  <2>4. Saw(log["maker"], "agreed")' => Saw(log["maker"], "agreed")
    BY <2>2, <2>3, AgreedOnce
  <2>5. Tried' /\ (InvoiceSpent => InvoiceSpent')
    BY <1>0, <2>2, <2>4 DEF Tried, InvoiceSpent, WorkSpent, worker
  <2> QED
    BY <1>1, <2>2, <2>5, SingleStays
<1>5. CASE (\E m \in net : Lose(m)) \/ RecoverRefund \/ RecoverClaim \/ Clock
  <2>1. UNCHANGED <<calls, worker, log>>
    BY <1>5 DEF Lose, RecoverRefund, RecoverClaim, Clock
  <2>2. Tried' /\ (InvoiceSpent => InvoiceSpent')
    BY <1>0, <2>1 DEF Tried, InvoiceSpent, WorkSpent, worker
  <2> QED
    BY <1>1, <2>1, <2>2, SingleStays
<1> QED
  BY <1>2, <1>3, <1>4, <1>5

\* SingleStep: without retries one invoice stays one invoice.
LEMMA SingleStep ==
  ASSUME StageRetryMax = 0, GInv, Single, [Next]_vars
  PROVE  Single'
<1>1. CASE UNCHANGED vars
  BY <1>1 DEF vars, world, worker, Single, Tried, OneIssued, Issued, InvoiceSpent, WorkSpent
<1> QED
  BY <1>1, SingleStage, SingleTool, SingleRest DEF Next

\* SingleBegins: at first there is none.
LEMMA SingleBegins == ASSUME Init PROVE Single
BY DEF Init, Single, Tried, OneIssued, Issued, Tools, MakerStages, TakerStages

\* Without retries, or with a node that answers every request with the same
\* invoice, one invoice is all there is.  stage_retry_max may be 0
\* (executor.js, intercomswap_tradeauto_start; its default is not).
OneInvoice == StageRetryMax = 0 \/ \E h : Hashes \subseteq {h}

\* OneInvoiceOnly: then the maker issues one invoice, whatever fails, times
\* out or crashes (_stageRetryOrAbort in tradeAuto.js).
THEOREM OneInvoiceOnly == ASSUME OneInvoice PROVE Spec => []OneIssued
<1>1. CASE StageRetryMax = 0
  <2>1. Init => Single
    BY SingleBegins
  <2>2. GInv /\ Single /\ [Next]_vars => Single'
    BY <1>1, SingleStep
  <2>3. Single => OneIssued
    BY DEF Single
  <2> QED
    BY <2>1, <2>2, <2>3, Always, PTL DEF Spec
<1>2. CASE \E h : Hashes \subseteq {h}
  <2>1. OneIssued
    BY <1>2 DEF OneIssued
  <2> QED
    BY <2>1, PTL
<1> QED
  BY <1>1, <1>2 DEF OneInvoice

\* RefundFindable: then swaprecover_refund, which reads the hash of the row in
\* the maker's receipts, finds every deposit that is still locked.
THEOREM RefundFindable == ASSUME OneInvoice PROVE Spec => []MakerCanRefund
BY OneInvoiceEnough, OneInvoiceOnly, PTL

\* PrecheckBeforeDeposit: then the gates of worker and tool let no deposit
\* happen under a hash the payer has not prechecked.
THEOREM PrecheckBeforeDeposit == ASSUME OneInvoice PROVE Spec => []EscrowNeedsPrecheck
BY OneInvoiceEnough, OneInvoiceOnly, PTL

\* NoEnvelopeAhead: then every tool posts its envelope after the effect the
\* envelope reports, on chain, over Lightning and in the receipts.
THEOREM NoEnvelopeAhead == ASSUME OneInvoice PROVE Spec => []EnvelopesBacked
BY OneInvoiceEnough, OneInvoiceOnly, PTL
=============================================================================
