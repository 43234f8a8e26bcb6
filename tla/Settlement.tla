----------------------------- MODULE Settlement -----------------------------
(***************************************************************************)
(* Settlement of one trade after TERMS and ACCEPT: the TradeAuto worker of *)
(* each peer (src/src/prompt/tradeAuto.js) runs one stage at a time by     *)
(* calling a tool of its executor (src/src/prompt/executor.js).  A tool is *)
(* cut at its awaits: between two of its steps anything may happen.  A     *)
(* tool the worker stops waiting for (Promise.race) runs on behind its     *)
(* back while the stage is retried or the trade aborted.                   *)
(*                                                                         *)
(* The maker receives the Lightning payment and deposits USDT; the taker   *)
(* pays Lightning and claims USDT.  The Solana program, the Lightning      *)
(* network and the sidechannel are external.                               *)
(***************************************************************************)
EXTENDS Integers, Sequences

CONSTANTS Hashes,         \* payment hashes the maker's LN node may issue
          NoHash,         \* no payment hash
          RefundAfter,    \* sol_refund_after_unix
          Margin,         \* DEFAULT_MIN_REFUND_DELTA_SEC
          StageRetryMax,  \* opts.stage_retry_max
          MaxPayTries,    \* bound: a payment that keeps failing is given up
          MaxFaults,      \* bound: errors, timeouts, lost results, crashes
          MaxTime,        \* bound on the clock
          Crashing        \* the peers whose process may die

ASSUME SettlementAssumption ==
  /\ NoHash \notin Hashes
  /\ RefundAfter \in Nat /\ Margin \in Nat /\ Margin > 0
  /\ StageRetryMax \in Nat /\ MaxPayTries \in Nat
  /\ MaxFaults \in Nat /\ MaxTime \in Nat
  /\ Crashing \subseteq {"maker", "taker"}

Peers == {"maker", "taker"}

Other(p) == IF p = "maker" THEN "taker" ELSE "maker"

MakerStages == {"ln_invoice", "sol_escrow"}
TakerStages == {"ln_route_precheck", "ln_pay", "sol_claim"}
Tools == MakerStages \cup TakerStages \cup {"cancel"}

VARIABLES
  now,        \* unix time
  chain,      \* chain[h]: the escrow account keyed by h
  ln,         \* ln[h]: the invoice of h
  net,        \* envelopes on their way to the other peer
  log,        \* log[p]: scLog of p restricted to the trade
  rcpt,       \* rcpt[p]: the trade's row in p's receipts database
  calls,      \* tool calls in flight, awaited or left behind
  awaited,    \* awaited[p]: the tool p's worker is waiting for
  tries,      \* tries[p][s]: how often p's worker has run stage s
  done,       \* done[p]: _stageDone
  aborted,    \* aborted[p]: the trade is in _abortedTrades
  view,       \* view[p]: how much of log[p] the running tick has read
  posted,     \* number of precheck statuses posted so far
  routed,     \* history: hashes whose route precheck has succeeded
  faults      \* number of faults so far

world == <<now, chain, ln>>
worker == <<awaited, tries, done, aborted>>
vars == <<world, net, log, rcpt, calls, worker, view, posted, routed, faults>>

-----------------------------------------------------------------------------
(***************************************************************************)
(* Envelopes and what a peer reads from its log.                           *)
(***************************************************************************)
Kinds == {"agreed", "ln_invoice", "precheck_ok", "precheck_fail",
          "sol_escrow_created", "ln_paid", "sol_claimed", "cancel"}

\* n orders the precheck statuses by the time they were posted.
Env(p, k, h, n) == [from |-> p, kind |-> k, hash |-> h, n |-> n]

\* TERMS and ACCEPT: every stage needs the terms envelope.
Agreed == Env("maker", "agreed", NoHash, 0)

Saw(s, k) == \E i \in DOMAIN s : s[i].kind = k

\* _buildContexts keeps the last envelope of each kind.
LatestHash(s, k) ==
  LET last == CHOOSE i \in DOMAIN s :
                s[i].kind = k /\ \A j \in DOMAIN s : s[j].kind = k => j <= i
  IN  s[last].hash

\* The events the worker's current tick works on.
Ctx(p) == SubSeq(log[p], 1, view[p])

Terminal(s) == Saw(s, "sol_claimed") \/ Saw(s, "cancel")

Statuses(s, k) == {s[i].n : i \in {j \in DOMAIN s : s[j].kind = k}}

\* parseLnRoutePrecheckStatus and the gate in the worker: by time of posting.
PayerReportedFail(s) ==
  \E f \in Statuses(s, "precheck_fail") :
    \A k \in Statuses(s, "precheck_ok") : f > k

WorkerGate(s) == Saw(s, "precheck_ok") /\ ~PayerReportedFail(s)

\* The gate in the tool: by place in the log, after the invoice of h.
ToolGate(s, h) ==
  \E i \in DOMAIN s :
    /\ s[i].kind = "ln_invoice" /\ s[i].hash = h
    /\ \A j \in DOMAIN s : j > i => ~(s[j].kind = "ln_invoice" /\ s[j].hash = h)
    /\ \E j \in DOMAIN s :
         /\ j > i /\ s[j].kind = "precheck_ok"
         /\ \A k \in DOMAIN s : k > j => s[k].kind # "precheck_fail"

-----------------------------------------------------------------------------
(***************************************************************************)
(* The stage engine.                                                       *)
(***************************************************************************)
Call(p, s, n, pc, h) ==
  [peer |-> p, tool |-> s, try |-> n, pc |-> pc, hash |-> h]

IsAwaited(c) == awaited[c.peer] = c.tool /\ tries[c.peer][c.tool] = c.try

Fault == faults < MaxFaults /\ faults' = faults + 1

\* Stage s of p runs a tool from step pc: _canRunStage, then
\* _markStageInFlight.  One stage of a trade per tick.
CanRun(p, s) ==
  /\ view[p] > 0 /\ awaited[p] = "none" /\ ~aborted[p] /\ s \notin done[p]
  /\ Saw(Ctx(p), "agreed") /\ ~Terminal(Ctx(p))

Start(p, s, pc, h) ==
  /\ CanRun(p, s)
  /\ awaited' = [awaited EXCEPT ![p] = s]
  /\ tries' = [tries EXCEPT ![p][s] = @ + 1]
  /\ calls' = calls \cup {Call(p, s, tries[p][s] + 1, pc, h)}
  /\ view' = [view EXCEPT ![p] = 0]
  /\ UNCHANGED <<world, net, log, rcpt, done, aborted, posted, routed, faults>>

AbortQuietly(p, s, rest) ==
  /\ done' = [done EXCEPT ![p] = @ \cup {s}]
  /\ calls' = rest
  /\ awaited' = [awaited EXCEPT ![p] = "none"]
  /\ UNCHANGED aborted

\* _abortTrade: no stage runs again; CANCEL is posted where it may be.
Abort(p, s, rest) ==
  /\ aborted' = [aborted EXCEPT ![p] = TRUE]
  /\ done' = [done EXCEPT ![p] = @ \cup {s}]
  /\ IF s = "sol_claim"
     THEN /\ calls' = rest
          /\ awaited' = [awaited EXCEPT ![p] = "none"]
     ELSE /\ calls' = rest \cup {Call(p, "cancel", 0, "check", NoHash)}
          /\ awaited' = [awaited EXCEPT ![p] = "cancel"]

\* _stageRetryOrAbort after attempt n.
RetryOrAbort(p, s, n, rest) ==
  \/ /\ n <= StageRetryMax
     /\ calls' = rest
     /\ awaited' = [awaited EXCEPT ![p] = "none"]
     /\ UNCHANGED <<done, aborted>>
  \/ n > StageRetryMax /\ Abort(p, s, rest)

\* The worker's catch block.  Whether a failed payment is tried again depends
\* on how long it has been failing (_recordLnPayFailure); either may happen.
StageFailed(p, s, rest) ==
  \/ s \notin {"ln_pay", "cancel"} /\ RetryOrAbort(p, s, tries[p][s], rest)
  \/ /\ s \in {"ln_pay", "cancel"}
     /\ \/ (s = "ln_pay" => tries[p][s] < MaxPayTries) /\ done' = done
        \/ s = "ln_pay" /\ done' = [done EXCEPT ![p] = @ \cup {s}]
     /\ calls' = rest
     /\ awaited' = [awaited EXCEPT ![p] = "none"]
     /\ UNCHANGED aborted

Advance(c, pc) ==
  /\ calls' = (calls \ {c}) \cup {[c EXCEPT !.pc = pc]}
  /\ UNCHANGED worker

\* The tool returns.
Return(c) ==
  /\ calls' = calls \ {c}
  /\ UNCHANGED <<tries, aborted>>
  /\ IF IsAwaited(c)
     THEN /\ awaited' = [awaited EXCEPT ![c.peer] = "none"]
          /\ done' = [done EXCEPT ![c.peer] = @ \cup {c.tool}]
     ELSE UNCHANGED <<awaited, done>>

\* The tool throws.  A failed precheck first reports the failure.
Throw(c) ==
  /\ UNCHANGED tries
  /\ IF IsAwaited(c)
     THEN IF c.tool = "ln_route_precheck" /\ c.pc # "fail"
          THEN /\ calls' = (calls \ {c}) \cup {[c EXCEPT !.pc = "fail"]}
               /\ UNCHANGED <<awaited, done, aborted>>
          ELSE StageFailed(c.peer, c.tool, calls \ {c})
     ELSE /\ calls' = calls \ {c}
          /\ UNCHANGED <<awaited, done, aborted>>

-----------------------------------------------------------------------------
(***************************************************************************)
(* The stages: which one the worker starts, from the tick's snapshot.      *)
(***************************************************************************)
Tick(p) ==
  /\ awaited[p] = "none" /\ ~aborted[p]
  /\ view[p] # Len(log[p])
  /\ view' = [view EXCEPT ![p] = Len(log[p])]
  /\ UNCHANGED <<world, net, log, rcpt, calls, worker, posted, routed, faults>>

StartInvoice ==
  /\ ~Saw(Ctx("maker"), "ln_invoice")
  /\ Start("maker", "ln_invoice", "create", NoHash)

StartPrecheck ==
  LET ctx == Ctx("taker") IN
  /\ Saw(ctx, "ln_invoice") /\ ~Saw(ctx, "sol_escrow_created")
  /\ Start("taker", "ln_route_precheck", "route", LatestHash(ctx, "ln_invoice"))

\* The maker's turn to deposit, as far as its snapshot tells.
EscrowDue(ctx) == Saw(ctx, "ln_invoice") /\ ~Saw(ctx, "sol_escrow_created")

StartEscrow ==
  LET ctx == Ctx("maker") IN
  /\ EscrowDue(ctx) /\ WorkerGate(ctx)
  /\ Start("maker", "sol_escrow", "gate", LatestHash(ctx, "ln_invoice"))

\* The gate holds the stage back: the wait counts as a retry, and a failure
\* the payer reported ends the trade at once.
EscrowHeldBack ==
  LET ctx == Ctx("maker") IN
  /\ CanRun("maker", "sol_escrow") /\ EscrowDue(ctx) /\ ~WorkerGate(ctx)
  /\ IF PayerReportedFail(ctx)
     THEN Abort("maker", "sol_escrow", calls) /\ UNCHANGED tries
     ELSE /\ tries' = [tries EXCEPT !["maker"]["sol_escrow"] = @ + 1]
          /\ RetryOrAbort("maker", "sol_escrow",
                          tries["maker"]["sol_escrow"] + 1, calls)
  /\ view' = [view EXCEPT !["maker"] = 0]
  /\ UNCHANGED <<world, net, log, rcpt, posted, routed, faults>>

StartPay ==
  LET ctx == Ctx("taker") IN
  /\ Saw(ctx, "ln_invoice") /\ Saw(ctx, "sol_escrow_created")
  /\ ~Saw(ctx, "ln_paid")
  /\ Start("taker", "ln_pay", "verify",
           IF LatestHash(ctx, "ln_invoice") =
                LatestHash(ctx, "sol_escrow_created")
           THEN LatestHash(ctx, "ln_invoice") ELSE NoHash)

StartClaim ==
  /\ Saw(Ctx("taker"), "ln_paid")
  /\ rcpt["taker"].preimage # NoHash
  /\ Start("taker", "sol_claim", "send", rcpt["taker"].preimage)

-----------------------------------------------------------------------------
(***************************************************************************)
(* The tools, one action per step between awaits.                          *)
(***************************************************************************)
AtStep(c, s, pc) == c.tool = s /\ c.pc = pc

\* The invoice upserted into the receipts row: it overwrites the hash there.
RecordInvoiceStateOnly(h) == [rcpt EXCEPT !["maker"].state = "invoice"]

RecordInvoice(h) ==
  [rcpt EXCEPT !["maker"].hash = h, !["maker"].state = "invoice"]

\* intercomswap_swap_ln_invoice_create_and_post: the LN node issues a new
\* invoice, and the receipts row points at it before anyone else knows it.
CreateInvoice(c) ==
  /\ AtStep(c, "ln_invoice", "create")
  /\ \E h \in Hashes :
       /\ ln[h] = "none"
       /\ ln' = [ln EXCEPT ![h] = "open"]
       /\ rcpt' = RecordInvoice(h)
       /\ calls' = (calls \ {c}) \cup {[c EXCEPT !.pc = "post", !.hash = h]}
  /\ UNCHANGED <<now, chain, net, log, worker, view, posted, routed, faults>>

\* intercomswap_swap_ln_route_precheck_from_terms_invoice
RoutePrecheck(c) ==
  /\ AtStep(c, "ln_route_precheck", "route")
  /\ Advance(c, "post")
  /\ routed' = routed \cup {c.hash}
  /\ UNCHANGED <<world, net, log, rcpt, view, posted, faults>>

\* intercomswap_swap_sol_escrow_init_and_post: the precheck gate reads the
\* log as it is now, not as the tick saw it.
EscrowGate(c) ==
  /\ AtStep(c, "sol_escrow", "gate")
  /\ IF ToolGate(log["maker"], c.hash) THEN Advance(c, "send") ELSE Throw(c)
  /\ UNCHANGED <<world, net, log, rcpt, view, posted, routed, faults>>

\* The escrow account is keyed by the hash: a second init fails on chain.
EscrowSend(c) ==
  /\ AtStep(c, "sol_escrow", "send") /\ chain[c.hash] = "none"
  /\ chain' = [chain EXCEPT ![c.hash] = "locked"]
  /\ \/ Advance(c, "record") /\ UNCHANGED faults
     \/ Throw(c) /\ Fault         \* landed, yet sendAndConfirm threw
  /\ UNCHANGED <<now, ln, net, log, rcpt, view, posted, routed>>

EscrowSendTwice(c) ==
  /\ AtStep(c, "sol_escrow", "send") /\ chain[c.hash] # "none"
  /\ Throw(c)
  /\ UNCHANGED <<world, net, log, rcpt, view, posted, routed, faults>>

EscrowRecord(c) ==
  /\ AtStep(c, "sol_escrow", "record")
  /\ rcpt' = [rcpt EXCEPT !["maker"].hash = c.hash,
                          !["maker"].state = "escrow"]
  /\ Advance(c, "post")
  /\ UNCHANGED <<world, net, log, view, posted, routed, faults>>

\* intercomswap_swap_ln_pay_and_post_verified: verifySwapPrePayOnchain.
\* NoHash stands for an invoice and an escrow with different hashes.
PrePayOkUntimed(h) == h # NoHash /\ chain[h] = "locked"

PrePayOkNoMargin(h) ==
  h # NoHash /\ chain[h] = "locked" /\ now <= RefundAfter

PrePayOk(h) ==
  h # NoHash /\ chain[h] = "locked" /\ now + Margin <= RefundAfter

PayVerify(c) ==
  /\ AtStep(c, "ln_pay", "verify")
  /\ IF PrePayOk(c.hash) THEN Advance(c, "pay") ELSE Throw(c)
  /\ UNCHANGED <<world, net, log, rcpt, view, posted, routed, faults>>

PaySendUnrecorded(c) ==
  /\ AtStep(c, "ln_pay", "pay")
  /\ ln' = [ln EXCEPT ![c.hash] = "paid"]
  /\ Advance(c, "post")
  /\ UNCHANGED <<now, chain, net, log, rcpt, view, posted, routed, faults>>

\* lnPay has no time limit; a paid invoice is paid once, and the node may
\* answer a second attempt with the preimage or with an error.
PaySend(c) ==
  /\ AtStep(c, "ln_pay", "pay")
  /\ ln' = [ln EXCEPT ![c.hash] = "paid"]
  /\ \/ Advance(c, "record") /\ UNCHANGED faults
     \/ Throw(c) /\ Fault         \* paid, yet the answer was lost
  /\ UNCHANGED <<now, chain, net, log, rcpt, view, posted, routed>>

PayRecord(c) ==
  /\ AtStep(c, "ln_pay", "record")
  /\ rcpt' = [rcpt EXCEPT !["taker"].hash = c.hash,
                          !["taker"].preimage = c.hash,
                          !["taker"].state = "ln_paid"]
  /\ Advance(c, "post")
  /\ UNCHANGED <<world, net, log, view, posted, routed, faults>>

\* The program pays out against the preimage until the refund time.
Claimable(h) == chain[h] = "locked" /\ now < RefundAfter

\* intercomswap_swap_sol_claim_and_post
ClaimSend(c) ==
  /\ AtStep(c, "sol_claim", "send") /\ Claimable(c.hash)
  /\ chain' = [chain EXCEPT ![c.hash] = "claimed"]
  /\ \/ Advance(c, "record") /\ UNCHANGED faults
     \/ Throw(c) /\ Fault
  /\ UNCHANGED <<now, ln, net, log, rcpt, view, posted, routed>>

ClaimRefusedIgnored(c) ==
  /\ AtStep(c, "sol_claim", "send") /\ ~Claimable(c.hash)
  /\ Advance(c, "record")
  /\ UNCHANGED <<world, net, log, rcpt, view, posted, routed, faults>>

ClaimRefused(c) ==
  /\ AtStep(c, "sol_claim", "send") /\ ~Claimable(c.hash)
  /\ Throw(c)
  /\ UNCHANGED <<world, net, log, rcpt, view, posted, routed, faults>>

ClaimRecord(c) ==
  /\ AtStep(c, "sol_claim", "record")
  /\ rcpt' = [rcpt EXCEPT !["taker"].hash = c.hash,
                          !["taker"].state = "claimed"]
  /\ Advance(c, "post")
  /\ UNCHANGED <<world, net, log, view, posted, routed, faults>>

\* intercomswap_swap_cancel_post: refuses once the log or the receipts know
\* of an escrow.
MayCancel(p) ==
  /\ ~Saw(log[p], "sol_escrow_created") /\ ~Saw(log[p], "ln_paid")
  /\ rcpt[p].state \notin {"escrow", "ln_paid", "claimed", "refunded"}

CancelCheck(c) ==
  /\ AtStep(c, "cancel", "check")
  /\ IF MayCancel(c.peer) THEN Advance(c, "post") ELSE Throw(c)
  /\ UNCHANGED <<world, net, log, rcpt, view, posted, routed, faults>>

CancelRecord(c) ==
  /\ AtStep(c, "cancel", "record")
  /\ rcpt' = [rcpt EXCEPT ![c.peer].state = "canceled"]
  /\ Return(c)
  /\ UNCHANGED <<world, net, log, view, posted, routed, faults>>

-----------------------------------------------------------------------------
(***************************************************************************)
(* Posting: sign and send over the bridge, then append to the own log.     *)
(***************************************************************************)
EnvelopeKindRaw(c) ==
  IF c.tool # "ln_route_precheck" THEN c.tool
  ELSE IF c.pc = "fail" THEN "precheck_fail" ELSE "precheck_ok"

EnvelopeKindNoFailure(c) ==
  CASE c.tool = "ln_route_precheck" -> "precheck_ok"
    [] c.tool = "sol_escrow" -> "sol_escrow_created"
    [] c.tool = "ln_pay" -> "ln_paid"
    [] c.tool = "sol_claim" -> "sol_claimed"
    [] OTHER -> c.tool

EnvelopeKind(c) ==
  CASE c.tool = "ln_route_precheck" ->
         IF c.pc = "fail" THEN "precheck_fail" ELSE "precheck_ok"
    [] c.tool = "sol_escrow" -> "sol_escrow_created"
    [] c.tool = "ln_pay" -> "ln_paid"
    [] c.tool = "sol_claim" -> "sol_claimed"
    [] OTHER -> c.tool

IsStatus(c) == c.tool = "ln_route_precheck"

Envelope(c) ==
  IF IsStatus(c) THEN Env(c.peer, EnvelopeKind(c), NoHash, posted + 1)
  ELSE Env(c.peer, EnvelopeKind(c), c.hash, 0)

\* A status is stamped when it is signed, whether or not it gets out.
CountStatus(c) == posted' = IF IsStatus(c) THEN posted + 1 ELSE posted

Posting(c) == c.pc = "post" \/ AtStep(c, "ln_route_precheck", "fail")

\* The tool's next step once its envelope is out.
Posted(c) ==
  CASE c.tool = "cancel" -> Advance(c, "record")
    [] AtStep(c, "ln_route_precheck", "fail") -> Throw(c)
    [] OTHER -> Return(c)

Send(m) == net' = net \cup {m}

Post(c) ==
  /\ Posting(c)
  /\ Send(Envelope(c))
  /\ log' = [log EXCEPT ![c.peer] = Append(@, Envelope(c))]
  /\ CountStatus(c)
  /\ Posted(c)
  /\ UNCHANGED <<world, rcpt, view, routed, faults>>

\* The bridge times out: the envelope may have gone out, but the peer's own
\* log does not show it.
PostFails(c) ==
  /\ Posting(c) /\ Fault
  /\ CountStatus(c)
  /\ Send(Envelope(c)) \/ UNCHANGED net
  /\ Throw(c)
  /\ UNCHANGED <<world, log, rcpt, view, routed>>

-----------------------------------------------------------------------------
(***************************************************************************)
(* Faults, delivery, the operator, time.                                   *)
(***************************************************************************)
\* A node or RPC error before the step's effect.
ToolFails(c) ==
  /\ c.pc \in {"create", "route", "gate", "send", "verify", "pay", "check"}
  /\ Fault
  /\ Throw(c)
  /\ UNCHANGED <<world, net, log, rcpt, view, posted, routed>>

\* Promise.race: the worker gives up on the tool, the tool does not stop.
\* (A late route precheck has no effect, and a late status is a PostFails.)
ToolTimesOut(p) ==
  /\ awaited[p] \notin {"none", "ln_route_precheck"}
  /\ Fault
  /\ StageFailed(p, awaited[p], calls)
  /\ UNCHANGED <<world, tries, net, log, rcpt, view, posted, routed>>

\* _onScEvent: append to the log, and let a terminal envelope overwrite the
\* state of the receipts row.
Deliver(m) ==
  LET p == Other(m.from) IN
  /\ net' = net \ {m}
  /\ log' = [log EXCEPT ![p] = Append(@, m)]
  /\ rcpt' = CASE m.kind = "sol_claimed" -> [rcpt EXCEPT ![p].state = "claimed"]
               [] m.kind = "cancel" -> [rcpt EXCEPT ![p].state = "canceled"]
               [] OTHER -> rcpt
  /\ UNCHANGED <<world, calls, worker, view, posted, routed, faults>>

\* The swap channel loses a copy; nobody is told and nobody sends it again.
Lose(m) ==
  /\ net' = net \ {m}
  /\ UNCHANGED <<world, log, rcpt, calls, worker, view, posted, routed, faults>>

\* The process dies: everything but the receipts is lost.
Crash(p) ==
  /\ p \in Crashing /\ Fault
  /\ calls' = {c \in calls : c.peer # p}
  /\ log' = [log EXCEPT ![p] = <<>>]
  /\ view' = [view EXCEPT ![p] = 0]
  /\ awaited' = [awaited EXCEPT ![p] = "none"]
  /\ tries' = [tries EXCEPT ![p] = [s \in Tools |-> 0]]
  /\ done' = [done EXCEPT ![p] = {}]
  /\ aborted' = [aborted EXCEPT ![p] = FALSE]
  /\ UNCHANGED <<world, net, rcpt, posted, routed>>

RecoverRefundIfRecorded ==
  LET h == rcpt["maker"].hash IN
  /\ h # NoHash /\ chain[h] = "locked" /\ now >= RefundAfter
  /\ rcpt["maker"].state = "escrow"
  /\ chain' = [chain EXCEPT ![h] = "refunded"]
  /\ rcpt' = [rcpt EXCEPT !["maker"].state = "refunded"]
  /\ UNCHANGED <<now, ln, net, log, calls, worker, view, posted, routed, faults>>

\* The operator runs intercomswap_swaprecover_refund on the trade.
RecoverRefund ==
  LET h == rcpt["maker"].hash IN
  /\ h # NoHash /\ chain[h] = "locked" /\ now >= RefundAfter
  /\ chain' = [chain EXCEPT ![h] = "refunded"]
  /\ rcpt' = [rcpt EXCEPT !["maker"].state = "refunded"]
  /\ UNCHANGED <<now, ln, net, log, calls, worker, view, posted, routed, faults>>

\* The operator runs intercomswap_swaprecover_claim on the trade.
RecoverClaim ==
  LET h == rcpt["taker"].preimage IN
  /\ h # NoHash /\ Claimable(h)
  /\ chain' = [chain EXCEPT ![h] = "claimed"]
  /\ rcpt' = [rcpt EXCEPT !["taker"].state = "claimed"]
  /\ UNCHANGED <<now, ln, net, log, calls, worker, view, posted, routed, faults>>

Clock ==
  /\ now < MaxTime
  /\ now' = now + 1
  /\ UNCHANGED <<chain, ln, net, log, rcpt, calls, worker, view, posted, routed, faults>>

Init ==
  /\ now = 0
  /\ chain = [h \in Hashes |-> "none"]
  /\ ln = [h \in Hashes |-> "none"]
  /\ net = {}
  /\ log = [p \in Peers |-> <<Agreed>>]
  /\ rcpt = [p \in Peers |->
               [state |-> IF p = "maker" THEN "terms" ELSE "accepted",
                hash |-> NoHash, preimage |-> NoHash]]
  /\ calls = {}
  /\ awaited = [p \in Peers |-> "none"]
  /\ tries = [p \in Peers |-> [s \in Tools |-> 0]]
  /\ done = [p \in Peers |-> {}]
  /\ aborted = [p \in Peers |-> FALSE]
  /\ view = [p \in Peers |-> 0]
  /\ posted = 0
  /\ routed = {}
  /\ faults = 0

Stage ==
  \/ \E p \in Peers : Tick(p)
  \/ StartInvoice \/ StartPrecheck \/ StartEscrow \/ EscrowHeldBack
  \/ StartPay \/ StartClaim

Step(c) ==
  \/ CreateInvoice(c) \/ RoutePrecheck(c)
  \/ EscrowGate(c) \/ EscrowSend(c) \/ EscrowSendTwice(c) \/ EscrowRecord(c)
  \/ PayVerify(c) \/ PaySend(c) \/ PayRecord(c)
  \/ ClaimSend(c) \/ ClaimRefused(c) \/ ClaimRecord(c)
  \/ CancelCheck(c) \/ CancelRecord(c) \/ Post(c)

Next ==
  \/ Stage
  \/ \E c \in calls : Step(c) \/ PostFails(c) \/ ToolFails(c)
  \/ \E p \in Peers : ToolTimesOut(p) \/ Crash(p)
  \/ \E m \in net : Deliver(m) \/ Lose(m)
  \/ RecoverRefund \/ RecoverClaim \/ Clock

Spec == Init /\ [][Next]_vars

\* The workers' timers keep ticking, tools end, envelopes arrive or are lost.
WorkerFairness ==
  /\ WF_vars(Stage)
  /\ WF_vars(\E c \in calls : Step(c))
  /\ WF_vars(\E m \in net : Deliver(m))

WorkerSpec == Spec /\ WorkerFairness

\* The operator keeps trying to get an expired deposit back, and time passes.
RefundFairness == WF_vars(Clock) /\ WF_vars(RecoverRefund)

RefundSpec == Spec /\ RefundFairness

\* Both: nothing stops but what the faults stop.
FairSpec == Spec /\ WorkerFairness /\ RefundFairness

-----------------------------------------------------------------------------
(***************************************************************************)
(* Properties.                                                             *)
(***************************************************************************)
Messages == [from : Peers, kind : Kinds, hash : Hashes \cup {NoHash}, n : Nat]

\* The shape of the state.
TypeOK ==
  /\ now \in Nat
  /\ chain \in [Hashes -> {"none", "locked", "claimed", "refunded"}]
  /\ ln \in [Hashes -> {"none", "open", "paid"}]
  /\ net \subseteq Messages
  /\ log \in [Peers -> Seq(Messages)]
  /\ rcpt \in [Peers -> [state : {"terms", "accepted", "invoice", "escrow",
                                 "ln_paid", "claimed", "refunded", "canceled"},
                         hash : Hashes \cup {NoHash},
                         preimage : Hashes \cup {NoHash}]]
  /\ calls \subseteq
       [peer : Peers, tool : Tools, try : Nat, hash : Hashes \cup {NoHash},
        pc : {"create", "route", "gate", "send", "verify", "pay", "check",
              "record", "post", "fail"}]
  /\ awaited \in [Peers -> Tools \cup {"none"}]
  /\ tries \in [Peers -> [Tools -> Nat]]
  /\ done \in [Peers -> SUBSET Tools]
  /\ aborted \in [Peers -> BOOLEAN]
  /\ view \in [Peers -> Nat]
  /\ posted \in Nat /\ routed \subseteq Hashes /\ faults \in Nat

\* "no escrow verified, no LN payment sent": the payer commits to a payment
\* only while a deposit is there to be claimed, a claim needs the payment and
\* a refund its time, whatever is retried, timed out, lost or crashed.
Promise ==
  INSTANCE EscrowPromise WITH
    Legs <- Hashes, usdt <- chain,
    committed <- {c.hash : c \in {d \in calls : AtStep(d, "ln_pay", "pay")}},
    paid <- {h \in Hashes : ln[h] = "paid"}, late <- (now >= RefundAfter)

ImplementsPromise == Promise!Spec

\* While USDT is locked the maker's receipts name its hash, whatever was
\* posted, lost, timed out or crashed, so swaprecover_refund can find it.
MakerCanRefund ==
  \A h \in Hashes : chain[h] = "locked" => rcpt["maker"].hash = h

\* USDT is locked only under a hash whose route the payer has prechecked.
EscrowNeedsPrecheck ==
  \A h \in Hashes : chain[h] # "none" => h \in routed

\* An envelope on its way is never ahead of what it reports: the deposit is
\* on chain, the payment made and its preimage saved, the claim through.
EnvelopesBacked ==
  \A m \in net :
    /\ m.kind = "sol_escrow_created" => chain[m.hash] # "none"
    /\ m.kind = "ln_paid" =>
         ln[m.hash] = "paid" /\ rcpt["taker"].preimage = m.hash
    /\ m.kind = "sol_claimed" => chain[m.hash] = "claimed"

\* Receipts never show a deposit as settled that is still locked.
ReceiptsHonest ==
  \A p \in Peers :
    /\ rcpt[p].state = "claimed" => \E h \in Hashes : chain[h] = "claimed"
    /\ rcpt[p].state = "refunded" => \E h \in Hashes : chain[h] = "refunded"

\* "CANCEL is only allowed before escrow is created": the maker, who creates
\* it, never posts CANCEL while its own deposit is locked.
MakerCancelsUnfunded ==
  [][\A m \in net' \ net :
       m.kind = "cancel" /\ m.from = "maker" =>
         \A h \in Hashes : chain[h] # "locked"]_vars

\* Locked USDT is claimed or, at the latest, refunded.
LockedResolves ==
  \A h \in Hashes :
    chain[h] = "locked" ~> chain[h] \in {"claimed", "refunded"}

GaveUp ==
  \/ \E p \in Peers : aborted[p]
  \/ "ln_pay" \in done["taker"] /\ ~Saw(log["taker"], "ln_paid")

\* The announcement of the deposit was lost on its way.
EscrowUnheard ==
  /\ Saw(log["maker"], "sol_escrow_created") /\ ~Saw(log["taker"], "sol_escrow_created")
  /\ \A m \in net : m.kind # "sol_escrow_created"

\* The two workers do not wait for each other forever, whatever envelopes are lost:
\* the swap is claimed, or one of them gives up. Only where the loss is that of the
\* announcement of a deposit do both wait for ever, with the USDT locked: nobody
\* sends it again, and neither wait has a time-out (tradeAuto.js:2224-2307).
\* The maker's wait for the precheck ends with its retries (2314-2341).
WorkersFinish == <>(GaveUp \/ EscrowUnheard \/ \E h \in Hashes : chain[h] = "claimed")
=============================================================================
