# TLA+ models of SwapFloor

SwapFloor swaps Lightning BTC for USDT on Solana between two peers. They
negotiate on a peer-to-peer sidechannel, agree on signed TERMS, and settle:
the *maker* issues a Lightning invoice and deposits USDT in an escrow keyed by
its payment hash, the *taker* pays the invoice and claims the deposit with the
preimage. A deposit nobody claims goes back to the maker after a refund time.
These modules model that program as it is written under `src/`.

## Inventory

| Component | Code | State | Operations | Hard behaviour |
|---|---|---|---|---|
| Trade record | `swap/stateMachine.js`, `swap/schema.js` | one record per trade and party | `applySwapEnvelope`, one branch per envelope kind | replays, reordering, deadlines in mixed units |
| Trade worker | `prompt/tradeAuto.js` | event buffer, stage caches, aborted trades, retry counters | start, stop, `_tick`, stage start, retry, abort, pruning | ticks that outlive a stop, tools that outlive their timeout, stale snapshots, two workers waiting for each other |
| Tools | `prompt/executor.js` | sidechannel log, receipts, the standing connection | one tool per negotiation and settlement stage, cancel, recovery, sidechannel tools | several effects per tool with awaits between, partial failure |
| Receipts store | `receipts/store.js` | SQLite rows for trades, events, listing locks | upsert, list, delete | survives a crash; last writer wins |
| Pre-payment checks | `swap/verify.js`, `solana/verifyLnUsdtEscrow.js` | none | verify | checked before an await, used after it |
| Bridge client | `sc-bridge/client.js` | socket, pending calls | connect, rpc, close | a time-out resets every caller; reconnects lose subscriptions |
| Autopost | `prompt/autopost.js` | job table, timers, queues | start, run, stop | runs queued behind a slow post, sales between runs |
| LN peer guard | `prompt/lnPeerGuard.js` | busy flag, last attempt | start, stop, tick | forced ticks, long ticks, a cooldown |
| Managers | `peer/peerManager.js`, `rfq/botManager.js`, `solana/localValidatorManager.js` | pid and json files, child processes | start, stop, restart | a process that dies, ignores a signal or outlives the backend |
| RPC pool | `solana/rpcPool.js` | preferred endpoint | call | concurrent calls share the index |
| Router | `prompt/router.js` and friends | one conversation | run | model output |
| Lightning, Solana, price | `ln/`, `solana/`, `price/` | none | adapters | ambiguous outcomes |
| Entry point, UI | `src/index.js`, `ui/` | - | wiring, static files | - |

Components interact by calls (worker -> tools -> clients), by envelopes on the
sidechannel, which both peers append to a log the worker polls, and through
the receipts database and the chain, which outlive the process.

What makes each correct: the trade record must accept only evidence that fits
together; settlement must never pay without a claimable deposit, never lose a
deposit, and never leave both sides waiting; negotiation must never promise
one listing twice, and must bind the taker to the maker it chose; a stage must
not run twice, a job must not advertise what is sold, a store must not be opened
by two processes, a message must enter the log once.

## Modules

| Module | What it is |
|---|---|
| `SwapTrade` | `applySwapEnvelope`: one action per accepting branch |
| `SwapPhases` | what the record promises: phases go forward, the agreement and the hash are fixed once |
| `SwapTradeProofs` | theorems about `SwapTrade`, any number of parties and envelopes |
| `MCSwapTrade` | envelope sets for TLC |
| `Settlement` | two settlement workers, their tools, sidechannel, chain, crash, recovery |
| `EscrowPromise` | what settlement promises per payment hash |
| `SettlementProofs` | theorems about `Settlement`, any number of hashes, retries, faults and crashes |
| `OneInvoiceProofs` | what settlement keeps while the maker issues one invoice per trade |
| `MCSettlement` | symmetry of payment hashes for TLC |
| `ListingLocks` | one peer's reservations: accept and invite tools over the lock table |
| `ListingLocksProofs` | theorems about `ListingLocks`, any number of calls, trades, quotes and lines |
| `MCListingLocks` | which quote is for which trade and line, for TLC |
| `Negotiation` | a taker and several makers from RFQ to ACCEPT |
| `NegotiationProofs` | theorems about `Negotiation`, any number of makers, RFQs and faults |
| `MCNegotiation` | the peers, for TLC |
| `TradeWorker` | the engine of the worker: sessions, ticks, event buffer, stage caches |
| `TradeWorkerProofs` | theorems about `TradeWorker`, any number of stages, ticks and sessions |
| `BridgeClient` | the connection to the peer process, its callers and marked channels |
| `Autopost` | jobs that post offers and RFQs again |
| `ManagedProcesses` | peers, RFQ bots and the local validator with their pid files |
| `ManagedProcessesProofs` | theorems about `ManagedProcesses`, any number of names, stores and processes |
| `RpcPool` | calls that share the preferred endpoint |
| `LnPeerGuard` | ticks that reconnect the Lightning node |
| `Services` | the six services side by side: a behaviour runs one of them |
| `ServicesProofs` | theorems about the services, any number of jobs, clients, endpoints and calls |
| `MCServices` | jobs, lines, stages and channels for TLC |

`Negotiation` ends where `Settlement` begins: with TERMS and ACCEPT in both
logs. It takes each tool as one step; `ListingLocks` opens the accept and invite
tools up and shows that their lock behaves as `locked` does here, `Settlement`
opens up the later ones. `TradeWorker` is the engine both take for granted: they
have its tick and stage marks, it has the sessions, ages and pruning they leave
out.

### SwapTrade

`trade[r]` is the object `createInitialTrade` returns, kept by party `r`. An
action is one branch of `applySwapEnvelope` with all the checks in front of its
`return { ok: true }`; a rejected envelope returns no record and is no step.
Bodies are the sets `validateSwapBody` lets through; amounts, mints and
addresses that are only ever compared together are one value (`deal`), and the
hash of an envelope is what it covers (`ts` and body). Signature checks and
`trade_id` matching are left out: an envelope failing them changes nothing.
Operators without a role in `Next` that stand directly before a definition
(`StoreUnsigned`, `NamesPda`, ...) are faulty variants of it, kept to show that
the properties tell the code from a plausible mistake. `Settlement` has such
variants too.

### Settlement

The model starts after TERMS and ACCEPT. A worker (`Tick`, `Start...`,
`EscrowHeldBack`) reads a snapshot of its log, `view`, and starts one stage by
calling a tool. A tool call is a record in `calls` with a program counter that moves
from one await to the next: `CreateInvoice`, `RoutePrecheck`,
`EscrowGate/Send/Record`, `PayVerify/Send/Record`, `ClaimSend/Record`,
`CancelCheck`, `Post`, `CancelRecord`. The worker waits for the call named in
`awaited`; `ToolTimesOut` is `Promise.race` losing interest, after which the call
runs on while the worker retries or aborts. Faults, each counted by `faults`: a tool
fails before its effect, an effect happens and its answer is lost, a post times out
with or without having gone out, a tool times out, a process dies (only `rcpt`
survives). Besides these any envelope under way may be lost at any time (`Lose`):
the settlement tools post once, and nothing repeats INVOICE, the precheck status,
the escrow's announcement or LN_PAID. `RecoverRefund` and `RecoverClaim` are the
operator's recovery tools.

External, modelled from how the code uses them: the Solana program (init once
per hash, claim before and refund from the refund time on, as
`swap/verify.js:6-8` describes it), the Lightning network (a payment may
succeed and the answer be lost), the sidechannel (delay, reordering, loss).

Abstractions: deposit amounts and fees; invoice expiry; a tool's preparatory
reads are part of the step that has its effect; leaving the channel after an
abort (a subset of never delivering); recovery tools are atomic; refunds are
not announced (no tool of the executor posts one); a late route precheck has no
effect. Sidechannel envelopes are delivered at most once.

### ListingLocks

`locks` is the `listing_locks` table, `rows` the state column of `trades`,
`logged` and `escrows` what the in-memory log has of the peer's own accepts and
invites and of escrow envelopes, `joined` the channels of the peer process. A
tool call moves through `Inspect` (`_inspectListingState`), `TakeLock`
(`ensureListingLockAvailable` and the upsert, which have no await between them),
`GoesOut`, and then `SendReturns` or `SendFails`; an invite goes on to
`JoinReturns` or `JoinFails`. The two tools share the actions: a lock is keyed by
trade for an accept and by offer line for an invite (`Listing`), and a replay is
recognised by quote or by trade (`SameClaim`).

`Agree` and `Escrow` record the swap that follows. A trade has no outcome fixed
in advance: `RecordTerminal` is `executor.js:1711-1725`, which overwrites the row
and fills or deletes the trade's locks on every terminal envelope, whatever was
recorded before, so that a claim may follow a CANCEL and a CANCEL or a refund a
claim. The cancel tool looks only at its own log and receipts (`CancelChecks`),
then signs and sends, and records the end if that went well (`CancelReturns`).
`Restart` loses calls and log.

`sent`, `agreed`, `freed` and `slips` are history. `freed` has the trades ever
recorded as refunded or canceled, which give up their lock; `slips` the listings
whose lock the catch block deleted while an envelope or another call relied on
it. The properties say that nothing else ever loses a lock, takes it from its
holder, or marks it for another.

`Hazards` names what the setting allows: `overlap` (the worker's `Promise.race`
leaves a tool running while it is retried), `lost_reply` (`_rpc` times out
after the envelope left), `late_terminal` (a trade ends under its own call).

Abstractions: expiry checks and liquidity hints only make a call stop earlier;
quotes a maker could have posted are all there from the start (the lock check
of `quote_post` is advisory, the invite repeats it); legacy `rfq:<id>` locks;
a peer without a receipts store, which takes no locks at all; a quote without
an offer line, which needs none.

### Negotiation

`log` is what a backend has received and sent, `last` the latest envelope of
each kind, which is all `_buildContexts` keeps (`neg.quote` and so on, whoever
signed it); `marks` the caches of the workers and the receipts' active trade;
`locked` the taker's listing lock. The actions are the worker's stages with the
tool each calls: `PostQuote`, `AcceptQuote`, `SendInvite` or `InviteExists`,
`JoinInvite`, `PostTerms`, `ReplayTerms`, `Ping`, `WaitTimesOut`, `AcceptTerms`.
The guard of an action is the worker's condition and the tool's own check
(`ListingFree`, `ChannelKnown`). Faults, counted together: a message a peer
misses on the RFQ channel (sent once, read at once or never), a copy lost in the
swap channel, a join that fails after the invite went out, a restart, which
keeps receipts and peer process and loses log and caches. `Expire` is the end of
the quotes' validity.

Abstractions: one trade; liquidity and fee checks; aborts; pings that change
nothing any more; a status or repeated accept in a ping, which nobody who has
seen the first acts on.

### TradeWorker

`worker` holds the flags `running` and `_tickInFlight`, `ticks` the ticks that
await something, `cache` the stage caches and `_abortedTrades`, `seenAt` the
signed identities of events. A tick goes from await to await: keepalive,
`ReadLog`, `BuildContexts` with pruning, `RunStage`, the outcome of the call,
`TickEnds`. `stop` clears the flag and the caches while an old tick goes on;
that tick later marks the new session's caches and clears its flag. The model
keeps this: `StagesRunOnce` says what holds of a tick that has the worker to
itself (`alone`). `ended` is history: the stages that succeeded, and with an
abort those whose envelope had come in by then. The property is no stronger
than that, because an abort is forgotten after `_doneMaxAgeMs` like everything
else: an envelope that comes in for the first time after that, and while no
terminal one is known, starts its stage although the trade was aborted. Only
cancel or the counterparty's silence ends such a trade. Abstractions: one
trade; stages are known by the envelope that makes them due, and Settlement has
what they do; pruning by the number of trades.

### BridgeClient

`client` are the `ScBridgeClient` objects ever made, `current` and `connecting`
are `_sc` and `_scConnecting`, `marked` is `_scSubscribed`, `call` the tool calls,
cut at the awaits of `_scEnsurePersistent`, `connect` and each rpc. A time-out, an
error or a close resets the client for every caller (`Reset`, `Rejected`). What the
peer answers to a subscribe is any of three things (`Lists`): it adds the channels,
it makes them its whole list, as `executor.js:2936` says of some runtimes, or it
refuses, which `client.js:158-166` resolves like any reply and no caller looks at.
A join or a reconnect subscribes in the same way; a leave may be refused too.
`slipped` is history: the marked channels that were marked by a dry run, refused,
or dropped for another call's list, until the peer lists them again. So
`SubscriptionsKept` does not say that a mark means a subscription, which is not
so in this code; it says that reconnects, resets, failing calls and other callers
add no further way to lose one. `MidConnect` names the one setting
in which two connections feed the log: a `stack_stop` while a connect is under
way. Abstractions: the send tools are one (`use`), joins of many channels are
joins one by one.

### Autopost, ManagedProcesses, RpcPool, LnPeerGuard

`Autopost`: `job` are the job objects, `table` the map by name, which knows a
job only after its first run; `StartJob` and `RunQueued` are `runOnce` up to the
await of the posting tool, `PostReturns` and `PostLacksFunds` what follows,
`Fire` the timer. Counterparties buy lines that were posted (`Sell`), of
whichever job. A run reads the receipts of any part of the sales (`Reads`): a
store that is locked or corrupt is skipped (`executor.js:1456`), and a read that
throws is ignored (`autopost.js:224`, `239`), so that the job posts lines that
are sold, or an RFQ whose trade goes on. `missed` marks such a run while it
posts; `PostsOnlyOpen` is about the others, and says that what an earlier run
missed does no lasting harm.

`ManagedProcesses`: `procs` are live processes, `pidFile` and `config` the files
per name. A stop signals, waits and unlinks (`Stop`, `StopReturns`), a restart
goes on to spawn (`Restarted`). A process dies at any moment; the backend may
restart in the middle of a stop. Nothing keeps two calls about one name apart: a
start during a stop's wait loses its pid file to the unlink. `crossed` is history,
the names about which that happened, and the properties speak of the others:
what crosses under one name never harms a process of another.
Waiting for ports and reading logs change nothing and are left out.

`RpcPool`: each call runs through the endpoints from the shared index on, which
it reads anew for each attempt. `LnPeerGuard`: a tick lists the peers, then
probes; the time unit is the timer's interval.

## Runs

| Run | Configuration | Shows |
|---|---|---|
| `trade` | `SwapTrade` | two records of one trade against 24 envelopes, valid ones and one that misses each check, in all orders and repetitions, TERMS replaced and one ACCEPT signed: evidence fits together, phases go forward, the parties agree |
| `settle_one` | `SettlementOne` | one invoice, two faults anywhere, either process may die: `EscrowPromise`, refundability, precheck gate, envelopes and receipts never ahead of the facts |
| `settle_refund` | `SettlementRefund` | a locked deposit is claimed or refunded |
| `settle_workers` | `SettlementWorkers` | a second invoice, one fault: `EscrowPromise`, backed envelopes, and, whatever envelopes are lost, the workers wait for each other forever only if the one lost announced the deposit |
| `cancel_after_escrow` | `CancelAfterEscrow` | violated, see below |
| `precheck_per_invoice` | `PrecheckPerInvoice` | violated, see below |
| `refund_after_retry` | `RefundAfterRetry` | violated, see below |
| `locks` | `ListingLocks` | a peer that takes one trade with two quotes and makes two others on one line, three concurrent calls that may be about one trade, lost replies, failing sends and joins, restarts, every end recorded in every order: a second quote is accepted, or a line given away twice, only after the catch block lost a lock; lines are freed or marked sold |
| `second_quote_lost` | `SecondQuoteLost` | violated, see below |
| `negotiation` | `Negotiation` | a taker and two makers that both quote, two faults: the taker accepts one quote and TERMS of its maker only, pings and replays outlast the losses |
| `rival_quote` | `RivalQuote` | violated, see below |
| `services` | `Services` | each service in all its interleavings: jobs that read all their receipts post only what is open, all can be stopped and end; one process per store and no peer lost where calls did not cross; stages run once, marks and flags are given back; one feed of the log, subscriptions the peer grants and keeps survive reconnects; a failing RPC call has tried every endpoint; reconnects are a cooldown apart |

Bounds. The trade record has no counters: the runs are exhaustive for their
envelope sets, which have an envelope at and beyond every deadline. In
settlement `RefundAfter = 2`, `Margin = 1`, `MaxTime = 2` give a time when
paying is allowed, one when it is too late to pay but not to claim, and one
when only the refund works. `StageRetryMax = 1` lets every stage fail, be
retried and be given up; two faults let a timed-out tool meet a retry that
fails as well, or a crash follow a lost answer. `Hashes` bounds the invoices
the LN node issues; with one hash a retried invoice stage finds the node
unable to answer, so the one-hash runs speak about trades with a single
invoice and the two-hash runs about what a second one changes. Settlement may
come to rest (a swap given up, nothing in flight), so deadlock is not checked
there. The lock runs have no counters; three calls let a failing call, its
replay and a rival meet on one listing, and two trades of the same line let its
lock pass from one to the other. `locks` has `Hazards = {"overlap", "lost_reply"}`
and the constraint `OneSide`: taking and making share no lock and no row, so a
behaviour does one or the other. A peer may stop calling tools, so deadlock is
not checked.

In `negotiation` two makers are the least in which a rival's quote can be mistaken
for the chosen one; two pings and two replays against two faults cover the case
where repeats outlast the losses and the one where they do not; one RFQ is posted
again after a restart (posts that differ only in their time are the same envelope
here). In `services` the clock of `Autopost` runs one unit past the expiry of its
jobs, an offer and an RFQ that ask for the same name, with two lines of one amount;
`TradeWorker` has two stages, so that an abort in one of them meets the other, two
sessions and two ticks, so that an old tick meets a new one, and a horizon beyond
the age at which caches are pruned (`EventMaxAge` 0, `ReplayFor` and `DoneMaxAge` 1,
`WorkHorizon` 2); two processes at a time, of two peers, a bot and a validator on
one store, where calls about one peer and about the validator may cross
(`Crossable`); two clients, the least in which a channel is lost or kept over a
reconnect, and two channels, the least in which one subscribe drops another's; three
endpoints let another call's success move the index past one of them. The six
services share no state in the code, so running one at a time loses nothing, and the
sum of their state spaces, not the product, is searched. All of them may come to
rest.

Fairness. `RefundFairness`: time passes and the operator keeps running the recovery
tool, which the receipts workflow asks for. `WorkerFairness`: the tick timer keeps
firing (`setInterval`, `tradeAuto.js:707`), some tool in flight takes its next step,
some envelope under way is delivered unless all are lost; nothing is assumed of a
lost envelope or a crashed process. `Negotiation`: the worker goes on posting and
repeating TERMS and pinging, and copies that are not lost arrive; nothing is assumed
of an operator, of a tool that joins or accepts, or of a restart. `Autopost`: time
passes and a due timer fires (`setInterval`); a post may hang for ever.
`TradeWorker`: a tick that awaits a call goes on, since every call it makes has a
timeout (`_runToolWithTimeout`, `tradeAuto.js:380`).

## What the violated runs show

* `cancel_after_escrow`: the escrow tool outlives its timeout; the worker
  aborts and the cancel tool, finding no escrow in log or receipts, posts
  CANCEL; between check and record the deposit goes on chain.
  `executor.js:4987` says CANCEL is only allowed before escrow is created.
* `precheck_per_invoice`: the invoice post times out after it went out; the
  retry issues another invoice. The payer prechecks the first one it sees, and
  its status, which names no invoice, opens the gate for the other.
  `executor.js:6028` asks for a precheck of the current invoice.
* `refund_after_retry`: the first invoice tool finishes late and overwrites
  `ln_payment_hash_hex` in the receipts of a trade whose deposit is locked
  under the retry's hash. The recovery tool looks up the overwritten hash;
  the deposit stays locked though time passes and the tool is run forever.
* `second_quote_lost`: the reply to an accept is lost, its lock is deleted
  (`executor.js:4151`) and it is not in the log; a second quote is accepted.
  `executor.js:4090` says two quotes are never accepted.
  With `Hazards = {"overlap"}` in its place the same configuration gives a
  second way: a replay of a running accept passes without a lock of its own;
  the first call fails and deletes the lock; another quote is accepted and then
  the replay sends, though `executor.js:4069` speaks of a different quote being
  rejected while a prior accept is in flight.

* `rival_quote`: two makers quote, the second quote comes last in both logs; the
  taker accepts the first. Its maker's worker takes the latest quote of the
  trade for its TERMS (`tradeAuto.js:1147`), with the rival's fee receiver, and
  the taker accepts them. `SKILL.md:1405` says the receiver is the maker's to
  choose.

Not a violated run, since no text promises otherwise: with `late_terminal`
a trade ends under its own call. A later upsert of that call (say `executor.js:4414`)
then takes the listing back for a trade that was canceled (`EndedHoldsNothing`), or
puts the lock in flight again that a claim had marked (`SoldIsFilled`,
`FilledStays`).

Nor is this one a run: if the announcement of a deposit is lost, the taker waits
for an escrow and the maker for a payment, and neither wait has a time-out
(`tradeAuto.js:2224-2307`). The USDT stay locked until the maker's operator takes
them back after the refund time. `WorkersFinish` names this case (`EscrowUnheard`)
and shows that it is the only one: the loss of an invoice or of a precheck status
ends with the maker's bounded retries (`2314-2341`).

## Proofs

All theorems hold for every value of the constants that meets the assumptions
named with them. Almost all state a property TLC checks as well; the step lemmas
have one part per action.

`SwapTradeProofs` proves with TLAPS, for every set of parties and envelopes
(assumptions: envelopes pass the schema, `EnvelopesAssumption`; `None` is no
body, number or hash, `NoneAssumption`): `TypeCorrect`, `EvidenceChained`,
`NeverClaimAndRefund`, `CanceledUnfunded`, `BoundPartiesAgree`, `RefundsWait`
and the refinement `RefinesPhases`. None of the invariants is inductive by
itself: what keeps, say, a refund from following a payment is that the state
field tells which evidence is on record. `Inv` says so (`Backed`: state,
agreement and evidence fields correspond, and an agreement comes from an
ACCEPT envelope; `Chained`: the evidence refers to the same hash, escrow and
deal). One lemma per group of branches shows that the record it stores is
`Backed` and `Chained`; `GoodStore` turns that into `Inv'`. The refinement
maps each branch to one step of `SwapPhases` or a stutter.

`ListingLocksProofs` proves the properties of `ListingLocks` that `locks` checks for
any number of calls, trades, quotes and lines, with overlapping calls, lost replies,
restarts and any sequence of ends; `ListingAssumption` is its only assumption on the
sets. `LocksTyped` (`TypeOK`) and `AcceptsOneQuote` (`OneQuotePerLock`) hold for
every `Hazards`; `InvitesOneTrade` (`OneTradePerLine`), `EndedIsFree`
(`EndedHoldsNothing`), `SoldIsMarked` (`SoldIsFilled`) and `FilledIsKept`
(`FilledStays`) need that no end is recorded under a running call of the same trade
(`NoLateEnd`), without which the last three are false, as said above. The invariant
`IInv`: a quote that was sent, or whose call is past `TakeLock`, is `Covered`, that
is, unless its trade was freed or its listing slipped, the listing's lock is of the
same claim. So no call writes over another claim's lock, and a catch block that
deletes a lock somebody relies on is by definition a slip. With `NoLateEnd`
(`EndInv`) a running call's trade is not over and each lock says of its trade what
the receipts say.

`NegotiationProofs` proves `OneQuoteCommitted` (`OneCommitment`) and
`BoundToItsMaker` (`AcceptsItsMaker`) for any sets of makers and RFQs and any
number of losses, restarts, pings and replays, from `Apart`: the taker is no
maker, and `None` names nobody. Neither is inductive. `IInv` says why the gap in
the accepting tool, which does not look at the signer, does no harm: every
QUOTE_ACCEPT in any log is about the quote the listing lock holds
(`LogsBacked`); the lock never goes over to another quote; a maker joins the
swap channel only after an accept of its own quote (`JoinedChosen`), so that
only the chosen maker's TERMS are under way there (`NetSound`). What a maker
that was not chosen posts stays in its own log.
`NegotiationTyped` (`TypeOK`) adds what an envelope of each kind carries,
wherever it is (`Proper`, `Copy`), so that what TERMS, ACCEPT and pings take
from the latest quote, TERMS or invite is there and of its kind; it needs
`Bounded` (a finite number of makers, so that losses can be counted).

`SettlementProofs` proves, with no assumption beyond those `Settlement` states
of its constants, that settlement implements `EscrowPromise`
(`SettlementKeepsPromise`), that receipts are never ahead of the chain
(`ReceiptsTrue`) and `SettlementTyped`: with any number of hashes, retries,
time-outs, lost envelopes and crashes. Nothing here follows from the state of
the worker, since a tool that lost its worker goes on. So the invariant `GInv`
says of every tool in flight, awaited or not, at each of its steps (`CallOK`),
of every envelope on its way and every entry of a log (`EnvOK`) what must have
happened for it to be there: the invoice issued, a precheck made, the deposit
on chain, the payment sent, the preimage recorded. These facts are never
undone (`ChainOK`, `RcptOK` relate them to each other), so a step has to
establish only what it adds. The refinement then maps each tool's effect to
`Lock`, `Commit`, `Pay`, `Claim` or `Refund`; that a payer commits only with
time left comes from the check and the commitment being one step of the tool
(`PayVerify`), and from the promise asking for no more than that.

`OneInvoiceProofs` states what holds while the maker has issued one invoice for the
trade: `MakerCanRefund`, `EscrowNeedsPrecheck` and `EnvelopesBacked` hold in every
such state whatever the constants (`OneInvoiceEnough`). With `StageRetryMax = 0`, or
one hash, there never is a second invoice (`OneInvoiceOnly`, from `OneInvoice`),
hence `RefundFindable`, `PrecheckBeforeDeposit` and `NoEnvelopeAhead` without a
condition on the state. The assumption cannot be dropped: the runs
`refund_after_retry` and `precheck_per_invoice` break the first two with a retried
invoice.

`TradeWorkerProofs` proves `MarkedIsAwaited` (`MarksBacked`) and `RunsOnce`
(`StagesRunOnce`) for any stages, ticks, sessions and times. The caches forget,
so the invariant says of a stage that ended that a cache holds it (`Held`) or
that it is past running (`Past`): the first copy of its envelope is stale, or a
terminal envelope came in with it or later. That is enough because of the
buffer of events (`EventsKept`): it has the first copy of whatever was read and
takes a repeat only once that is stale too. This last fact rests on
`AgesAssumption`, `ReplayFor + EventMaxAge <= DoneMaxAge`: what was seen is
remembered for longer than an envelope repeats and stays fresh. The defaults
give 40 minutes against 4 minutes of replays (40 of 6 seconds,
`tradeAuto.js:509-518`) and 10 minutes; an operator who sets `done_max_age_ms`
below that loses the guarantee, and nothing in `start` refuses such options.

`ServicesProofs` proves the properties of the other services under `ServicesSpec`:

* `EveryUrl` (`EveryUrlTried`): a call whose index nobody moved has tried just
  what lies between the index and where it is (`Spanned`), so all of it at the
  last attempt.
* `CooldownKept` (`AttemptsApart`): `wasConnected` is up only if the peer was
  seen since the last attempt or while the attempt lasts.
* `FedOnce` (`OneFeed`) and `MarksHold` (`SubscriptionsKept`), from `MidConnect =
  FALSE`: one client is current or connecting, never both, every call awaits that
  one (`CallPlaced`), and a marked channel that did not slip is listed there or
  asked for by a call (`MarkedCovered`), whichever way the peer answers each
  subscribe. A `stack_stop` in the middle of a connect breaks it.
* `StopFinds` (`Stoppable`) and `PostsOpen` (`PostsOnlyOpen`): the table holds a
  job under its own name, lines are sold only after their job started, a timer
  leaves one queued run per second at most. Each run reads any part of the sales.
  One that reads them all drops, by a counting argument (`RankBound`), as many
  lines of an amount as were sold, also if earlier runs missed some and posted
  them again; so at most the unsold number is left to post. It needs finitely many
  jobs and numbered lines (`AutoAssumption`).
* `ServicesTyped` (`ShapesKept`) and `ProcessesKept` put the components together
  (`MidConnect = FALSE`, `Kinds`).

`ManagedProcessesProofs` proves `StoresKeptApart` (`OneProcessPerStore`),
`RunningRecorded` (`RunningIsRecorded`) and `ProcessesTyped` from its `Kinds`:
peers, bots and the validator have different names, and `None` is no value. Calls
may cross about any names (`Crossable` is arbitrary). Of the names about which
none did, the invariant relates files to processes
(`Written`, `StoreKnown`: the json file of a live peer names its store, so the
scan of a start sees it) and files to the stops that wait (`WaitsKept`: the
pid a stop is about to unlink is still the one it signalled; `WaitsApart`: no
other call wrote that file meanwhile; `WaitsSignalled`: a validator that is
waited for has its signal). Bots are not meant: a start of theirs never looks for
a running one and overwrites its file; nor is a validator that was signalled,
which may outlive its pid file.

Only model-checked: liveness (`LockedResolves`, `WorkersFinish`, `RetriesReach`,
`TimersEnd`, `FlagReleased`), which is beyond the installed provers. Every
invariant and every other action property of the passing runs is stated by a
theorem, under the conditions named above, which the runs meet too, with one
exception: `settle_workers` checks `EnvelopesBacked` with a second invoice.
`TermsFollowQuote` is false with two makers (run
`rival_quote`).

## Not modelled

* Router and tool-call loop: sequential, a language model proposes calls and the
  router runs them one after the other; the rest is text and schemas
  (`prompt/tools.js`, `prompt/repair.js`).
* Price oracle: each request stands alone; a median of decimal prices has no
  order of steps to get wrong.
* Lightning and Solana clients, signatures, configuration, redaction, HTTP
  headers: adapters and encodings without state; their outcomes are external
  choices in the models that call them.
* Entry point and UI: wiring and static files.
* Of the modelled components: the leaving of stale swap channels and the
  liquidity and fee guardrails of the worker, wallet and read-only tools,
  pruning by size, the event table and the migrations of the receipts store.

Hazards without a property are in `PROJECT.json` with the reason: most are gaps
for which no text of the repository promises anything better.

## Plan

1. What `late_terminal` leaves of `EndedHoldsNothing`, `SoldIsFilled` and
   `FilledStays`: a history of the calls whose trade ended under them would tell
   their own late upserts from another call's.
2. `EnvelopesBacked` with more than one invoice: the run `settle_workers` finds
   it true with two, its proof has to know which invoice a taker pays.
3. The leaving of stale channels (`tradeAuto.js:1262-1340`) in `TradeWorker`.
