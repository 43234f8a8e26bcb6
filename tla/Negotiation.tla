---------------------------- MODULE Negotiation ----------------------------
(***************************************************************************)
(* How the workers of a taker and of several makers get from an RFQ to     *)
(* accepted TERMS: the first stages of TradeAutoManager._tick with the     *)
(* tools they call.  All makers read the RFQ channel; the swap channel is  *)
(* for those who joined it, and reaches the taker once the maker's peer    *)
(* has the invite the taker sends it ("auth").                             *)
(*                                                                         *)
(* One trade.  Each tool is one step here (ListingLocks and Settlement     *)
(* open tools up): it posts, or fails and leaves nothing behind but a      *)
(* retry.  Aborts, and the checks of liquidity and fees, are left out.     *)
(* The sidechannel is external: what goes to the RFQ channel reaches a     *)
(* peer at once or never; in the swap channel copies are late or lost.     *)
(***************************************************************************)
EXTENDS Integers, FiniteSets

CONSTANTS Makers, Taker,
          Rfqs,        \* posts of the RFQ; a repost after a restart reuses one
          PingMax,     \* waiting_terms_max_pings
          ReplayMax,   \* terms_replay_max
          MaxFaults,   \* bound on losses, restarts and failed joins
          None

VARIABLES log,       \* what each backend has received and sent
          last,      \* the latest of each kind in a log
          net,       \* the swap channel: copies under way
          joined,    \* peers in the swap channel
          authed,    \* makers whose peer let the taker in
          marks,     \* the worker's caches: what it has dealt with
          locked,    \* the taker's listing lock: the quote it accepted
          wait,      \* the taker's waiting_terms state
          replays,   \* TERMS sent again, by maker
          expired,   \* quotes past valid_until_unix
          faults

vars == <<log, last, net, joined, authed, marks, locked, wait, replays, expired, faults>>

Peers == Makers \cup {Taker}
Quotes == [maker : Makers, rfq : Rfqs]
NoQuote == [maker |-> None, rfq |-> None]

\* An envelope: who signed it, whose envelope it answers, and the RFQ or quote
\* it is about (for TERMS: the quote its numbers are taken from).
Env(kind, by, to, re) == [kind |-> kind, by |-> by, to |-> to, re |-> re]

Rfq(r) == Env("rfq", Taker, None, [maker |-> None, rfq |-> r])
Quote(q) == Env("quote", q.maker, Taker, q)
QuoteAccept(q) == Env("quote_accept", Taker, q.maker, q)
Terms(m, q) == Env("terms", m, Taker, q)
Accept(t) == Env("accept", Taker, t.by, t.re)
Auth(m) == Env("auth", Taker, m, NoQuote)

\* What the worker marks: <<what, which>>.
Active == <<"active", NoQuote>>        \* in the receipts: a trade under way
TradeLock == <<"tradeLock", NoQuote>>

NoWait == [pings |-> 0, timedOut |-> FALSE]

Init ==
  /\ log = [p \in Peers |-> {}]
  /\ last = [p \in Peers |-> [k \in {} |-> NoQuote]]
  /\ net = {}
  /\ joined = {} /\ authed = {}
  /\ marks = [p \in Peers |-> {}]
  /\ locked = NoQuote
  /\ wait = NoWait
  /\ replays = [m \in Makers |-> 0]
  /\ expired = {}
  /\ faults = 0

-----------------------------------------------------------------------------
(* The log of a peer, as _buildContexts and _inspectListingState read it *)

Kinds(p) == { e.kind : e \in log[p] }
Latest(p, kind) == last[p][kind]
Knows(p, kind) == kind \in Kinds(p)

\* _scLogAppend at peers ps
Logged(ps, e) ==
  /\ log' = [p \in Peers |-> IF p \in ps THEN log[p] \cup {e} ELSE log[p]]
  /\ last' = [p \in Peers |->
                IF p \in ps
                THEN [k \in DOMAIN last[p] \cup {e.kind} |-> IF k = e.kind THEN e ELSE last[p][k]]
                ELSE last[p]]

\* What goes wrong is counted.
Faulty(n) == faults + n <= MaxFaults /\ faults' = faults + n

HasTerms(p) == Knows(p, "terms")
HasAccept(p) == Knows(p, "accept")

\* A swap message, or an invite, which names the channel.
HasContext(p) == Kinds(p) \cap {"terms", "accept", "swap_invite"} # {}

\* Listing is free for the quote and accept tools: not in flight, not ended.
ListingFree(p) ==
  /\ Kinds(p) \subseteq {"rfq", "quote"}
  /\ p \notin joined
  /\ Active \notin marks[p]

\* Any quote of its own for the trade makes a peer a maker of it.
IAmMaker(p) == \E e \in log[p] : e.kind \in {"quote", "terms"} /\ e.by = p

\* Who a message goes out to. Swap messages reach those who joined.
Audience(from) ==
  IF from \notin joined THEN {}
  ELSE { p \in joined \ {from} : p = Taker => from \in authed }

Copies(e, from) == { [env |-> e, to |-> p] : p \in Audience(from) }

\* A copy arrives or is lost within the cooldown of its repeats.
UnderWay(kind) == \E c \in net : c.env.kind = kind

\* _sendEnvelopeLogged to the RFQ channel: some peers may miss it, and nobody
\* sends it again. f more faults come with it.
Announce(e, f) ==
  \E lost \in SUBSET (Peers \ {e.by}) :
    /\ Faulty(f + Cardinality(lost))
    /\ Logged(Peers \ lost, e)

\* _sendEnvelopeLogged to the swap channel
Post(e) ==
  /\ Logged({e.by}, e)
  /\ net' = net \cup Copies(e, e.by)

Mark(p, m) == marks' = [marks EXCEPT ![p] = @ \cup m]

-----------------------------------------------------------------------------
(* RFQ, quote, accept, invite, join *)

\* The autopost job, or the operator after a restart, repeats the RFQ until the
\* receipts say that the trade goes on, which an accepted quote does not.
PostRfq(r) ==
  /\ Rfq(r) \notin log[Taker]
  /\ Active \notin marks[Taker]
  /\ Announce(Rfq(r), 0)
  /\ UNCHANGED <<net, joined, authed, marks, locked, wait, replays, expired>>

\* An RFQ of another peer that has not been dealt with.
QuoteDue(m, q) == Rfq(q.rfq) \in log[m] /\ <<"quoted", q>> \notin marks[m]

PostQuote(m, r) ==
  LET q == [maker |-> m, rfq |-> r]
  IN  /\ QuoteDue(m, q)
      /\ ListingFree(m)
      /\ q \notin expired
      /\ Announce(Quote(q), 0)
      /\ Mark(m, {<<"quoted", q>>})
      /\ UNCHANGED <<net, joined, authed, locked, wait, replays, expired>>

\* Mutant: without the lock in the receipts the log alone says what is accepted.
LockFreeInLog(q) == TRUE

\* The lock is free, or held for the same quote.
LockFree(q) == locked \in {NoQuote, q}

\* A quote for an RFQ of its own, with none accepted by this worker.
Acceptable(q) ==
  /\ Quote(q) \in log[Taker] /\ <<"accepted", q>> \notin marks[Taker]
  /\ \E e \in log[Taker] : e.kind = "rfq"
  /\ q \notin expired
  /\ TradeLock \notin marks[Taker]

AcceptQuote(q) ==
  /\ Acceptable(q)
  /\ ListingFree(Taker) /\ LockFree(q)
  /\ Announce(QuoteAccept(q), 0)
  /\ locked' = q
  /\ Mark(Taker, {<<"accepted", q>>, TradeLock})
  /\ UNCHANGED <<net, joined, authed, wait, replays, expired>>

\* Mutant: any accept of the trade is answered with an invite.
AnyAccept(m, q) == \E e \in log[m] : e.kind = "quote_accept"

\* A fresh accept of a quote of its own.
MyAccept(m, q) ==
  /\ QuoteAccept(q) \in log[m]
  /\ Quote(q) \in log[m] /\ q.maker = m

InviteDue(m, q) ==
  /\ MyAccept(m, q)
  /\ q \notin expired
  /\ <<"invited", q>> \notin marks[m]

ChannelKnown(m) == HasContext(m) \/ m \in joined \/ Active \in marks[m]

\* The invite goes out, then the maker joins; a join that fails after that is
\* not tried again: the next call finds that the invite exists.
SendInvite(m, q) ==
  /\ InviteDue(m, q) /\ ~ChannelKnown(m)
  /\ \/ /\ Announce(Env("swap_invite", m, Taker, q), 0)
        /\ joined' = joined \cup {m}
        /\ Mark(m, {<<"invited", q>>})
     \/ /\ Announce(Env("swap_invite", m, Taker, q), 1)
        /\ UNCHANGED <<joined, marks>>
  /\ UNCHANGED <<net, authed, locked, wait, replays, expired>>

InviteExists(m, q) ==
  /\ InviteDue(m, q) /\ ChannelKnown(m)
  /\ Mark(m, {<<"invited", q>>})
  /\ UNCHANGED <<log, last, net, joined, authed, locked, wait, replays, expired, faults>>

\* intercomswap_join_from_swap_invite, which a waiting taker repeats; it sends the invite to the inviter's peer.
JoinChannel(i) ==
  /\ i.kind = "swap_invite"
  /\ joined' = joined \cup {Taker}
  /\ net' = IF Taker \in joined THEN net
            ELSE net \cup {[env |-> Auth(i.by), to |-> i.by]}

JoinInvite(i) ==
  /\ i \in log[Taker] /\ <<"joined", i.re>> \notin marks[Taker]
  /\ JoinChannel(i)
  /\ Mark(Taker, {<<"joined", i.re>>})
  /\ UNCHANGED <<log, last, authed, locked, wait, replays, expired, faults>>

-----------------------------------------------------------------------------
(* TERMS and ACCEPT *)

TermsDue(m) ==
  /\ IAmMaker(m) /\ HasContext(m) /\ ~HasTerms(m)
  /\ {"rfq", "quote", "quote_accept"} \subseteq Kinds(m)

\* The numbers come from the latest quote of the trade, whoever signed it.
PostTerms(m) ==
  /\ TermsDue(m)
  /\ Post(Terms(m, Latest(m, "quote").re))
  /\ Mark(m, {Active})
  /\ UNCHANGED <<joined, authed, locked, wait, replays, expired, faults>>

\* Mutant: TERMS are repeated once.
ReplaysLeftOnce(m) == replays[m] = 0

ReplaysLeft(m) == replays[m] < ReplayMax

ReplayTerms(m) ==
  /\ IAmMaker(m) /\ HasTerms(m) /\ ~HasAccept(m)
  /\ Latest(m, "terms").re \notin expired
  /\ ReplaysLeft(m) /\ ~UnderWay("terms")
  /\ m \in joined
  /\ replays' = [replays EXCEPT ![m] = @ + 1]
  /\ net' = net \cup Copies(Latest(m, "terms"), m)
  /\ UNCHANGED <<log, last, joined, authed, marks, locked, wait, expired, faults>>

Waiting == HasContext(Taker) /\ ~HasTerms(Taker) /\ ~HasAccept(Taker)

\* Mutant: one ping too many.
PingsLeftOne == wait.pings <= PingMax

PingsLeft == wait.pings < PingMax

\* The invite for the maker's peer once more, and the accept and a status,
\* which nobody acts on who has seen them. Pings that change nothing are left out.
Ping ==
  /\ Waiting /\ ~wait.timedOut /\ PingsLeft
  /\ ~UnderWay("auth") /\ authed = {}
  /\ wait' = [wait EXCEPT !.pings = @ + 1]
  /\ net' = net \cup
       (IF Knows(Taker, "swap_invite") /\ Taker \in joined
        THEN LET m == Latest(Taker, "swap_invite").by IN {[env |-> Auth(m), to |-> m]}
        ELSE {})
  /\ UNCHANGED <<log, last, joined, authed, marks, locked, replays, expired, faults>>

\* The worker's trade lock goes and the channel is left; the lock in the receipts
\* stays.
WaitTimesOut ==
  /\ Waiting /\ ~wait.timedOut
  /\ wait' = [wait EXCEPT !.timedOut = TRUE]
  /\ marks' = [marks EXCEPT ![Taker] = @ \ {TradeLock}]
  /\ joined' = joined \ {Taker}
  /\ authed' = {}
  /\ UNCHANGED <<log, last, net, locked, replays, expired, faults>>

AcceptDue == HasTerms(Taker) /\ ~HasAccept(Taker)

\* Any TERMS that name this peer as payer; their signer is not looked at.
AcceptTerms ==
  /\ AcceptDue
  /\ Post(Accept(Latest(Taker, "terms")))
  /\ Mark(Taker, {Active})
  /\ wait' = NoWait
  /\ UNCHANGED <<joined, authed, locked, replays, expired, faults>>

-----------------------------------------------------------------------------
(* The sidechannel, time and restarts *)

\* An envelope that repeats is told by its signature and dropped.
Deliver(c) ==
  /\ c \in net
  /\ net' = net \ {c}
  /\ IF c.env.kind = "auth"
     THEN /\ authed' = authed \cup ({c.to} \cap joined)
          /\ UNCHANGED <<log, last>>
     ELSE /\ IF c.env \in log[c.to] \/ c.to \notin joined
             THEN UNCHANGED <<log, last>> ELSE Logged({c.to}, c.env)
          /\ UNCHANGED authed
  /\ UNCHANGED <<joined, marks, locked, wait, replays, expired, faults>>

\* What else is lost is never delivered: no other repeat depends on it.
Lose(c) ==
  /\ c \in net /\ c.env.kind # "accept"
  /\ net' = net \ {c}
  /\ Faulty(1)
  /\ UNCHANGED <<log, last, joined, authed, marks, locked, wait, replays, expired>>

\* Quotes last three minutes.
Expire ==
  /\ expired = {}
  /\ expired' = { e.re : e \in { f \in UNION { log[p] : p \in Peers } : f.kind = "quote" } }
  /\ expired' # {}
  /\ UNCHANGED <<log, last, net, joined, authed, marks, locked, wait, replays, faults>>

\* The backend restarts: the receipts and the peer process, with its channels, last.
Restart(p) ==
  /\ Faulty(1)
  /\ log' = [log EXCEPT ![p] = {}]
  /\ last' = [last EXCEPT ![p] = [k \in {} |-> NoQuote]]
  /\ marks' = [marks EXCEPT ![p] = @ \cap {Active}]
  /\ wait' = IF p = Taker THEN NoWait ELSE wait
  /\ replays' = [m \in Makers |-> IF m = p THEN 0 ELSE replays[m]]
  /\ UNCHANGED <<net, joined, authed, locked, expired>>

MakerStep(m) ==
  \/ \E r \in Rfqs : PostQuote(m, r)
  \/ \E q \in Quotes : SendInvite(m, q) \/ InviteExists(m, q)
  \/ PostTerms(m)
  \/ ReplayTerms(m)

TakerStep ==
  \/ \E r \in Rfqs : PostRfq(r)
  \/ \E q \in Quotes : AcceptQuote(q)
  \/ \E i \in log[Taker] : JoinInvite(i)
  \/ Ping
  \/ WaitTimesOut
  \/ AcceptTerms

Next ==
  \/ \E m \in Makers : MakerStep(m)
  \/ TakerStep
  \/ \E p \in Peers : Restart(p)
  \/ \E c \in net : Deliver(c) \/ Lose(c)
  \/ Expire

\* The workers' timers go on; what is not lost arrives.
Fairness ==
  /\ \A m \in Makers : WF_vars(PostTerms(m)) /\ WF_vars(ReplayTerms(m))
  /\ WF_vars(Ping)
  /\ WF_vars(\E c \in net : Deliver(c))

Spec == Init /\ [][Next]_vars /\ Fairness

-----------------------------------------------------------------------------
Kind == {"rfq", "quote", "quote_accept", "swap_invite", "terms", "accept"}
Envs == [kind : Kind \cup {"auth"}, by : Peers, to : Peers \cup {None},
         re : [maker : Makers \cup {None}, rfq : Rfqs \cup {None}]]

TypeOK ==
  /\ \A p \in Peers : log[p] \subseteq Envs /\ DOMAIN last[p] = Kinds(p)
  /\ net \subseteq [env : Envs, to : Peers]
  /\ joined \subseteq Peers /\ authed \subseteq Makers
  /\ locked \in Quotes \cup {NoQuote}
  /\ wait \in [pings : 0 .. PingMax, timedOut : BOOLEAN]
  /\ replays \in [Makers -> 0 .. ReplayMax]
  /\ expired \subseteq Quotes
  /\ faults \in 0 .. MaxFaults

\* The TERMS a taker binds itself to are signed by the maker whose quote it
\* accepted, although the tool that accepts does not look at the signer and every
\* maker that quoted takes itself for the maker of the trade and posts TERMS
\* (tradeAuto.js:1810-1813, 1856-1920, executor.js:5044-5106).
AcceptsItsMaker ==
  \A e \in log[Taker] : e.kind = "accept" => locked # NoQuote /\ e.to = locked.maker

\* Accepts of two quotes of a trade are never abroad, through reposts of the RFQ,
\* the time-out that drops the worker's trade lock (tradeAuto.js:2013) and restarts
\* that empty the log (executor.js:4004-4012, 4046-4132).
OneCommitment ==
  \A e, f \in UNION { log[p] : p \in Peers } :
    e.kind = "quote_accept" /\ f.kind = "quote_accept" => e = f

\* The taker waits in the swap channel of maker m.
WaitsFor(m) ==
  /\ Waiting /\ ~wait.timedOut /\ {Taker, m} \subseteq joined
  /\ Knows(Taker, "swap_invite") /\ Latest(Taker, "swap_invite").by = m

Offers(m) == HasTerms(m) /\ ~HasAccept(m) /\ Latest(m, "terms").re \notin expired

LossesLeft == MaxFaults - faults

\* As long as more repeats are left than messages can still be lost, the invite
\* reaches the maker's peer and TERMS reach the taker, however late it joined,
\* unless one of them gives up, restarts or the quote expires
\* (tradeAuto.js:1922-1967, 1969-2152).
RetriesReach ==
  \A m \in Makers :
    /\ (WaitsFor(m) /\ PingMax - wait.pings > LossesLeft) ~> (m \in authed \/ ~WaitsFor(m))
    /\ (WaitsFor(m) /\ Offers(m) /\ m \in authed /\ ReplayMax - replays[m] > LossesLeft)
         ~> (HasTerms(Taker) \/ ~WaitsFor(m) \/ ~Offers(m))

\* The TERMS that are accepted pay the trade fee of the maker that was chosen:
\* its own quote's collector.
TermsFollowQuote ==
  \A e \in log[Taker] : e.kind = "accept" => e.re.maker = e.to
=============================================================================
