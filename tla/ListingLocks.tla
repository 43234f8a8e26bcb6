---------------------------- MODULE ListingLocks ----------------------------
(***************************************************************************)
(* How one peer reserves a listing before it commits to a counterparty     *)
(* (src/src/prompt/executor.js, the listing_locks table of                 *)
(* src/src/receipts/store.js).                                             *)
(*                                                                         *)
(* As taker of a trade it answers a quote with QUOTE_ACCEPT under the lock *)
(* rfq_trade:<trade>; as maker it answers an accept with SWAP_INVITE under *)
(* the lock offer_line:<offer>:<line>.  Each tool inspects the listing,    *)
(* takes the lock, sends and writes the lock again, with awaits between:   *)
(* calls for other trades, and in some settings for the same trade, run in *)
(* the gaps.  The log of the backend dies with it; the database survives.  *)
(* A terminal envelope is recorded whatever was recorded before: it fills  *)
(* the trade's locks after a claim and deletes them after anything else.   *)
(*                                                                         *)
(* The counterparty, the escrow and the peer process are external.         *)
(***************************************************************************)
CONSTANTS Workers,   \* tool calls that may run at the same time
          Trades,
          Taken,     \* trades in which this peer is the taker
          Quotes,    \* quotes to accept (Taken) or to invite for (others)
          TradeOf,   \* trade_id of a quote
          Lines,     \* offer lines of this peer
          LineOf,    \* offer_id and offer_line_index of a quote of its own
          NoLock,
          Hazards    \* what the setting allows, see below

(***************************************************************************)
(* overlap:       a second call for a trade starts while one is running, a *)
(*                retry of a stage that timed out or a click in the UI;    *)
(* lost_reply:    the bridge's reply is lost and the send reported failed, *)
(*                although the envelope went out;                          *)
(* late_terminal: a terminal envelope or a cancel for a trade is recorded  *)
(*                while a call for that trade is running.                  *)
(***************************************************************************)
ASSUME ListingAssumption ==
  /\ Taken \subseteq Trades
  /\ TradeOf \in [Quotes -> Trades]
  /\ LineOf \in [Quotes -> Lines]
  /\ Trades \cap Lines = {}
  /\ NoLock \notin [trade : Trades, quote : Quotes,
                 state : {"in_flight", "filled"}]
  /\ Hazards \subseteq {"overlap", "lost_reply", "late_terminal"}

VARIABLES
  locks,     \* the listing_locks table
  rows,      \* rows[t]: state of t in the trades table
  logged,    \* trades whose accept or invite is in the backend's log
  escrows,   \* trades whose escrow envelope or a later one is in it
  joined,    \* trades whose swap channel the peer process has joined
  calls,     \* calls[w]: what call w is doing
  canceling, \* trades for which a cancel has passed its checks
  sent,      \* history: quotes whose accept or invite went out
  agreed,    \* history: trades of which TERMS or ACCEPT was recorded
  freed,     \* history: trades ever recorded as refunded or canceled
  slips      \* history: listings whose lock was deleted under an envelope

vars == <<locks, rows, logged, escrows, joined, calls, canceling,
          sent, agreed, freed, slips>>

Listings == Taken \cup Lines
Terminals == {"claimed", "refunded", "canceled"}

\* No row, or one from before the swap ("rfq"); the swap under way without and
\* with an escrow ("terms" to "invoice", "escrow" to "ln_paid"); its ends.
RowStates == {"none", "active", "escrow"} \cup Terminals

\* listing_key; one per trade when taking, one per offer line when making.
Listing(q) == IF TradeOf[q] \in Taken THEN TradeOf[q] ELSE LineOf[q]

\* trade_id, state and the quote_id kept in meta_json.
Lock(q, s) == [trade |-> TradeOf[q], quote |-> q, state |-> s]

Locks == [trade : Trades, quote : Quotes, state : {"in_flight", "filled"}]

Idle == [at |-> "idle"]
Call(q, p, c) == [at |-> p, quote |-> q, created |-> c]
CallStates == {Idle} \cup
  [at : {"checked", "locked", "out", "posted"}, quote : Quotes, created : BOOLEAN]

Running(w) == calls[w].at # "idle"
Holding(w) == calls[w].at \in {"locked", "out", "posted"}
RunningFor(t) == \E w \in Workers : Running(w) /\ TradeOf[calls[w].quote] = t

Init ==
  /\ locks = [k \in Listings |-> NoLock]
  /\ rows = [t \in Trades |-> "none"]
  /\ logged = {}
  /\ escrows = {}
  /\ joined = {}
  /\ calls = [w \in Workers |-> Idle]
  /\ canceling = {}
  /\ sent = {}
  /\ agreed = {}
  /\ freed = {}
  /\ slips = {}

-----------------------------------------------------------------------------
(***************************************************************************)
(* The lock helpers.                                                       *)
(***************************************************************************)
\* Mutant: the replay check forgets the quote.
SameTrade(l, q) == l.trade = TradeOf[q]

\* A replay of the accept of the same quote, or of the invite of the same
\* trade, passes the lock it finds.
SameClaim(l, q) ==
  /\ l.trade = TradeOf[q]
  /\ l.trade \in Taken => l.quote = q

\* Mutant: only a lock in flight for another stops a call.
AvailableFilled(q) ==
  LET l == locks[Listing(q)]
  IN  l # NoLock => l.state = "filled" \/ SameClaim(l, q)

Available(q) ==
  LET l == locks[Listing(q)]
  IN  l # NoLock => l.state = "in_flight" /\ SameClaim(l, q)

Held(q) == [locks EXCEPT ![Listing(q)] = Lock(q, "in_flight")]

\* Mutant: the catch block deletes the lock whoever made it.
DroppedAlways(c) == [locks EXCEPT ![Listing(c.quote)] = NoLock]

\* The catch block: a lock this call made is deleted, by its key.
Dropped(c) ==
  IF c.created THEN [locks EXCEPT ![Listing(c.quote)] = NoLock] ELSE locks

\* Mutant: a refund leaves the locks where they are.
ClosedUnlessRefunded(t, s) ==
  IF s = "refunded" THEN locks
  ELSE [k \in Listings |->
          LET l == locks[k]
          IN  IF l = NoLock \/ l.trade # t THEN l
              ELSE IF s = "claimed" THEN [l EXCEPT !.state = "filled"]
              ELSE NoLock]

\* Mutant: any end releases the locks.
ClosedReleases(t, s) ==
  [k \in Listings |->
     LET l == locks[k]
     IN  IF l = NoLock \/ l.trade # t THEN l ELSE NoLock]

\* Mutant: the lock gets the state of the trade.
ClosedWithState(t, s) ==
  [k \in Listings |->
     LET l == locks[k]
     IN  IF l = NoLock \/ l.trade # t THEN l
         ELSE IF s = "claimed" THEN [l EXCEPT !.state = s]
         ELSE NoLock]

\* What becomes of the locks of a trade that ended with s.
Closed(t, s) ==
  [k \in Listings |->
     LET l == locks[k]
     IN  IF l = NoLock \/ l.trade # t THEN l
         ELSE IF s = "claimed" THEN [l EXCEPT !.state = "filled"]
         ELSE NoLock]

-----------------------------------------------------------------------------
(***************************************************************************)
(* A call of intercomswap_quote_accept or                                  *)
(* intercomswap_swap_invite_from_accept.                                   *)
(***************************************************************************)
\* _inspectListingState finds nothing in the log, in the receipts or among
\* the joined channels; otherwise both tools stop.
Untouched(t) == rows[t] = "none" /\ t \notin joined \cup logged

MayOverlap(t) == "overlap" \in Hazards \/ ~RunningFor(t)

\* Up to the awaits that follow the inspection.  Only the invite looks at the
\* lock before it goes on.
Inspect(w, q) ==
  /\ ~Running(w) /\ MayOverlap(TradeOf[q])
  /\ Untouched(TradeOf[q])
  /\ TradeOf[q] \notin Taken => Available(q)
  /\ calls' = [calls EXCEPT ![w] = Call(q, "checked", FALSE)]
  /\ UNCHANGED <<locks, rows, logged, escrows, joined, canceling,
                 sent, agreed, freed, slips>>

\* The lock is read and written without an await in between.
TakeLock(w) ==
  /\ calls[w].at = "checked"
  /\ LET q == calls[w].quote
     IN  \/ /\ ~Available(q)
            /\ calls' = [calls EXCEPT ![w] = Idle]
            /\ UNCHANGED locks
         \/ /\ Available(q) /\ locks[Listing(q)] # NoLock
            /\ calls' = [calls EXCEPT ![w] = Call(q, "locked", FALSE)]
            /\ UNCHANGED locks
         \/ /\ locks[Listing(q)] = NoLock
            /\ calls' = [calls EXCEPT ![w] = Call(q, "locked", TRUE)]
            /\ locks' = Held(q)
  /\ UNCHANGED <<rows, logged, escrows, joined, canceling,
                 sent, agreed, freed, slips>>

\* The peer process puts the envelope on the sidechannel.
GoesOut(w) ==
  /\ calls[w].at = "locked"
  /\ calls' = [calls EXCEPT ![w].at = "out"]
  /\ sent' = sent \cup {calls[w].quote}
  /\ UNCHANGED <<locks, rows, logged, escrows, joined, canceling,
                 agreed, freed, slips>>

\* The lock of this call backs an envelope that is out or another call's.
ReliedOn(w) ==
  LET q == calls[w].quote
  IN  \/ \E p \in sent : Listing(p) = Listing(q) /\ TradeOf[p] = TradeOf[q]
      \/ \E v \in Workers \ {w} :
           Holding(v) /\ Listing(calls[v].quote) = Listing(q)

\* Signing, connecting or sending throws.
SendFails(w) ==
  /\ \/ calls[w].at = "locked"
     \/ calls[w].at = "out" /\ "lost_reply" \in Hazards
  /\ locks' = Dropped(calls[w])
  /\ slips' = IF calls[w].created /\ ReliedOn(w)
              THEN slips \cup {Listing(calls[w].quote)} ELSE slips
  /\ calls' = [calls EXCEPT ![w] = Idle]
  /\ UNCHANGED <<rows, logged, escrows, joined, canceling, sent, agreed, freed>>

\* The reply arrives: the envelope is logged and the accept done.
SendReturns(w) ==
  /\ calls[w].at = "out"
  /\ LET q == calls[w].quote
     IN  /\ logged' = logged \cup {TradeOf[q]}
         /\ IF TradeOf[q] \in Taken
            THEN locks' = Held(q) /\ calls' = [calls EXCEPT ![w] = Idle]
            ELSE calls' = [calls EXCEPT ![w].at = "posted"] /\ UNCHANGED locks
  /\ UNCHANGED <<rows, escrows, joined, canceling, sent, agreed, freed, slips>>

\* The maker joins its own swap channel.
JoinReturns(w) ==
  /\ calls[w].at = "posted"
  /\ LET q == calls[w].quote
     IN  joined' = joined \cup {TradeOf[q]} /\ locks' = Held(q)
  /\ calls' = [calls EXCEPT ![w] = Idle]
  /\ UNCHANGED <<rows, logged, escrows, canceling, sent, agreed, freed, slips>>

\* The invite is out, so the lock stays.
JoinFails(w) ==
  /\ calls[w].at = "posted"
  /\ calls' = [calls EXCEPT ![w] = Idle]
  /\ UNCHANGED <<locks, rows, logged, escrows, joined, canceling,
                 sent, agreed, freed, slips>>

-----------------------------------------------------------------------------
(***************************************************************************)
(* The rest of the trade.                                                  *)
(***************************************************************************)
Committed(t) == \E q \in sent : TradeOf[q] = t

\* The taker joins the channel of the invite it got for its accept.
JoinFromInvite(t) ==
  /\ t \in Taken \ joined /\ Committed(t) /\ rows[t] \notin Terminals
  /\ joined' = joined \cup {t}
  /\ UNCHANGED <<locks, rows, logged, escrows, calls, canceling,
                 sent, agreed, freed, slips>>

\* TERMS, ACCEPT or an invoice goes out over the swap channel and is recorded;
\* the tools do not look at what is on record.
Agree(t) ==
  /\ t \in joined
  /\ rows' = [rows EXCEPT ![t] = "active"]
  /\ agreed' = agreed \cup {t}
  /\ UNCHANGED <<locks, logged, escrows, joined, calls, canceling,
                 sent, freed, slips>>

\* The escrow, or a later step, is logged, recorded or both.
Escrow(t) ==
  /\ t \in joined \cap agreed
  /\ rows' \in {rows, [rows EXCEPT ![t] = "escrow"]}
  /\ escrows' \in {escrows, escrows \cup {t}}
  /\ UNCHANGED <<locks, logged, joined, calls, canceling,
                 sent, agreed, freed, slips>>

MayEnd(t) == "late_terminal" \in Hazards \/ ~RunningFor(t)

\* The upsert of the trade and what becomes of its locks.
Record(t, s) ==
  /\ rows' = [rows EXCEPT ![t] = s]
  /\ locks' = Closed(t, s)
  /\ freed' = IF s = "claimed" THEN freed ELSE freed \cup {t}

\* A terminal envelope of the counterparty, or this peer's own claim or refund,
\* is recorded, whatever was recorded before; a CANCEL may come at any time.
RecordTerminal(t, s) ==
  /\ Committed(t) /\ MayEnd(t)
  /\ s \in {"claimed", "refunded"} => t \in agreed
  /\ Record(t, s)
  /\ UNCHANGED <<logged, escrows, joined, calls, canceling, sent, agreed, slips>>

\* intercomswap_swap_cancel_post looks for an escrow in its log and receipts ...
CancelChecks(t) ==
  /\ t \notin escrows /\ rows[t] \notin {"escrow", "claimed", "refunded"}
  /\ canceling' = canceling \cup {t}
  /\ UNCHANGED <<locks, rows, logged, escrows, joined, calls,
                 sent, agreed, freed, slips>>

\* ... signs and sends, which takes time and may fail, and records the end.
CancelReturns(t) ==
  /\ t \in canceling
  /\ canceling' = canceling \ {t}
  /\ \/ MayEnd(t) /\ Record(t, "canceled")
     \/ UNCHANGED <<rows, locks, freed>>
  /\ UNCHANGED <<logged, escrows, joined, calls, sent, agreed, slips>>

\* The backend restarts, alone or together with the peer process.
Restart ==
  /\ logged' = {} /\ escrows' = {} /\ canceling' = {}
  /\ calls' = [w \in Workers |-> Idle]
  /\ joined' \in {joined, {}}
  /\ UNCHANGED <<locks, rows, sent, agreed, freed, slips>>

Next ==
  \/ \E w \in Workers :
       \/ \E q \in Quotes : Inspect(w, q)
       \/ TakeLock(w) \/ GoesOut(w) \/ SendFails(w) \/ SendReturns(w)
       \/ JoinReturns(w) \/ JoinFails(w)
  \/ \E t \in Trades :
       \/ JoinFromInvite(t) \/ Agree(t) \/ Escrow(t)
       \/ \E s \in Terminals : RecordTerminal(t, s)
       \/ CancelChecks(t) \/ CancelReturns(t)
  \/ Restart

Spec == Init /\ [][Next]_vars

-----------------------------------------------------------------------------
(***************************************************************************)
(* Properties.                                                             *)
(***************************************************************************)
\* Every variable keeps its type.
TypeOK ==
  /\ locks \in [Listings -> Locks \cup {NoLock}]
  /\ rows \in [Trades -> RowStates]
  /\ calls \in [Workers -> CallStates]
  /\ logged \cup escrows \cup joined \cup canceling \cup agreed \cup freed
       \subseteq Trades
  /\ sent \subseteq Quotes
  /\ slips \subseteq Listings

\* A taker never accepts two quotes of a trade that it has not recorded as
\* canceled or refunded (quote_accept: "so we never accept two quotes").  A
\* lost reply breaks this.
OneQuoteAccepted ==
  \A q1, q2 \in sent :
    (TradeOf[q1] = TradeOf[q2] /\ TradeOf[q1] \in Taken \ freed) => q1 = q2

\* The same as far as the lock goes: over overlapping calls, calls that
\* inspected the listing before the first accept, lost replies, restarts and
\* ends in any order, a second quote of such a trade is accepted only after
\* the catch block deleted the lock of an accept that was out or on its way.
OneQuotePerLock ==
  \A q1, q2 \in sent :
    (TradeOf[q1] = TradeOf[q2] /\ TradeOf[q1] \in Taken \ (freed \cup slips))
    => q1 = q2

\* Two trades are invited for one offer line (swap_invite_from_accept) only
\* after one of them was recorded as canceled or refunded, or after the catch
\* block deleted the lock of an invite that was out or on its way.
OneTradePerLine ==
  \A q1, q2 \in sent :
    (/\ {TradeOf[q1], TradeOf[q2]} \cap (Taken \cup freed) = {}
     /\ LineOf[q1] = LineOf[q2] /\ LineOf[q1] \notin slips)
    => TradeOf[q1] = TradeOf[q2]

\* A trade recorded as refunded or canceled holds no lock: its line can be
\* sold again (releaseListingLocksByTrade against the calls that write locks).
EndedHoldsNothing ==
  \A k \in Listings :
    locks[k] # NoLock => rows[locks[k].trade] \notin {"refunded", "canceled"}

\* The listing of every accept or invite of a trade recorded as claimed is
\* marked filled for that trade (markListingLocksFilledByTrade), unless a
\* cancel or a refund was recorded first, which deletes the lock, or the catch
\* block lost it: no other call took or rewrote it in between.
SoldIsFilled ==
  \A q \in sent :
    (rows[TradeOf[q]] = "claimed" /\ TradeOf[q] \notin freed /\ Listing(q) \notin slips)
    => /\ locks[Listing(q)] # NoLock
       /\ locks[Listing(q)].trade = TradeOf[q]
       /\ locks[Listing(q)].state = "filled"

\* A filled lock goes only with a cancel or a refund recorded for its own
\* trade; no call, whenever it started, takes, rewrites or deletes it, unless
\* the catch block lost an earlier lock of that listing.
FilledStays ==
  [][\A k \in Listings \ slips :
       locks[k] # NoLock /\ locks[k].state = "filled" =>
         \/ locks'[k] = locks[k]
         \/ locks'[k] = NoLock /\ rows'[locks[k].trade] \in {"refunded", "canceled"}]_vars
=============================================================================
