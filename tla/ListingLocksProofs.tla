------------------------- MODULE ListingLocksProofs -------------------------
(***************************************************************************)
(* What the lock table keeps apart, for any number of workers, trades,     *)
(* quotes and lines, with overlapping calls, lost replies, restarts and    *)
(* ends of a trade recorded in any order and any number of times.          *)
(*                                                                         *)
(* The argument: a quote whose accept or invite is out, or whose call is   *)
(* past TakeLock, is Covered: unless its trade was freed or its listing    *)
(* slipped, the listing's lock is of the same claim.  A call therefore     *)
(* rewrites no lock of another claim, and a catch block that deletes a     *)
(* lock others rely on is a slip.  The taker's lock is keyed by its trade, *)
(* so this holds whatever is recorded when.  An offer line is shared by    *)
(* trades: for it no end may be recorded under a running call of the same  *)
(* trade (NoLateEnd), since that call would go on writing its lock.        *)
(***************************************************************************)
EXTENDS ListingLocks, TLAPS

NoLateEnd == "late_terminal" \notin Hazards

Steady(k) == k \notin slips /\ (k \in Taken \/ NoLateEnd)

Covered(q) ==
  (Steady(Listing(q)) /\ TradeOf[q] \notin freed) =>
    locks[Listing(q)] # NoLock /\ SameClaim(locks[Listing(q)], q)

CallsHold == \A w \in Workers : Holding(w) => Covered(calls[w].quote)
SentHeld == \A q \in sent : Covered(q)

FreedRecorded == \A t \in freed : rows[t] # "none"

\* A running call's trade is not recorded as ended.
CallsOpen ==
  \A w \in Workers : Running(w) =>
    TradeOf[calls[w].quote] \notin freed /\ rows[TradeOf[calls[w].quote]] \notin Terminals

InFlight ==
  \A w \in Workers : (Holding(w) /\ Listing(calls[w].quote) \notin slips) =>
    locks[Listing(calls[w].quote)].state = "in_flight"

\* A lock says of its trade what the receipts say.
LockTrue(l) ==
  /\ rows[l.trade] \notin {"refunded", "canceled"}
  /\ rows[l.trade] = "claimed" => l.state = "filled"
  /\ l.state = "filled" => rows[l.trade] # "none" /\ ~RunningFor(l.trade)
LocksTrue == \A k \in Listings : locks[k] # NoLock => LockTrue(locks[k])

EndInv == CallsOpen /\ InFlight /\ LocksTrue

IInv ==
  /\ TypeOK /\ CallsHold /\ SentHeld /\ FreedRecorded
  /\ NoLateEnd => EndInv

-----------------------------------------------------------------------------
\* A quote names a trade and a listing that exist.
LEMMA ListingTyped ==
  ASSUME NEW q \in Quotes
  PROVE  Listing(q) \in Listings /\ TradeOf[q] \in Trades
BY ListingAssumption DEF Listing, Listings

\* A lock written for a quote is a proper row of the same claim.
LEMMA LockTyped ==
  ASSUME NEW q \in Quotes, NEW s \in {"in_flight", "filled"}
  PROVE  /\ Lock(q, s) \in Locks /\ Lock(q, s) # NoLock
         /\ SameClaim(Lock(q, s), q)
BY ListingTyped, ListingAssumption DEF Lock, Locks, SameClaim

\* A running call is a full record.
LEMMA CallTyped ==
  ASSUME TypeOK, NEW w \in Workers, Running(w)
  PROVE  /\ calls[w].quote \in Quotes /\ calls[w].created \in BOOLEAN
         /\ calls[w].at \in {"checked", "locked", "out", "posted"}
         /\ calls[w] \in [at : {"checked", "locked", "out", "posted"},
                          quote : Quotes, created : BOOLEAN]
BY DEF TypeOK, CallStates, Running, Idle

\* What a step of a call does to the table of calls.
LEMMA CallSet ==
  ASSUME TypeOK, NEW w \in Workers, NEW STATE c, c \in CallStates,
         calls' = [calls EXCEPT ![w] = c]
  PROVE  /\ calls' \in [Workers -> CallStates] /\ calls'[w] = c
         /\ \A v \in Workers \ {w} : calls'[v] = calls[v]
BY DEF TypeOK

\* A call that goes on to its next step keeps its quote.
LEMMA CallMoved ==
  ASSUME TypeOK, NEW w \in Workers, Running(w),
         NEW p \in {"checked", "locked", "out", "posted"},
         calls' = [calls EXCEPT ![w].at = p]
  PROVE  /\ calls' \in [Workers -> CallStates]
         /\ calls'[w].at = p /\ calls'[w].quote = calls[w].quote
         /\ calls'[w].created = calls[w].created
         /\ \A v \in Workers \ {w} : calls'[v] = calls[v]
<1> DEFINE d == Call(calls[w].quote, p, calls[w].created)
<1>1. d \in CallStates
  BY CallTyped DEF Call, CallStates
<1>2. [calls[w] EXCEPT !.at = p] = d
  <2>1. ASSUME NEW c \in [at : {"checked", "locked", "out", "posted"},
                          quote : Quotes, created : BOOLEAN]
        PROVE  [c EXCEPT !.at = p] = Call(c.quote, p, c.created)
    BY DEF Call
  <2> QED
    BY <2>1, CallTyped
<1>3. calls' = [calls EXCEPT ![w] = d]
  BY <1>2
<1>4. /\ calls' \in [Workers -> CallStates] /\ calls'[w] = d
      /\ \A v \in Workers \ {w} : calls'[v] = calls[v]
  BY <1>1, <1>3, CallSet
<1> QED
  BY <1>4 DEF Call

\* A call that ends leaves the others alone.
LEMMA CallEnded ==
  ASSUME TypeOK, NEW w \in Workers, calls' = [calls EXCEPT ![w] = Idle]
  PROVE  /\ calls' \in [Workers -> CallStates] /\ calls'[w].at = "idle"
         /\ \A v \in Workers \ {w} : calls'[v] = calls[v]
BY CallSet DEF CallStates, Idle

\* What the lock helpers do to the table of locks.
LEMMA HeldLock ==
  ASSUME TypeOK, NEW STATE q, q \in Quotes, locks' = Held(q)
  PROVE  /\ locks' \in [Listings -> Locks \cup {NoLock}]
         /\ locks'[Listing(q)] = Lock(q, "in_flight")
         /\ \A k \in Listings \ {Listing(q)} : locks'[k] = locks[k]
BY ListingTyped, LockTyped DEF TypeOK, Held

\* The catch block touches the call's own lock at most.
LEMMA DroppedLock ==
  ASSUME TypeOK, NEW w \in Workers, Running(w), locks' = Dropped(calls[w])
  PROVE  /\ locks' \in [Listings -> Locks \cup {NoLock}]
         /\ ~calls[w].created => locks' = locks
         /\ calls[w].created => locks'[Listing(calls[w].quote)] = NoLock
         /\ \A k \in Listings \ {Listing(calls[w].quote)} : locks'[k] = locks[k]
<1>1. calls[w].quote \in Quotes
  BY CallTyped
<1> QED
  BY <1>1, ListingTyped DEF TypeOK, Dropped

\* The end of a trade touches the locks of that trade only.
LEMMA ClosedLocks ==
  ASSUME TypeOK, NEW t \in Trades, NEW STATE s, s \in Terminals, locks' = Closed(t, s)
  PROVE  /\ locks' \in [Listings -> Locks \cup {NoLock}]
         /\ \A k \in Listings :
              \/ locks'[k] = locks[k] /\ (locks[k] # NoLock => locks[k].trade # t)
              \/ locks'[k] = NoLock /\ locks[k] # NoLock
                 /\ locks[k].trade = t /\ s # "claimed"
              \/ locks'[k] # NoLock /\ locks[k] # NoLock /\ s = "claimed"
                 /\ locks'[k].trade = t /\ locks[k].trade = t
                 /\ locks'[k].quote = locks[k].quote /\ locks'[k].state = "filled"
<1>1. ASSUME NEW l \in Locks
      PROVE  /\ [l EXCEPT !.state = "filled"] \in Locks
             /\ [l EXCEPT !.state = "filled"].trade = l.trade
             /\ [l EXCEPT !.state = "filled"].quote = l.quote
             /\ [l EXCEPT !.state = "filled"].state = "filled"
  BY DEF Locks
<1>2. NoLock \notin Locks
  BY ListingAssumption DEF Locks
<1>3. \A k \in Listings : locks[k] \in Locks \cup {NoLock}
  BY DEF TypeOK
<1>4. locks' \in [Listings -> Locks \cup {NoLock}]
  BY <1>1, <1>3 DEF Closed
<1> QED
  BY <1>1, <1>2, <1>3, <1>4 DEF Closed

\* Two quotes with a taker's listing are of one trade.
LEMMA TakenListing ==
  ASSUME NEW p \in Quotes, NEW q \in Quotes, Listing(p) = Listing(q)
  PROVE  /\ Listing(p) \in Taken => TradeOf[p] = TradeOf[q] /\ TradeOf[p] \in Taken
         /\ Listing(p) \notin Taken => TradeOf[p] \notin Taken
BY ListingAssumption DEF Listing

-----------------------------------------------------------------------------
(***************************************************************************)
(* What the writes to the lock table leave of Covered and LocksTrue.       *)
(***************************************************************************)

\* Nothing is written.
LEMMA SameCovered ==
  ASSUME UNCHANGED <<locks, freed, slips>>, NEW p \in Quotes, Covered(p)
  PROVE  Covered(p)'
BY DEF Covered, Steady

\* A call writes the lock of its own claim.
LEMMA HeldCovered ==
  ASSUME IInv, NEW w \in Workers, Running(w), NEW q \in Quotes, q = calls[w].quote,
         locks[Listing(q)] = NoLock \/ Holding(w),
         locks' = Held(q), UNCHANGED <<freed, slips>>
  PROVE  Covered(q)' /\ \A p \in Quotes : Covered(p) => Covered(p)'
<1>0. TypeOK /\ CallsHold
  BY DEF IInv
<1>1. /\ locks'[Listing(q)] = Lock(q, "in_flight")
      /\ \A k \in Listings \ {Listing(q)} : locks'[k] = locks[k]
  BY <1>0, HeldLock
<1>2. Lock(q, "in_flight") # NoLock /\ SameClaim(Lock(q, "in_flight"), q)
  BY LockTyped
<1>3. Covered(q)'
  BY <1>1, <1>2 DEF Covered
<1>4. ASSUME NEW p \in Quotes, Covered(p) PROVE Covered(p)'
  <2>1. Listing(p) \in Listings
    BY ListingTyped
  <2>2. CASE Listing(p) # Listing(q)
    BY <1>1, <1>4, <2>1, <2>2 DEF Covered, Steady
  <2>3. CASE Listing(p) = Listing(q)
    <3> SUFFICES ASSUME Steady(Listing(p)), TradeOf[p] \notin freed
                 PROVE  SameClaim(Lock(q, "in_flight"), p)
      BY <1>1, <1>2, <2>3 DEF Covered, Steady
    <3>1. Holding(w) /\ SameClaim(locks[Listing(q)], p)
      BY <1>4, <2>3 DEF Covered
    <3>2. TradeOf[q] \notin freed
      <4>1. CASE Listing(p) \in Taken
        BY <2>3, <4>1, TakenListing
      <4>2. CASE Listing(p) \notin Taken
        BY <4>2 DEF Steady, IInv, EndInv, CallsOpen
      <4> QED
        BY <4>1, <4>2
    <3>3. SameClaim(locks[Listing(q)], q)
      BY <1>0, <2>3, <3>1, <3>2 DEF CallsHold, Covered
    <3> QED
      BY <1>2, <3>1, <3>3 DEF SameClaim, Lock
  <2> QED
    BY <2>2, <2>3
<1> QED
  BY <1>3, <1>4

\* The catch block deletes no lock that others rely on, or it is a slip.
LEMMA DroppedCovered ==
  ASSUME IInv, NEW w \in Workers, SendFails(w), NEW p \in Quotes, Covered(p),
         \/ p \in sent
         \/ \E v \in Workers \ {w} : Holding(v) /\ p = calls[v].quote
  PROVE  Covered(p)'
<1>1. PICK q : q = calls[w].quote
  OBVIOUS
<1>2. /\ TypeOK /\ CallsHold /\ Running(w) /\ Holding(w) /\ q \in Quotes
      /\ Listing(q) \in Listings /\ Listing(p) \in Listings
  BY <1>1, CallTyped, ListingTyped DEF IInv, SendFails, Running, Holding
<1>3. locks' = Dropped(calls[w]) /\ freed' = freed /\ slips \subseteq slips'
  BY DEF SendFails
<1>4. CASE ~calls[w].created \/ Listing(p) # Listing(q)
  <2>1. locks'[Listing(p)] = locks[Listing(p)]
    BY <1>1, <1>2, <1>3, <1>4, DroppedLock
  <2> QED
    BY <1>3, <2>1 DEF Covered, Steady
<1>5. CASE calls[w].created /\ Listing(p) = Listing(q)
  <2> SUFFICES ASSUME Listing(p) \notin slips', TradeOf[p] \notin freed,
                      Listing(p) \in Taken \/ NoLateEnd
               PROVE  FALSE
    BY <1>3 DEF Covered, Steady
  <2>1. ~ReliedOn(w)
    BY <1>1, <1>5 DEF SendFails
  <2>2. p \in sent /\ TradeOf[p] # TradeOf[q]
    BY <1>1, <1>5, <2>1 DEF ReliedOn
  <2>3. Listing(p) \notin Taken /\ NoLateEnd
    BY <1>2, <1>5, <2>2, TakenListing
  <2>4. TradeOf[q] \notin freed
    BY <1>1, <1>2, <2>3 DEF IInv, EndInv, CallsOpen
  <2>5. Steady(Listing(p))
    BY <1>3, <2>3 DEF Steady
  <2>6. SameClaim(locks[Listing(q)], q)
    BY <1>1, <1>2, <1>5, <2>4, <2>5 DEF CallsHold, Covered
  <2>7. SameClaim(locks[Listing(p)], p)
    BY <2>5 DEF Covered
  <2> QED
    BY <1>5, <2>2, <2>6, <2>7 DEF SameClaim
<1> QED
  BY <1>4, <1>5

\* An end that is recorded frees the trade or keeps its locks.
LEMMA ClosedCovered ==
  ASSUME TypeOK, NEW t \in Trades, NEW s \in Terminals, Record(t, s), slips' = slips,
         NEW p \in Quotes, Covered(p)
  PROVE  Covered(p)'
<1>1. locks' = Closed(t, s) /\ freed \subseteq freed' /\ (s # "claimed" => t \in freed')
  BY DEF Record
<1>2. Listing(p) \in Listings
  BY ListingTyped
<1>3. \/ locks'[Listing(p)] = locks[Listing(p)]
      \/ locks[Listing(p)].trade = t /\ s # "claimed"
      \/ /\ locks'[Listing(p)] # NoLock
         /\ locks'[Listing(p)].trade = locks[Listing(p)].trade
         /\ locks'[Listing(p)].quote = locks[Listing(p)].quote
  BY <1>1, <1>2, ClosedLocks
<1> QED
  BY <1>1, <1>3 DEF Covered, Steady, SameClaim

-----------------------------------------------------------------------------
(***************************************************************************)
(* The steps of a call.                                                    *)
(***************************************************************************)

\* A call that changes nothing but itself, and does not go past TakeLock.
LEMMA QuietCall ==
  ASSUME IInv, NEW w \in Workers, calls' \in [Workers -> CallStates],
         \A v \in Workers \ {w} : calls'[v] = calls[v],
         \/ calls'[w].at = "idle"
         \/ Holding(w) /\ calls'[w].quote = calls[w].quote
         \/ Running(w) /\ ~Holding(w)' /\ calls'[w].quote = calls[w].quote,
         UNCHANGED <<locks, rows, freed, slips, sent>>,
         logged' \cup escrows' \cup joined' \cup canceling' \cup agreed' \subseteq Trades
  PROVE  IInv'
<1>0. TypeOK /\ CallsHold /\ SentHeld /\ FreedRecorded
  BY DEF IInv
<1>1. TypeOK' /\ FreedRecorded'
  BY <1>0 DEF TypeOK, FreedRecorded
<1>2. ASSUME NEW v \in Workers, Running(v)'
      PROVE  /\ Running(v) /\ calls'[v].quote = calls[v].quote
             /\ Holding(v)' => Holding(v)
  BY <1>2 DEF Running, Holding
<1>3. ASSUME NEW v \in Workers, Holding(v)' PROVE Covered(calls[v].quote)'
  <2>1. PICK q : q = calls[v].quote
    OBVIOUS
  <2>2. Running(v)' /\ calls'[v].quote = q /\ Holding(v) /\ Running(v)
    BY <1>2, <1>3, <2>1 DEF Running, Holding
  <2>3. q \in Quotes /\ Covered(q)
    BY <1>0, <2>1, <2>2, CallTyped DEF CallsHold
  <2>4. Covered(q)'
    BY <2>3, SameCovered
  <2> QED
    BY <2>2, <2>4 DEF Covered
<1>4. CallsHold'
  BY <1>3 DEF CallsHold
<1>5. SentHeld'
  BY <1>0, SameCovered DEF SentHeld, TypeOK
<1>6. ASSUME NoLateEnd PROVE EndInv'
  <2>0. CallsOpen /\ InFlight /\ LocksTrue
    BY <1>6 DEF IInv, EndInv
  <2>1. CallsOpen'
    BY <1>2, <2>0 DEF CallsOpen
  <2>2. InFlight'
    <3>1. \A v \in Workers : Holding(v)' => Running(v)'
      BY DEF Holding, Running
    <3> QED
      BY <1>2, <2>0, <3>1 DEF InFlight
  <2>3. \A t : RunningFor(t)' => RunningFor(t)
    BY <1>2 DEF RunningFor
  <2>4. LocksTrue'
    BY <2>0, <2>3 DEF LocksTrue, LockTrue
  <2> QED
    BY <2>1, <2>2, <2>4 DEF EndInv
<1> QED
  BY <1>1, <1>4, <1>5, <1>6 DEF IInv

\* The inspection starts a call for a trade that is not on record.
LEMMA InspectKeeps ==
  ASSUME IInv, NEW w \in Workers, NEW q \in Quotes, Inspect(w, q)
  PROVE  IInv'
<1>0. TypeOK /\ CallsHold /\ SentHeld /\ FreedRecorded
  BY DEF IInv
<1>1. /\ calls' \in [Workers -> CallStates] /\ calls'[w] = Call(q, "checked", FALSE)
      /\ \A v \in Workers \ {w} : calls'[v] = calls[v]
  BY <1>0, CallSet DEF Inspect, Call, CallStates
<1>2. /\ UNCHANGED <<locks, rows, logged, escrows, joined, canceling>>
      /\ UNCHANGED <<sent, agreed, freed, slips>>
      /\ rows[TradeOf[q]] = "none" /\ TradeOf[q] \notin freed
  BY <1>0 DEF Inspect, Untouched, FreedRecorded
<1>3. TypeOK' /\ FreedRecorded'
  BY <1>0, <1>1, <1>2 DEF TypeOK, FreedRecorded
<1>4. ~Holding(w)'
  BY <1>1 DEF Holding, Call
<1>5. ASSUME NEW v \in Workers, Holding(v)' PROVE Covered(calls[v].quote)'
  <2>1. PICK p : p = calls[v].quote
    OBVIOUS
  <2>2. v # w /\ calls'[v] = calls[v] /\ Holding(v) /\ Running(v)
    BY <1>1, <1>4, <1>5 DEF Holding, Running
  <2>3. p \in Quotes /\ Covered(p)
    BY <1>0, <2>1, <2>2, CallTyped DEF CallsHold
  <2>4. Covered(p)'
    BY <1>2, <2>3, SameCovered
  <2> QED
    BY <2>1, <2>2, <2>4 DEF Covered
<1>6. CallsHold' /\ SentHeld'
  BY <1>0, <1>2, <1>5, SameCovered DEF CallsHold, SentHeld, TypeOK
<1>7. ASSUME NoLateEnd PROVE EndInv'
  <2>0. CallsOpen /\ InFlight /\ LocksTrue
    BY <1>7 DEF IInv, EndInv
  <2>1. CallsOpen'
    BY <1>1, <1>2, <2>0 DEF CallsOpen, Running, Terminals, Call
  <2>2. InFlight'
    BY <1>1, <1>2, <1>4, <2>0 DEF InFlight, Holding
  <2>3. \A t : RunningFor(t)' => RunningFor(t) \/ t = TradeOf[q]
    BY <1>1 DEF RunningFor, Running, Call
  <2>4. LocksTrue'
    BY <1>2, <2>0, <2>3 DEF LocksTrue, LockTrue
  <2> QED
    BY <2>1, <2>2, <2>4 DEF EndInv
<1> QED
  BY <1>3, <1>6, <1>7 DEF IInv

\* A call that writes its lock and has it, or is done.
LEMMA WriterKeeps ==
  ASSUME IInv, NEW w \in Workers, Running(w), NEW q \in Quotes, q = calls[w].quote,
         locks[Listing(q)] = NoLock \/ Holding(w), locks' = Held(q),
         calls' \in [Workers -> CallStates],
         \A v \in Workers \ {w} : calls'[v] = calls[v],
         calls'[w].at = "idle" \/ calls'[w].quote = q,
         UNCHANGED <<rows, freed, slips, sent>>,
         logged' \cup escrows' \cup joined' \cup canceling' \cup agreed' \subseteq Trades
  PROVE  IInv'
<1>0. TypeOK /\ CallsHold /\ SentHeld /\ FreedRecorded
  BY DEF IInv
<1>1. /\ locks' \in [Listings -> Locks \cup {NoLock}]
      /\ locks'[Listing(q)] = Lock(q, "in_flight")
      /\ \A k \in Listings \ {Listing(q)} : locks'[k] = locks[k]
  BY <1>0, HeldLock
<1>2. Covered(q)' /\ \A p \in Quotes : Covered(p) => Covered(p)'
  BY HeldCovered
<1>3. TypeOK' /\ FreedRecorded'
  BY <1>0, <1>1 DEF TypeOK, FreedRecorded
<1>4. ASSUME NEW v \in Workers, Holding(v)' PROVE Covered(calls[v].quote)'
  <2>1. PICK p : p = calls'[v].quote
    OBVIOUS
  <2>2. CASE v = w
    BY <1>2, <1>4, <2>2 DEF Covered, Holding
  <2>3. CASE v # w
    <3>1. calls'[v] = calls[v] /\ Holding(v) /\ Running(v) /\ p = calls[v].quote
      BY <1>4, <2>1, <2>3 DEF Holding, Running
    <3>2. p \in Quotes /\ Covered(p)
      BY <1>0, <3>1, CallTyped DEF CallsHold
    <3> QED
      BY <1>2, <2>1, <3>2 DEF Covered
  <2> QED
    BY <2>2, <2>3
<1>5. CallsHold' /\ SentHeld'
  BY <1>0, <1>2, <1>4 DEF CallsHold, SentHeld, TypeOK
<1>6. ASSUME NoLateEnd PROVE EndInv'
  <2>0. CallsOpen /\ InFlight /\ LocksTrue
    BY <1>6 DEF IInv, EndInv
  <2>1. CallsOpen'
    BY <2>0 DEF CallsOpen, Running
  <2>2. \A t : RunningFor(t)' => RunningFor(t)
    BY DEF RunningFor, Running
  <2>3. InFlight'
    <3> SUFFICES ASSUME NEW v \in Workers, Holding(v)',
                        Listing(calls'[v].quote) \notin slips
                 PROVE  locks'[Listing(calls'[v].quote)].state = "in_flight"
      BY DEF InFlight
    <3>1. CASE Listing(calls'[v].quote) = Listing(q)
      BY <1>1, <3>1 DEF Lock
    <3>2. CASE Listing(calls'[v].quote) # Listing(q)
      <4>1. calls'[v] = calls[v] /\ Holding(v) /\ Running(v)
        BY <3>2 DEF Holding, Running
      <4>2. Listing(calls[v].quote) \in Listings
        BY <1>0, <4>1, CallTyped, ListingTyped
      <4>3. locks'[Listing(calls[v].quote)] = locks[Listing(calls[v].quote)]
        BY <1>1, <3>2, <4>1, <4>2
      <4> QED
        BY <2>0, <4>1, <4>3 DEF InFlight
    <3> QED
      BY <3>1, <3>2
  <2>4. LockTrue(Lock(q, "in_flight"))'
    BY <2>0 DEF CallsOpen, LockTrue, Lock, Terminals
  <2>5. LocksTrue'
    BY <1>1, <2>0, <2>2, <2>4 DEF LocksTrue, LockTrue
  <2> QED
    BY <2>1, <2>3, <2>5 DEF EndInv
<1> QED
  BY <1>3, <1>5, <1>6 DEF IInv

\* A lock is taken only when it is free or of the same claim.
LEMMA TakeLockKeeps ==
  ASSUME IInv, NEW w \in Workers, TakeLock(w)
  PROVE  IInv'
<1>1. PICK q : q = calls[w].quote
  OBVIOUS
<1>0. /\ TypeOK /\ CallsHold /\ SentHeld /\ FreedRecorded
      /\ Running(w) /\ ~Holding(w) /\ q \in Quotes /\ Listing(q) \in Listings
  BY <1>1, CallTyped, ListingTyped DEF IInv, TakeLock, Running, Holding
<1>2. /\ UNCHANGED <<rows, logged, escrows, joined, canceling>>
      /\ UNCHANGED <<sent, agreed, freed, slips>>
  BY DEF TakeLock
<1>3. logged' \cup escrows' \cup joined' \cup canceling' \cup agreed' \subseteq Trades
  BY <1>0, <1>2 DEF TypeOK
<1>4. CASE calls' = [calls EXCEPT ![w] = Idle] /\ UNCHANGED locks
  <2>1. /\ calls' \in [Workers -> CallStates] /\ calls'[w].at = "idle"
        /\ \A v \in Workers \ {w} : calls'[v] = calls[v]
    BY <1>0, <1>4, CallEnded
  <2> QED
    BY <1>2, <1>3, <1>4, <2>1, QuietCall
<1>5. CASE /\ Available(q) /\ locks[Listing(q)] # NoLock
           /\ calls' = [calls EXCEPT ![w] = Call(q, "locked", FALSE)]
           /\ UNCHANGED locks
  <2>1. Call(q, "locked", FALSE) \in CallStates
    BY <1>0 DEF Call, CallStates
  <2>2. /\ calls' \in [Workers -> CallStates]
        /\ calls'[w] = Call(q, "locked", FALSE)
        /\ \A v \in Workers \ {w} : calls'[v] = calls[v]
    BY <1>0, <1>5, <2>1, CallSet
  <2>3. SameClaim(locks[Listing(q)], q) /\ locks[Listing(q)].state = "in_flight"
    BY <1>5 DEF Available
  <2>4. TypeOK' /\ FreedRecorded'
    BY <1>0, <1>2, <1>5, <2>2 DEF TypeOK, FreedRecorded
  <2>5. ASSUME NEW v \in Workers, Holding(v)' PROVE Covered(calls[v].quote)'
    <3>1. CASE v = w
      <4>1. Covered(q)'
        BY <1>5, <2>3 DEF Covered
      <4> QED
        BY <2>2, <3>1, <4>1 DEF Covered, Call
    <3>2. CASE v # w
      <4>1. calls'[v] = calls[v] /\ Holding(v) /\ Running(v)
        BY <2>2, <2>5, <3>2 DEF Holding, Running
      <4>2. PICK p : p = calls[v].quote
        OBVIOUS
      <4>3. p \in Quotes /\ Covered(p)
        BY <1>0, <4>1, <4>2, CallTyped DEF CallsHold
      <4>4. Covered(p)'
        BY <1>2, <1>5, <4>3, SameCovered
      <4> QED
        BY <4>1, <4>2, <4>4 DEF Covered
    <3> QED
      BY <3>1, <3>2
  <2>6. CallsHold' /\ SentHeld'
    BY <1>0, <1>2, <1>5, <2>5, SameCovered DEF CallsHold, SentHeld, TypeOK
  <2>7. ASSUME NoLateEnd PROVE EndInv'
    <3>0. CallsOpen /\ InFlight /\ LocksTrue
      BY <2>7 DEF IInv, EndInv
    <3>1. CallsOpen'
      BY <1>0, <1>1, <1>2, <2>2, <3>0 DEF CallsOpen, Running, Call
    <3>2. InFlight'
      BY <1>0, <1>2, <1>5, <2>2, <2>3, <3>0 DEF InFlight, Holding, Call
    <3>3. \A t : RunningFor(t)' => RunningFor(t)
      BY <1>0, <1>1, <2>2 DEF RunningFor, Running, Call
    <3>4. LocksTrue'
      BY <1>2, <1>5, <3>0, <3>3 DEF LocksTrue, LockTrue
    <3> QED
      BY <3>1, <3>2, <3>4 DEF EndInv
  <2> QED
    BY <2>4, <2>6, <2>7 DEF IInv
<1>6. CASE /\ locks[Listing(q)] = NoLock /\ locks' = Held(q)
           /\ calls' = [calls EXCEPT ![w] = Call(q, "locked", TRUE)]
  <2>1. Call(q, "locked", TRUE) \in CallStates
    BY <1>0 DEF Call, CallStates
  <2>2. /\ calls' \in [Workers -> CallStates]
        /\ calls'[w] = Call(q, "locked", TRUE)
        /\ \A v \in Workers \ {w} : calls'[v] = calls[v]
    BY <1>0, <1>6, <2>1, CallSet
  <2>3. calls'[w].quote = q
    BY <2>2 DEF Call
  <2> QED
    BY <1>0, <1>1, <1>2, <1>3, <1>6, <2>2, <2>3, WriterKeeps
<1> QED
  BY <1>1, <1>4, <1>5, <1>6 DEF TakeLock

\* What goes out is covered by the lock of the call that sends it.
LEMMA GoesOutKeeps ==
  ASSUME IInv, NEW w \in Workers, GoesOut(w)
  PROVE  IInv'
<1>1. PICK q : q = calls[w].quote
  OBVIOUS
<1>0. /\ TypeOK /\ CallsHold /\ SentHeld /\ FreedRecorded
      /\ Running(w) /\ Holding(w) /\ q \in Quotes
  BY <1>1, CallTyped DEF IInv, GoesOut, Running, Holding
<1>2. /\ calls' \in [Workers -> CallStates]
      /\ calls'[w].at = "out" /\ calls'[w].quote = q
      /\ \A v \in Workers \ {w} : calls'[v] = calls[v]
  BY <1>0, <1>1, CallMoved DEF GoesOut
<1>3. /\ UNCHANGED <<locks, rows, logged, escrows, joined, canceling>>
      /\ UNCHANGED <<agreed, freed, slips>> /\ sent' = sent \cup {q}
  BY <1>1 DEF GoesOut
<1>4. TypeOK' /\ FreedRecorded'
  BY <1>0, <1>2, <1>3 DEF TypeOK, FreedRecorded
<1>5. ASSUME NEW v \in Workers, Holding(v)' PROVE Covered(calls[v].quote)'
  <2>1. calls'[v].quote = calls[v].quote /\ Holding(v) /\ Running(v)
    BY <1>0, <1>1, <1>2, <1>5 DEF Holding, Running
  <2>2. PICK p : p = calls[v].quote
    OBVIOUS
  <2>3. p \in Quotes /\ Covered(p)
    BY <1>0, <2>1, <2>2, CallTyped DEF CallsHold
  <2>4. Covered(p)'
    BY <1>3, <2>3, SameCovered
  <2> QED
    BY <2>1, <2>2, <2>4 DEF Covered
<1>6. Covered(q)
  BY <1>0, <1>1 DEF CallsHold
<1>7. CallsHold' /\ SentHeld'
  BY <1>0, <1>3, <1>5, <1>6, SameCovered DEF CallsHold, SentHeld, TypeOK
<1>8. ASSUME NoLateEnd PROVE EndInv'
  <2>0. CallsOpen /\ InFlight /\ LocksTrue
    BY <1>8 DEF IInv, EndInv
  <2>1. CallsOpen' /\ InFlight'
    BY <1>0, <1>1, <1>2, <1>3, <2>0 DEF CallsOpen, InFlight, Running, Holding
  <2>2. \A t : RunningFor(t)' => RunningFor(t)
    BY <1>0, <1>1, <1>2 DEF RunningFor, Running
  <2>3. LocksTrue'
    BY <1>3, <2>0, <2>2 DEF LocksTrue, LockTrue
  <2> QED
    BY <2>1, <2>3 DEF EndInv
<1> QED
  BY <1>4, <1>7, <1>8 DEF IInv

\* A failing call deletes a lock that backs nothing, or its listing slips.
LEMMA SendFailsKeeps ==
  ASSUME IInv, NEW w \in Workers, SendFails(w)
  PROVE  IInv'
<1>1. PICK q : q = calls[w].quote
  OBVIOUS
<1>0. /\ TypeOK /\ CallsHold /\ SentHeld /\ FreedRecorded
      /\ Running(w) /\ Holding(w) /\ q \in Quotes /\ Listing(q) \in Listings
  BY <1>1, CallTyped, ListingTyped DEF IInv, SendFails, Running, Holding
<1>2. /\ locks' = Dropped(calls[w]) /\ calls' = [calls EXCEPT ![w] = Idle]
      /\ UNCHANGED <<rows, logged, escrows, joined, canceling>>
      /\ UNCHANGED <<sent, agreed, freed>>
      /\ slips \subseteq slips' /\ slips' \subseteq slips \cup {Listing(q)}
  BY <1>1 DEF SendFails
<1>3. /\ calls' \in [Workers -> CallStates] /\ calls'[w].at = "idle"
      /\ \A v \in Workers \ {w} : calls'[v] = calls[v]
  BY <1>0, <1>2, CallEnded
<1>4. /\ locks' \in [Listings -> Locks \cup {NoLock}]
      /\ \A k \in Listings : locks'[k] \in {locks[k], NoLock}
      /\ \A k \in Listings \ {Listing(q)} : locks'[k] = locks[k]
      /\ ~calls[w].created => locks' = locks
  BY <1>0, <1>1, <1>2, CallTyped, DroppedLock
<1>5. TypeOK' /\ FreedRecorded'
  BY <1>0, <1>2, <1>3, <1>4 DEF TypeOK, FreedRecorded
<1>6. ASSUME NEW v \in Workers, Holding(v)'
      PROVE  v # w /\ calls'[v] = calls[v] /\ Holding(v) /\ Running(v)
  BY <1>3, <1>6 DEF Holding, Running
<1>7. ASSUME NEW v \in Workers, Holding(v)' PROVE Covered(calls[v].quote)'
  <2>1. PICK p : p = calls[v].quote
    OBVIOUS
  <2>2. v # w /\ calls'[v] = calls[v] /\ Holding(v) /\ Running(v)
    BY <1>6, <1>7
  <2>3. p \in Quotes /\ Covered(p)
    BY <1>0, <2>1, <2>2, CallTyped DEF CallsHold
  <2>4. Covered(p)'
    BY <2>1, <2>2, <2>3, DroppedCovered
  <2> QED
    BY <2>1, <2>2, <2>4 DEF Covered
<1>8. ASSUME NEW p \in sent PROVE Covered(p)'
  BY <1>0, <1>8, DroppedCovered DEF SentHeld, TypeOK
<1>9. CallsHold' /\ SentHeld'
  BY <1>2, <1>7, <1>8 DEF CallsHold, SentHeld
<1>10. ASSUME NoLateEnd PROVE EndInv'
  <2>0. CallsOpen /\ InFlight /\ LocksTrue
    BY <1>10 DEF IInv, EndInv
  <2>1. CallsOpen'
    BY <1>2, <1>3, <2>0 DEF CallsOpen, Running
  <2>2. InFlight'
    <3> SUFFICES ASSUME NEW v \in Workers, Holding(v)',
                        Listing(calls'[v].quote) \notin slips'
                 PROVE  locks'[Listing(calls'[v].quote)].state = "in_flight"
      BY DEF InFlight
    <3>1. v # w /\ calls'[v] = calls[v] /\ Holding(v) /\ Running(v)
      BY <1>6
    <3>2. Listing(calls[v].quote) \in Listings
      BY <1>0, <3>1, CallTyped, ListingTyped
    <3>3. CASE Listing(calls[v].quote) = Listing(q) /\ calls[w].created
      BY <1>1, <3>1, <3>3 DEF SendFails, ReliedOn
    <3>4. CASE Listing(calls[v].quote) # Listing(q) \/ ~calls[w].created
      <4>1. locks'[Listing(calls[v].quote)] = locks[Listing(calls[v].quote)]
        BY <1>4, <3>2, <3>4
      <4> QED
        BY <1>2, <2>0, <3>1, <4>1 DEF InFlight
    <3> QED
      BY <3>3, <3>4
  <2>3. \A t : RunningFor(t)' => RunningFor(t)
    BY <1>3 DEF RunningFor, Running
  <2>4. LocksTrue'
    BY <1>2, <1>4, <2>0, <2>3 DEF LocksTrue, LockTrue
  <2> QED
    BY <2>1, <2>2, <2>4 DEF EndInv
<1> QED
  BY <1>5, <1>9, <1>10 DEF IInv

\* A call whose send succeeded writes its lock again, or goes on to join.
LEMMA SendReturnsKeeps ==
  ASSUME IInv, NEW w \in Workers, SendReturns(w)
  PROVE  IInv'
<1>1. PICK q : q = calls[w].quote
  OBVIOUS
<1>0. /\ TypeOK /\ Running(w) /\ Holding(w) /\ q \in Quotes /\ TradeOf[q] \in Trades
  BY <1>1, CallTyped, ListingTyped DEF IInv, SendReturns, Running, Holding
<1>2. /\ UNCHANGED <<rows, sent, freed, slips>>
      /\ logged' \cup escrows' \cup joined' \cup canceling' \cup agreed' \subseteq Trades
  BY <1>0, <1>1 DEF SendReturns, TypeOK
<1>3. CASE locks' = Held(q) /\ calls' = [calls EXCEPT ![w] = Idle]
  <2>1. /\ calls' \in [Workers -> CallStates] /\ calls'[w].at = "idle"
        /\ \A v \in Workers \ {w} : calls'[v] = calls[v]
    BY <1>0, <1>3, CallEnded
  <2> QED
    BY <1>0, <1>1, <1>2, <1>3, <2>1, WriterKeeps
<1>4. CASE calls' = [calls EXCEPT ![w].at = "posted"] /\ UNCHANGED locks
  <2>1. /\ calls' \in [Workers -> CallStates] /\ calls'[w].quote = calls[w].quote
        /\ \A v \in Workers \ {w} : calls'[v] = calls[v]
    BY <1>0, <1>4, CallMoved
  <2> QED
    BY <1>0, <1>2, <1>4, <2>1, QuietCall
<1> QED
  BY <1>1, <1>3, <1>4 DEF SendReturns

\* The invite writes its lock a last time.
LEMMA JoinReturnsKeeps ==
  ASSUME IInv, NEW w \in Workers, JoinReturns(w)
  PROVE  IInv'
<1>1. PICK q : q = calls[w].quote
  OBVIOUS
<1>0. /\ TypeOK /\ Running(w) /\ Holding(w) /\ q \in Quotes /\ TradeOf[q] \in Trades
  BY <1>1, CallTyped, ListingTyped DEF IInv, JoinReturns, Running, Holding
<1>2. /\ UNCHANGED <<rows, sent, freed, slips>> /\ locks' = Held(q)
      /\ logged' \cup escrows' \cup joined' \cup canceling' \cup agreed' \subseteq Trades
  BY <1>0, <1>1 DEF JoinReturns, TypeOK
<1>3. /\ calls' \in [Workers -> CallStates] /\ calls'[w].at = "idle"
      /\ \A v \in Workers \ {w} : calls'[v] = calls[v]
  BY <1>0, CallEnded DEF JoinReturns
<1> QED
  BY <1>0, <1>1, <1>2, <1>3, WriterKeeps

\* An invite that is out keeps its lock.
LEMMA JoinFailsKeeps ==
  ASSUME IInv, NEW w \in Workers, JoinFails(w)
  PROVE  IInv'
<1>1. TypeOK
  BY DEF IInv
<1>2. /\ calls' \in [Workers -> CallStates] /\ calls'[w].at = "idle"
      /\ \A v \in Workers \ {w} : calls'[v] = calls[v]
      /\ UNCHANGED <<locks, rows, freed, slips, sent>>
      /\ logged' \cup escrows' \cup joined' \cup canceling' \cup agreed' \subseteq Trades
  BY <1>1, CallEnded DEF JoinFails, TypeOK
<1> QED
  BY <1>2, QuietCall

-----------------------------------------------------------------------------
(***************************************************************************)
(* The rest of a trade, and restarts.                                      *)
(***************************************************************************)

\* The locks stay, and the receipts change only where the swap goes on.
LEMMA SwapKeeps ==
  ASSUME IInv, NEW t \in Trades,
         \/ JoinFromInvite(t) \/ Agree(t) \/ Escrow(t) \/ CancelChecks(t)
         \/ CancelReturns(t) /\ UNCHANGED <<rows, locks, freed>>
  PROVE  IInv'
<1>0. TypeOK /\ CallsHold /\ SentHeld /\ FreedRecorded
  BY DEF IInv
<1>1. UNCHANGED <<locks, calls, sent, freed, slips>>
  BY DEF JoinFromInvite, Agree, Escrow, CancelChecks, CancelReturns
<1>2. \/ rows' = rows
      \/ \E s \in {"active", "escrow"} : rows' = [rows EXCEPT ![t] = s]
  BY DEF JoinFromInvite, Agree, Escrow, CancelChecks, CancelReturns
<1>3. logged' \cup escrows' \cup joined' \cup canceling' \cup agreed' \subseteq Trades
  BY <1>0 DEF JoinFromInvite, Agree, Escrow, CancelChecks, CancelReturns, TypeOK
<1>4. rows' \in [Trades -> RowStates]
  BY <1>0, <1>2 DEF TypeOK, RowStates
<1>5. TypeOK'
  BY <1>0, <1>1, <1>3, <1>4 DEF TypeOK
<1>6. \A u \in Trades : rows'[u] \in {rows[u], "active", "escrow"}
  BY <1>0, <1>2 DEF TypeOK
<1>7. FreedRecorded'
  BY <1>0, <1>1, <1>6 DEF FreedRecorded, TypeOK
<1>8. CallsHold' /\ SentHeld'
  BY <1>0, <1>1 DEF CallsHold, SentHeld, Covered, Steady, Holding
<1>9. ASSUME NoLateEnd PROVE EndInv'
  <2>0. CallsOpen /\ InFlight /\ LocksTrue
    BY <1>9 DEF IInv, EndInv
  <2>1. \A w \in Workers : Running(w) => TradeOf[calls[w].quote] \in Trades
    BY <1>0, CallTyped, ListingTyped
  <2>2. CallsOpen'
    BY <1>1, <1>6, <2>0, <2>1 DEF CallsOpen, Running, Terminals
  <2>3. InFlight'
    BY <1>1, <2>0 DEF InFlight, Holding
  <2>4. \A k \in Listings : locks[k] # NoLock => locks[k].trade \in Trades
    BY <1>0 DEF TypeOK, Locks
  <2>5. LocksTrue'
    BY <1>1, <1>6, <2>0, <2>4 DEF LocksTrue, LockTrue, RunningFor, Running
  <2> QED
    BY <2>2, <2>3, <2>5 DEF EndInv
<1> QED
  BY <1>5, <1>7, <1>8, <1>9 DEF IInv

\* An end is recorded, the first one or another.
LEMMA RecordKeeps ==
  ASSUME IInv, NEW t \in Trades, NEW s \in Terminals, Record(t, s), MayEnd(t),
         UNCHANGED <<calls, sent, slips>>,
         logged' \cup escrows' \cup joined' \cup canceling' \cup agreed' \subseteq Trades
  PROVE  IInv'
<1>0. TypeOK /\ CallsHold /\ SentHeld /\ FreedRecorded
  BY DEF IInv
<1>1. /\ locks' = Closed(t, s) /\ rows' = [rows EXCEPT ![t] = s]
      /\ freed' \subseteq freed \cup {t} /\ (s = "claimed" => freed' = freed)
  BY DEF Record
<1>2. /\ locks' \in [Listings -> Locks \cup {NoLock}]
      /\ \A k \in Listings :
           \/ locks'[k] = locks[k] /\ (locks[k] # NoLock => locks[k].trade # t)
           \/ locks'[k] = NoLock /\ locks[k] # NoLock
              /\ locks[k].trade = t /\ s # "claimed"
           \/ locks'[k] # NoLock /\ locks[k] # NoLock /\ s = "claimed"
              /\ locks'[k].trade = t /\ locks[k].trade = t
              /\ locks'[k].quote = locks[k].quote /\ locks'[k].state = "filled"
  BY <1>0, <1>1, ClosedLocks
<1>3. /\ rows' \in [Trades -> RowStates] /\ rows'[t] = s
      /\ \A u \in Trades \ {t} : rows'[u] = rows[u]
  BY <1>0, <1>1 DEF TypeOK, RowStates
<1>4. TypeOK'
  BY <1>0, <1>1, <1>2, <1>3 DEF TypeOK
<1>5. FreedRecorded'
  BY <1>0, <1>1, <1>3 DEF FreedRecorded, TypeOK, Terminals
<1>6. ASSUME NEW w \in Workers, Holding(w) PROVE Covered(calls[w].quote)'
  <2>1. PICK p : p = calls[w].quote
    OBVIOUS
  <2>2. p \in Quotes /\ Covered(p)
    BY <1>0, <1>6, <2>1, CallTyped DEF CallsHold, Holding, Running
  <2>3. Covered(p)'
    BY <1>0, <2>2, ClosedCovered
  <2> QED
    BY <2>1, <2>3 DEF Covered
<1>7. CallsHold'
  BY <1>6 DEF CallsHold, Holding
<1>8. SentHeld'
  BY <1>0, ClosedCovered DEF SentHeld, TypeOK
<1>9. ASSUME NoLateEnd PROVE EndInv'
  <2>0. CallsOpen /\ InFlight /\ LocksTrue /\ ~RunningFor(t)
    BY <1>9 DEF IInv, EndInv, MayEnd, NoLateEnd
  <2>1. ASSUME NEW w \in Workers, Running(w)
        PROVE  /\ TradeOf[calls[w].quote] \in Trades \ {t}
               /\ Listing(calls[w].quote) \in Listings
    BY <1>0, <2>0, <2>1, CallTyped, ListingTyped DEF RunningFor
  <2>2. CallsOpen'
    BY <1>1, <1>3, <2>0, <2>1 DEF CallsOpen, Running
  <2>3. InFlight'
    <3> SUFFICES ASSUME NEW w \in Workers, Holding(w),
                        Listing(calls[w].quote) \notin slips
                 PROVE  locks'[Listing(calls[w].quote)].state = "in_flight"
      BY DEF InFlight, Holding
    <3>1. Running(w)
      BY DEF Running, Holding
    <3>2. TradeOf[calls[w].quote] \notin freed
      BY <2>0, <3>1 DEF CallsOpen
    <3>3. /\ locks[Listing(calls[w].quote)] # NoLock
          /\ locks[Listing(calls[w].quote)].trade = TradeOf[calls[w].quote]
      BY <1>0, <1>9, <3>2 DEF CallsHold, Covered, Steady, SameClaim
    <3>4. locks'[Listing(calls[w].quote)] = locks[Listing(calls[w].quote)]
      BY <1>2, <2>1, <3>1, <3>3
    <3> QED
      BY <2>0, <3>4 DEF InFlight
  <2>4. \A k \in Listings : locks[k] # NoLock => locks[k].trade \in Trades
    BY <1>0 DEF TypeOK, Locks
  <2>5. LocksTrue'
    <3> SUFFICES ASSUME NEW k \in Listings, locks'[k] # NoLock
                 PROVE  LockTrue(locks[k])'
      BY DEF LocksTrue
    <3>1. \A u : RunningFor(u)' => RunningFor(u)
      BY DEF RunningFor, Running
    <3>2. CASE locks'[k] = locks[k] /\ locks[k].trade # t
      BY <1>3, <2>0, <2>4, <3>1, <3>2 DEF LocksTrue, LockTrue
    <3>3. CASE s = "claimed" /\ locks'[k].trade = t /\ locks'[k].state = "filled"
      BY <1>3, <2>0, <3>1, <3>3 DEF LockTrue
    <3> QED
      BY <1>2, <3>2, <3>3
  <2> QED
    BY <2>2, <2>3, <2>5 DEF EndInv
<1> QED
  BY <1>4, <1>5, <1>7, <1>8, <1>9 DEF IInv

\* Both ways to learn of the end of a trade.
LEMMA EndKeeps ==
  ASSUME IInv, NEW t \in Trades,
         (\E s \in Terminals : RecordTerminal(t, s)) \/ CancelReturns(t)
  PROVE  IInv'
<1>1. ASSUME NEW s \in Terminals, RecordTerminal(t, s) PROVE IInv'
  <2>1. /\ Record(t, s) /\ MayEnd(t) /\ UNCHANGED <<calls, sent, slips>>
        /\ logged' \cup escrows' \cup joined' \cup canceling' \cup agreed' \subseteq Trades
    BY <1>1 DEF RecordTerminal, IInv, TypeOK
  <2> QED
    BY <2>1, RecordKeeps
<1>2. CASE CancelReturns(t) /\ MayEnd(t) /\ Record(t, "canceled")
  <2>1. /\ UNCHANGED <<calls, sent, slips>> /\ "canceled" \in Terminals
        /\ logged' \cup escrows' \cup joined' \cup canceling' \cup agreed' \subseteq Trades
    BY <1>2 DEF CancelReturns, IInv, TypeOK, Terminals
  <2> QED
    BY <1>2, <2>1, RecordKeeps
<1>3. CASE CancelReturns(t) /\ UNCHANGED <<rows, locks, freed>>
  BY <1>3, SwapKeeps
<1> QED
  BY <1>1, <1>2, <1>3 DEF CancelReturns

\* A restart loses the calls and the log, never a lock.
LEMMA RestartKeeps ==
  ASSUME IInv, Restart
  PROVE  IInv'
<1>0. TypeOK /\ CallsHold /\ SentHeld /\ FreedRecorded
  BY DEF IInv
<1>1. TypeOK' /\ FreedRecorded'
  BY <1>0 DEF TypeOK, FreedRecorded, Restart, CallStates
<1>2. \A w \in Workers : ~Running(w)' /\ ~Holding(w)'
  BY DEF Restart, Running, Holding, Idle
<1>3. CallsHold' /\ CallsOpen' /\ InFlight'
  BY <1>2 DEF CallsHold, CallsOpen, InFlight
<1>4. SentHeld'
  BY <1>0 DEF SentHeld, Covered, Steady, Restart
<1>5. LocksTrue => LocksTrue'
  BY <1>2 DEF LocksTrue, LockTrue, RunningFor, Restart
<1> QED
  BY <1>1, <1>3, <1>4, <1>5 DEF IInv, EndInv

\* The invariant holds before the first call.
LEMMA InitInv == Init => IInv
<1> SUFFICES ASSUME Init PROVE IInv
  OBVIOUS
<1>1. TypeOK
  BY DEF Init, TypeOK, CallStates, RowStates
<1>2. CallsHold /\ SentHeld /\ FreedRecorded
  BY DEF Init, CallsHold, SentHeld, FreedRecorded, Holding, Idle
<1>3. EndInv
  BY DEF Init, EndInv, CallsOpen, InFlight, LocksTrue, Running, Holding, Idle
<1> QED
  BY <1>1, <1>2, <1>3 DEF IInv

\* Every step keeps the invariant, one lemma per action.
LEMMA StepInv ==
  ASSUME IInv, [Next]_vars
  PROVE  IInv'
<1>1. CASE UNCHANGED vars
  BY <1>1 DEF vars, IInv, TypeOK, CallsHold, SentHeld, Covered, Steady, FreedRecorded,
              EndInv, CallsOpen, InFlight, LocksTrue, LockTrue, RunningFor, Running,
              Holding
<1>2. ASSUME NEW w \in Workers, NEW q \in Quotes, Inspect(w, q)
      PROVE  IInv'
  BY <1>2, InspectKeeps
<1>3. ASSUME NEW w \in Workers,
             TakeLock(w) \/ GoesOut(w) \/ SendFails(w) \/ SendReturns(w)
      PROVE  IInv'
  BY <1>3, TakeLockKeeps, GoesOutKeeps, SendFailsKeeps, SendReturnsKeeps
<1>4. ASSUME NEW w \in Workers, JoinReturns(w) \/ JoinFails(w)
      PROVE  IInv'
  BY <1>4, JoinReturnsKeeps, JoinFailsKeeps
<1>5. ASSUME NEW t \in Trades,
             JoinFromInvite(t) \/ Agree(t) \/ Escrow(t) \/ CancelChecks(t)
      PROVE  IInv'
  BY <1>5, SwapKeeps
<1>6. ASSUME NEW t \in Trades,
             (\E s \in Terminals : RecordTerminal(t, s)) \/ CancelReturns(t)
      PROVE  IInv'
  BY <1>6, EndKeeps
<1>7. CASE Restart
  BY <1>7, RestartKeeps
<1> QED
  BY <1>1, <1>2, <1>3, <1>4, <1>5, <1>6, <1>7 DEF Next

-----------------------------------------------------------------------------
\* IInv holds throughout, whatever the setting.
THEOREM LocksInvariant == Spec => []IInv
<1>1. Init => IInv
  BY InitInv
<1>2. IInv /\ [Next]_vars => IInv'
  BY StepInv
<1> QED
  BY <1>1, <1>2, PTL DEF Spec

\* The lock table, the receipts and the calls keep their shape, whatever the
\* hazards (executor.js:4046-4160, 4330-4450).
THEOREM LocksTyped == Spec => []TypeOK
<1>1. IInv => TypeOK
  BY DEF IInv
<1> QED
  BY <1>1, LocksInvariant, PTL

\* OneQuotePerLock: of the quotes of one trade that is not over, a taker has two
\* accepts out only after the catch block deleted the lock of one of them
\* (executor.js:4151), whatever overlaps, is lost, ends or restarts.
THEOREM AcceptsOneQuote == Spec => []OneQuotePerLock
<1>1. ASSUME IInv PROVE OneQuotePerLock
  <2> SUFFICES ASSUME NEW p \in sent, NEW q \in sent, TradeOf[p] = TradeOf[q],
                      TradeOf[p] \in Taken \ (freed \cup slips)
               PROVE  p = q
    BY DEF OneQuotePerLock
  <2>1. Listing(p) = TradeOf[p] /\ Listing(q) = TradeOf[p]
    BY DEF Listing
  <2>2. Covered(p) /\ Covered(q)
    BY <1>1 DEF IInv, SentHeld
  <2> QED
    BY <2>1, <2>2 DEF Covered, Steady, SameClaim
<1> QED
  BY <1>1, LocksInvariant, PTL

\* OneTradePerLine: a maker has two trades that are not over invited for one
\* offer line only after the catch block deleted the lock of one of them
\* (swap_invite_from_accept), provided no end is recorded under a running call.
THEOREM InvitesOneTrade ==
  ASSUME NoLateEnd
  PROVE  Spec => []OneTradePerLine
<1>1. ASSUME IInv PROVE OneTradePerLine
  <2> SUFFICES ASSUME NEW p \in sent, NEW q \in sent,
                      TradeOf[p] \notin Taken \cup freed,
                      TradeOf[q] \notin Taken \cup freed,
                      LineOf[p] = LineOf[q], LineOf[p] \notin slips
               PROVE  TradeOf[p] = TradeOf[q]
    BY DEF OneTradePerLine
  <2>1. Listing(p) = LineOf[p] /\ Listing(q) = LineOf[p]
    BY DEF Listing
  <2>2. Covered(p) /\ Covered(q)
    BY <1>1 DEF IInv, SentHeld
  <2> QED
    BY <2>1, <2>2 DEF Covered, Steady, SameClaim
<1> QED
  BY <1>1, LocksInvariant, PTL

\* EndedHoldsNothing: the locks of a trade recorded as refunded or canceled are
\* free again (releaseListingLocksByTrade), and no call takes them back for it,
\* provided no end is recorded under a running call.
THEOREM EndedIsFree ==
  ASSUME NoLateEnd
  PROVE  Spec => []EndedHoldsNothing
<1>1. IInv => EndedHoldsNothing
  BY DEF IInv, EndInv, LocksTrue, LockTrue, EndedHoldsNothing
<1> QED
  BY <1>1, LocksInvariant, PTL

\* SoldIsFilled: the listing of a trade recorded as claimed, and never as
\* canceled or refunded, is marked filled for it unless the catch block lost its
\* lock (markListingLocksFilledByTrade), under the same condition.
THEOREM SoldIsMarked ==
  ASSUME NoLateEnd
  PROVE  Spec => []SoldIsFilled
<1>1. ASSUME IInv PROVE SoldIsFilled
  <2> SUFFICES ASSUME NEW q \in sent, rows[TradeOf[q]] = "claimed",
                      TradeOf[q] \notin freed, Listing(q) \notin slips
               PROVE  /\ locks[Listing(q)] # NoLock
                      /\ locks[Listing(q)].trade = TradeOf[q]
                      /\ locks[Listing(q)].state = "filled"
    BY DEF SoldIsFilled
  <2>1. Listing(q) \in Listings
    BY <1>1, ListingTyped DEF IInv, TypeOK
  <2>2. locks[Listing(q)] # NoLock /\ locks[Listing(q)].trade = TradeOf[q]
    BY <1>1 DEF IInv, SentHeld, Covered, Steady, SameClaim
  <2> QED
    BY <1>1, <2>1, <2>2 DEF IInv, EndInv, LocksTrue, LockTrue
<1> QED
  BY <1>1, LocksInvariant, PTL

\* FilledStays: a listing marked sold is given up only when a cancel or a refund
\* of its own trade is recorded (executor.js:1711-1725), never by a call, under
\* the same condition.
THEOREM FilledIsKept ==
  ASSUME NoLateEnd
  PROVE  Spec => FilledStays
<1> DEFINE Kept(k) == \/ locks'[k] = locks[k]
                      \/ /\ locks'[k] = NoLock
                         /\ rows'[locks[k].trade] \in {"refunded", "canceled"}
<1>1. ASSUME IInv, [Next]_vars, NEW k \in Listings \ slips, locks[k] # NoLock,
             locks[k].state = "filled"
      PROVE  Kept(k)
  <2>0. /\ TypeOK /\ CallsHold /\ CallsOpen /\ InFlight /\ locks[k] \in Locks
        /\ locks[k].trade \in Trades
    BY <1>1 DEF IInv, EndInv, TypeOK, Locks
  <2>1. ASSUME NEW w \in Workers, Running(w),
               \/ locks' = Held(calls[w].quote) \/ locks' = Dropped(calls[w]),
               Holding(w) \/ locks[Listing(calls[w].quote)] = NoLock
        PROVE  Kept(k)
    <3>1. k # Listing(calls[w].quote)
      BY <1>1, <2>0, <2>1 DEF InFlight
    <3>2. calls[w].quote \in Quotes
      BY <2>0, <2>1, CallTyped
    <3> QED
      BY <2>0, <2>1, <3>1, <3>2, HeldLock, DroppedLock
  <2>2. ASSUME NEW t \in Trades, NEW s \in Terminals, Record(t, s)
        PROVE  Kept(k)
    <3>1. rows'[t] = s
      BY <2>0, <2>2 DEF Record, TypeOK
    <3>2. [locks[k] EXCEPT !.state = "filled"] = locks[k]
      BY <1>1, <2>0 DEF Locks
    <3> QED
      BY <1>1, <2>2, <3>1, <3>2 DEF Record, Closed, Terminals
  <2>3. ASSUME NEW w \in Workers,
               \/ TakeLock(w) \/ SendFails(w) \/ SendReturns(w)
               \/ JoinReturns(w)
        PROVE  Kept(k)
    <3>1. Running(w)
      BY <2>3 DEF TakeLock, SendFails, SendReturns, JoinReturns, Running
    <3>2. CASE locks' = locks
      BY <3>2
    <3>3. CASE locks' # locks
      <4>1. \/ locks' = Held(calls[w].quote) \/ locks' = Dropped(calls[w])
        BY <2>3, <3>3 DEF TakeLock, SendFails, SendReturns, JoinReturns
      <4>2. Holding(w) \/ locks[Listing(calls[w].quote)] = NoLock
        BY <2>3, <3>3 DEF TakeLock, SendFails, SendReturns, JoinReturns, Holding
      <4> QED
        BY <2>1, <3>1, <4>1, <4>2
    <3> QED
      BY <3>2, <3>3
  <2>4. CASE UNCHANGED locks
    BY <2>4
  <2>5. ASSUME NEW t \in Trades,
               (\E s \in Terminals : RecordTerminal(t, s)) \/ CancelReturns(t)
        PROVE  Kept(k)
    <3>1. "canceled" \in Terminals
      BY DEF Terminals
    <3> QED
      BY <2>2, <2>4, <2>5, <3>1 DEF RecordTerminal, CancelReturns
  <2> QED
    BY <1>1, <2>3, <2>4, <2>5
       DEF Next, vars, Inspect, GoesOut, JoinFails, JoinFromInvite, Agree, Escrow,
           CancelChecks, Restart
<1>2. IInv /\ [Next]_vars =>
        [\A k \in Listings \ slips :
           locks[k] # NoLock /\ locks[k].state = "filled" =>
             \/ locks'[k] = locks[k]
             \/ locks'[k] = NoLock
                /\ rows'[locks[k].trade] \in {"refunded", "canceled"}]_vars
  BY <1>1
<1> QED
  BY <1>2, LocksInvariant, PTL DEF Spec, FilledStays
=============================================================================
