---------------------------- MODULE ServicesProofs ----------------------------
(***************************************************************************)
(* The services beside the trades, for any values of the constants.        *)
(*                                                                         *)
(* RPC pool: while nobody else moves the shared index, a call has tried    *)
(* what lies between it and the url it is at (Spanned).                    *)
(*                                                                         *)
(* Peer guard: the flag that lets a tick skip the cooldown is up only if   *)
(* the peer was seen since the last attempt, or while the attempt lasts.   *)
(*                                                                         *)
(* Bridge client: there is one client that is current or one that is       *)
(* connecting, never both, and the calls wait for that one (CallPlaced);   *)
(* so a channel that is marked is listed there or asked for, unless the    *)
(* peer refused or dropped it (MarkedCovered).  It needs that no           *)
(* stack_stop comes in the middle of a connect (MidConnect): the connect   *)
(* would go on beside the next one.                                        *)
(*                                                                         *)
(* Autopost: the table holds a job under its own name, lines are sold only *)
(* after their job started, and every timer leaves at most one run per     *)
(* second.  A post after a whole read is counted: of the lines of an       *)
(* amount, as many go as were sold, the lowest ones first (RankBound).     *)
(***************************************************************************)
EXTENDS TradeWorkerProofs, ManagedProcessesProofs, FiniteSetTheorems

\* Wrapped: an index that runs past the last url by less than one round.
LEMMA Wrapped ==
  ASSUME NEW a \in Nat, a < N + N
  PROVE  a % N = IF a < N THEN a ELSE a - N
<1>1. CASE a < N
  BY <1>1, SizesAssumption
<1>2. CASE a >= N
  BY <1>2, SizesAssumption
<1> QED
  BY <1>1, <1>2, SizesAssumption

-----------------------------------------------------------------------------
(* SolanaRpcPool *)

\* A call under way.
PoolCall == [i : Pool!Urls, idx : Pool!Urls, tried : SUBSET Pool!Urls, pinned : BOOLEAN]

\* While nobody has moved the shared index, a call has tried what lies between
\* it and the url it is at.
Spanned(n) == { (preferred + k) % N : k \in 0 .. n }

\* A call whose index nobody moved has tried all it passed.
Going(r) == r.pinned \/ r.tried = Spanned(r.i)

\* Every call of the pool is such.
PoolInv ==
  /\ preferred \in Pool!Urls
  /\ poolCall \in [Callers -> {None} \cup PoolCall]
  /\ \A w \in Callers : poolCall[w] = None \/ Going(poolCall[w])

\* AttemptGoes: the attempt at the next url keeps to that.
LEMMA AttemptGoes ==
  ASSUME preferred \in Pool!Urls, NEW i \in Pool!Urls, NEW S, NEW pinned \in BOOLEAN,
         S \subseteq Pool!Urls,
         pinned = TRUE \/ S = Spanned(i - 1)
  PROVE  LET r == Pool!Attempt(preferred, i, S, pinned)
         IN  r \in PoolCall /\ Going(r)
<1> DEFINE idx == (preferred + i) % N
<1>1. idx \in Pool!Urls
  BY Wrapped, SizesAssumption DEF Pool!Urls
<1>2. CASE pinned = TRUE
  BY <1>1, <1>2 DEF Pool!Attempt, PoolCall, Going
<1>3. CASE S = Spanned(i - 1)
  <2>1. S \cup {idx} = Spanned(i)
    <3>1. 0 .. i = (0 .. (i - 1)) \cup {i}
      BY SizesAssumption DEF Pool!Urls
    <3> QED
      BY <1>3, <3>1 DEF Spanned
  <2> HIDE DEF idx
  <2> QED
    BY <1>1, <2>1 DEF Pool!Attempt, PoolCall, Going, idx
<1> QED
  BY <1>2, <1>3

\* PoolInvFirst: the pool begins so.
LEMMA PoolInvFirst == ServicesInit => PoolInv
BY SizesAssumption DEF ServicesInit, Pool!Init, PoolInv, Pool!Urls

\* PoolInvKept: no step of a caller disturbs what another has tried, unless it
\* moves the index, and then it says so.
LEMMA PoolInvKept == PoolInv /\ [ServicesNext]_servicesVars => PoolInv'
<1> SUFFICES ASSUME PoolInv, [ServicesNext]_servicesVars PROVE PoolInv'
  OBVIOUS
<1> USE DEF PoolInv
<1>1. CASE UNCHANGED poolVars
  BY <1>1 DEF poolVars, Going, Spanned
<1>2. ASSUME NEW w \in Callers, Pool!Begin(w) PROVE PoolInv'
  <2>1. 0 \in Pool!Urls /\ Spanned(0 - 1) = {}
    BY SizesAssumption DEF Pool!Urls, Spanned
  <2> DEFINE r == Pool!Attempt(preferred, 0, {}, FALSE)
  <2>2. r \in PoolCall /\ Going(r)
    BY <2>1, AttemptGoes
  <2> HIDE DEF r
  <2>3. preferred' = preferred /\ poolCall' = [poolCall EXCEPT ![w] = r]
    BY <1>2 DEF Pool!Begin, r
  <2> QED
    BY <2>2, <2>3 DEF Going, Spanned
<1>3. ASSUME NEW w \in Callers, Pool!Succeeds(w) PROVE PoolInv'
  <2>1. poolCall[w] \in PoolCall /\ preferred' = poolCall[w].idx
    BY <1>3 DEF Pool!Succeeds
  <2>2. preferred' \in Pool!Urls
    BY <2>1 DEF PoolCall
  <2>3. ASSUME NEW v \in Callers
        PROVE  \/ poolCall'[v] = None
               \/ poolCall'[v] \in PoolCall /\ Going(poolCall[v])'
    <3>1. CASE v = w \/ poolCall[v] = None
      BY <1>3, <3>1 DEF Pool!Succeeds
    <3>2. CASE v # w /\ poolCall[v] # None
      <4>1. /\ poolCall'[v] =
                 [poolCall[v] EXCEPT !.pinned = @ \/ preferred' # preferred]
            /\ poolCall[v] \in PoolCall /\ Going(poolCall[v])
        BY <1>3, <3>2 DEF Pool!Succeeds
      <4>2. poolCall'[v] \in PoolCall
        BY <4>1 DEF PoolCall
      <4>3. /\ poolCall'[v].pinned <=> poolCall[v].pinned \/ preferred' # preferred
            /\ poolCall'[v].tried = poolCall[v].tried /\ poolCall'[v].i = poolCall[v].i
        BY <4>1 DEF PoolCall
      <4>4. CASE preferred' = preferred
        BY <4>1, <4>2, <4>3, <4>4 DEF Going, Spanned
      <4>5. CASE preferred' # preferred
        BY <4>2, <4>3, <4>5 DEF Going
      <4> QED
        BY <4>2, <4>4, <4>5
    <3> QED
      BY <3>1, <3>2
  <2>4. poolCall' \in [Callers -> {None} \cup PoolCall]
    BY <1>3, <2>3 DEF Pool!Succeeds
  <2> QED
    BY <2>2, <2>3, <2>4
<1>4. ASSUME NEW w \in Callers, Pool!Fails(w) PROVE PoolInv'
  <2>1. /\ poolCall[w] \in PoolCall /\ Going(poolCall[w])
        /\ preferred' = preferred
        /\ poolCall' = [poolCall EXCEPT ![w] =
             IF @.i = N - 1 THEN None
             ELSE Pool!Attempt(preferred, @.i + 1, @.tried, @.pinned)]
    BY <1>4 DEF Pool!Fails, Pool!PinnedAfterFailure
  <2>2. CASE poolCall[w].i = N - 1
    BY <2>1, <2>2 DEF Going, Spanned
  <2>3. CASE poolCall[w].i # N - 1
    <3>1. PICK i \in Pool!Urls, S \in SUBSET Pool!Urls, p \in BOOLEAN :
            /\ i = poolCall[w].i + 1 /\ i - 1 = poolCall[w].i
            /\ S = poolCall[w].tried /\ p = poolCall[w].pinned
      BY <2>1, <2>3, SizesAssumption DEF Pool!Urls, PoolCall
    <3> DEFINE r == Pool!Attempt(preferred, i, S, p)
    <3>2. r \in PoolCall /\ Going(r)
      <4>1. p = TRUE \/ S = Spanned(i - 1)
        BY <2>1, <3>1 DEF Going
      <4> QED
        BY <4>1, AttemptGoes
    <3>3. poolCall' = [poolCall EXCEPT ![w] = r]
      BY <2>1, <2>3, <3>1
    <3> HIDE DEF r
    <3> QED
      BY <2>1, <3>2, <3>3 DEF Going, Spanned
  <2> QED
    BY <2>2, <2>3
<1> QED
  BY <1>1, <1>2, <1>3, <1>4
  DEF ServicesNext, OnlyAuto, OnlyProcs, OnlyWork, OnlyBridge, OnlyPool, OnlyGuard,
      servicesVars, Pool!Next

\* AllTried: at the last attempt that is every url.
LEMMA AllTried == PoolInv => EveryUrlTried
<1> SUFFICES ASSUME PoolInv, NEW w \in Callers,
                    poolCall[w] # None, poolCall[w].i = N - 1, ~poolCall[w].pinned
             PROVE  poolCall[w].tried = Pool!Urls
  BY DEF EveryUrlTried, Pool!EveryUrlTried
<1>1. /\ poolCall[w].tried \subseteq Pool!Urls
      /\ poolCall[w].tried = { (preferred + k) % N : k \in 0 .. (N - 1) }
      /\ preferred \in 0 .. (N - 1)
  BY DEF PoolInv, PoolCall, Going, Spanned, Pool!Urls
<1>2. ASSUME NEW u \in 0 .. (N - 1)
      PROVE  \E k \in 0 .. (N - 1) : u = (preferred + k) % N
  <2>1. CASE u >= preferred
    <3>1. u - preferred \in 0 .. (N - 1) /\ preferred + (u - preferred) = u
      BY <1>1, <2>1, SizesAssumption
    <3>2. u % N = u
      BY Wrapped, SizesAssumption
    <3> QED
      BY <3>1, <3>2
  <2>2. CASE u < preferred
    <3>1. u - preferred + N \in 0 .. (N - 1) /\ preferred + (u - preferred + N) = u + N
      BY <1>1, <2>2, SizesAssumption
    <3>2. (u + N) % N = u
      BY Wrapped, SizesAssumption
    <3> QED
      BY <3>1, <3>2
  <2> QED
    BY <1>1, <2>1, <2>2, SizesAssumption
<1> QED
  BY <1>1, <1>2 DEF Pool!Urls

\* A call of the pool that fails has tried every endpoint, however many there are
\* and however many callers share the index, unless another call moved the index
\* in the middle (rpcPool.js:62).
THEOREM EveryUrl == ServicesSpec => []EveryUrlTried
BY PoolInvFirst, PoolInvKept, AllTried, PTL DEF ServicesSpec

-----------------------------------------------------------------------------
(* LnPeerGuard *)

\* A tick of the guard.
TickRecord == [at : {"list", "probe"}, now : 0 .. GuardHorizon, force : BOOLEAN]

\* The flag that lets a tick skip the cooldown is up only if the peer was found
\* connected since the last attempt, or while that attempt goes on.
GuardInv ==
  /\ Guard!TypeOK
  /\ wasConnected => seen \/ (tick # None /\ tick.at = "probe")

\* GuardInvFirst: the guard begins with the flag down.
LEMMA GuardInvFirst == ServicesInit => GuardInv
<1>1. -GuardCooldown \in (-GuardCooldown) .. GuardHorizon /\ 0 \in 0 .. GuardHorizon
  BY SizesAssumption
<1> QED
  BY <1>1 DEF ServicesInit, Guard!Init, GuardInv, Guard!TypeOK

\* TickBegun: a tick begins unless one is under way.
LEMMA TickBegun ==
  ASSUME GuardInv, NEW force \in BOOLEAN, Guard!TickBegins(force)
  PROVE  /\ tick' \in {None} \cup TickRecord
         /\ tick # None => tick' = tick
BY DEF GuardInv, Guard!TypeOK, Guard!TickBegins, TickRecord

\* GuardInvKept: whatever ends a tick puts the flag down or has seen the peer.
LEMMA GuardInvKept == GuardInv /\ [ServicesNext]_servicesVars => GuardInv'
<1> SUFFICES ASSUME GuardInv, [ServicesNext]_servicesVars PROVE GuardInv'
  OBVIOUS
<1>0. tick = None \/ tick \in TickRecord
  BY DEF GuardInv, Guard!TypeOK, TickRecord
<1>1. CASE UNCHANGED guardVars
  BY <1>1 DEF guardVars, GuardInv, Guard!TypeOK
<1>2. CASE Guard!Start \/ Guard!Stop \/ Guard!Interval \/ Guard!Force
  <2>1. /\ tick' \in {None} \cup TickRecord
        /\ tick # None => tick' = tick
    BY <1>2, TickBegun, <1>0
    DEF Guard!Start, Guard!Stop, Guard!Interval, Guard!Force
  <2>2. /\ UNCHANGED <<wasConnected, lastAttempt, seen>>
        /\ guardTime' = guardTime \/ (guardTime < GuardHorizon /\ guardTime' = guardTime + 1)
        /\ running' \in BOOLEAN
    BY <1>2 DEF Guard!Start, Guard!Stop, Guard!Interval, Guard!Force, GuardInv, Guard!TypeOK
  <2> QED
    BY <2>1, <2>2, SizesAssumption DEF GuardInv, Guard!TypeOK, TickRecord
<1>3. CASE Guard!Attempts
  <2>1. tick \in TickRecord
    BY <1>0, <1>3 DEF Guard!Attempts
  <2>2. /\ tick' \in TickRecord /\ tick'.at = "probe"
        /\ lastAttempt' \in 0 .. GuardHorizon
        /\ seen' = FALSE
    BY <1>3, <2>1 DEF Guard!Attempts, TickRecord
  <2>3. tick' # None
    BY <2>2, NoneAssumption DEF TickRecord
  <2>4. lastAttempt' \in (-GuardCooldown) .. GuardHorizon
    BY <2>2, SizesAssumption
  <2> QED
    BY <1>3, <2>2, <2>3, <2>4
    DEF Guard!Attempts, GuardInv, Guard!TypeOK, TickRecord
<1>4. CASE Guard!Connected \/ Guard!CoolsDown \/ Guard!ListFails
  BY <1>4 DEF Guard!Connected, Guard!CoolsDown, Guard!ListFails, GuardInv, Guard!TypeOK
<1>5. ASSUME NEW ok \in BOOLEAN, Guard!ProbeReturns(ok) PROVE GuardInv'
  BY <1>5 DEF Guard!ProbeReturns, Guard!ConnectedAfter, GuardInv, Guard!TypeOK
<1> QED
  BY <1>1, <1>2, <1>3, <1>4, <1>5
  DEF ServicesNext, OnlyAuto, OnlyProcs, OnlyWork, OnlyBridge, OnlyPool, OnlyGuard,
      servicesVars, Guard!Next

\* AttemptsApartStep: an attempt that is not forced comes a cooldown after the
\* last one, or the peer was found connected in between.
LEMMA AttemptsApartStep ==
  ASSUME GuardInv, [ServicesNext]_servicesVars, lastAttempt' # lastAttempt,
         ~tick.force, ~seen
  PROVE  lastAttempt' - lastAttempt >= GuardCooldown
<1>1. Guard!Attempts
  BY DEF ServicesNext, OnlyAuto, OnlyProcs, OnlyWork, OnlyBridge, OnlyPool, OnlyGuard,
      servicesVars, guardVars, Guard!Next, Guard!Start, Guard!Stop, Guard!Interval,
      Guard!Force, Guard!Connected, Guard!CoolsDown, Guard!ListFails, Guard!ProbeReturns
<1>2. ~wasConnected
  BY <1>1 DEF Guard!Attempts, GuardInv
<1> QED
  BY <1>1, <1>2 DEF Guard!Attempts, Guard!CooldownOver

\* Attempts of the guard to reconnect begin a cooldown apart unless the peer was
\* seen in between or the tick is forced, whatever fails, is stopped, started or
\* lasts long in between (lnPeerGuard.js:234-315).
THEOREM CooldownKept == ServicesSpec => AttemptsApart
<1>1. GuardInv /\ [ServicesNext]_servicesVars =>
        [lastAttempt' # lastAttempt /\ ~tick.force /\ ~seen
           => lastAttempt' - lastAttempt >= GuardCooldown]_guardVars
  BY AttemptsApartStep
<1> QED
  BY <1>1, GuardInvFirst, GuardInvKept, PTL
  DEF ServicesSpec, AttemptsApart, Guard!AttemptsApart, Guard!vars, guardVars

-----------------------------------------------------------------------------
(* The bridge client *)

\* The shapes of a client and of a tool call.
ClientRecord ==
  [at : {"new", "opening", "subscribing", "up", "closed"}, open : BOOLEAN,
   feeds : BOOLEAN, asked : SUBSET Channels, subs : SUBSET Channels]

Tools == {"subscribe", "join", "leave", "use"}
Busy == {"go", "stats", "join", "leave", "subscribe", "send"}

CallRecord ==
  [tool : Tools \cup {None}, channel : Channels \cup {None},
   at : Busy \cup {"idle", "connect"}, on : Clients \cup {None}, asked : SUBSET Channels]

\* The current client is the only one that is up, the connecting one the only one
\* on its way, and there are never both.
ClientsKnown ==
  /\ client \in [Clients -> ClientRecord]
  /\ current \in Clients \cup {None} /\ connecting \in Clients \cup {None}
  /\ \A c \in Clients :
       /\ client[c].feeds => client[c].at \in {"subscribing", "up"}
       /\ client[c].at \in {"opening", "subscribing"} <=> connecting = c
       /\ client[c].at = "up" <=> current = c
  /\ current = None \/ connecting = None

\* A call awaits the connect under way or an answer of the current client.
CallPlaced(r) ==
  \/ r = Bridge!NoCall
  \/ /\ r.tool \in Tools /\ r.channel \in Channels /\ r.on \in Clients
     /\ \/ r.at = "connect" /\ r.on = connecting
        \/ r.at \in Busy /\ r.on = current
     /\ r.at = "stats" => r.tool = "subscribe"
     /\ r.at \in {"join", "leave"} => r.tool = r.at
     /\ r.at = "send" => r.tool = "use"

\* Every caller's call is so.
CallsPlaced ==
  /\ call \in [Callers -> CallRecord]
  /\ \A w \in Callers : CallPlaced(call[w])

\* The call asks for ch, or is going to ask for all that is marked.
Asks(r, ch) ==
  \/ r.at = "subscribe" /\ ch \in r.asked
  \/ r.at \notin {"idle", "subscribe"} /\ r.tool = "subscribe" /\ r.channel = ch

\* Every marked channel is in S, or a call asks for it, but for those that slipped.
Covered(S) ==
  \A ch \in marked \ slipped : ch \in S \/ \E w \in Callers : Asks(call[w], ch)

\* What is marked is in the connection, or asked for, already while it connects.
MarkedCovered ==
  /\ marked \subseteq Channels /\ slipped \subseteq marked
  /\ current # None => Covered(client[current].subs)
  /\ connecting # None /\ client[connecting].at = "subscribing" =>
       Covered(client[connecting].asked)

\* The three together.
BridgeInv == ClientsKnown /\ CallsPlaced /\ MarkedCovered

\* NoCallFacts: an idle caller asks for nothing.
LEMMA NoCallFacts ==
  /\ Bridge!NoCall \in CallRecord
  /\ Bridge!NoCall.at = "idle" /\ Bridge!NoCall.on = None
  /\ \A ch : ~Asks(Bridge!NoCall, ch)
BY DEF Bridge!NoCall, CallRecord, Asks

\* ResetFacts: a client that was reset feeds nothing.
LEMMA ResetFacts ==
  ASSUME NEW c
  PROVE  /\ Bridge!Reset(c) \in ClientRecord
         /\ Bridge!Reset(c).at = "closed" /\ Bridge!Reset(c).feeds = FALSE
BY DEF Bridge!Reset, Bridge!NewClient, ClientRecord

\* BridgeFirst: nothing is connected at first.
LEMMA BridgeFirst == ServicesInit => BridgeInv
<1> SUFFICES ASSUME Bridge!Init PROVE BridgeInv
  BY DEF ServicesInit
<1>1. Bridge!NewClient \in ClientRecord /\ Bridge!NewClient.at = "new"
      /\ Bridge!NewClient.feeds = FALSE
  BY DEF Bridge!NewClient, ClientRecord
<1>2. ClientsKnown
  BY <1>1, NoneAssumption DEF Bridge!Init, ClientsKnown
<1>3. CallsPlaced
  BY NoCallFacts DEF Bridge!Init, CallsPlaced, CallPlaced
<1> QED
  BY <1>2, <1>3 DEF Bridge!Init, BridgeInv, MarkedCovered

\* DropKeeps: a client is reset for all its callers and forgotten.
LEMMA DropKeeps ==
  ASSUME BridgeInv, NEW c \in Clients,
         client' = [client EXCEPT ![c] = Bridge!Reset(c)],
         call' = Bridge!Rejected(c),
         current' = (IF current = c THEN None ELSE current),
         connecting' = (IF connecting = c THEN None ELSE connecting),
         UNCHANGED <<marked, slipped>>
  PROVE  BridgeInv'
<1> USE DEF BridgeInv
<1>1. ClientsKnown'
  BY ResetFacts, NoneAssumption DEF ClientsKnown
<1>2. ASSUME NEW v \in Callers
      PROVE  /\ call'[v] \in CallRecord
             /\ call'[v] = IF call[v].on = c THEN Bridge!NoCall ELSE call[v]
             /\ CallPlaced(call[v])'
  <2>1. call'[v] = IF call[v].on = c THEN Bridge!NoCall ELSE call[v]
    BY DEF Bridge!Rejected
  <2>2. CASE call[v].on = c
    BY <2>1, <2>2, NoCallFacts DEF CallPlaced
  <2>3. CASE call[v].on # c
    BY <2>1, <2>3 DEF CallsPlaced, CallPlaced
  <2> QED
    BY <2>1, <2>2, <2>3
<1>3. CallsPlaced'
  BY <1>2 DEF CallsPlaced, Bridge!Rejected
<1>4. ASSUME NEW d \in Clients \ {c}, d = current \/ d = connecting, NEW S, Covered(S)
      PROVE  Covered(S)'
  <2>1. ASSUME NEW v \in Callers, NEW ch, Asks(call[v], ch)
        PROVE  Asks(call[v], ch)'
    <3>1. call[v] # Bridge!NoCall /\ call[v].on \in {current, connecting} \cap Clients
      BY <2>1, NoCallFacts DEF CallsPlaced, CallPlaced
    <3>2. call[v].on = d
      BY <3>1, <1>4, NoneAssumption DEF ClientsKnown
    <3> QED
      BY <1>2, <2>1, <3>2 DEF Asks
  <2> QED
    BY <1>4, <2>1 DEF Covered
<1>5. MarkedCovered'
  <2>1. current' # None => current' \in Clients \ {c} /\ current' = current
                           /\ client'[current] = client[current]
    BY DEF ClientsKnown
  <2>2. connecting' # None => connecting' \in Clients \ {c} /\ connecting' = connecting
                              /\ client'[connecting] = client[connecting]
    BY DEF ClientsKnown
  <2>3. ASSUME current' # None PROVE Covered(client[current].subs)'
    <3>1. PICK S : S = client[current].subs
      OBVIOUS
    <3>2. Covered(S)
      BY <2>1, <2>3, <3>1 DEF MarkedCovered
    <3>3. Covered(S)'
      BY <1>4, <2>1, <2>3, <3>2
    <3> QED
      BY <2>1, <2>3, <3>1, <3>3 DEF Covered
  <2>4. ASSUME connecting' # None, client'[connecting'].at = "subscribing"
        PROVE  Covered(client[connecting].asked)'
    <3>1. PICK S : S = client[connecting].asked
      OBVIOUS
    <3>2. Covered(S)
      BY <2>2, <2>4, <3>1 DEF MarkedCovered
    <3>3. Covered(S)'
      BY <1>4, <2>2, <2>4, <3>2
    <3> QED
      BY <2>2, <2>4, <3>1, <3>3 DEF Covered
  <2> QED
    BY <2>3, <2>4 DEF MarkedCovered
<1> QED
  BY <1>1, <1>3, <1>5

\* OneCallKeeps: a call goes on, and the current connection gains or loses
\* channels; whatever is marked then was covered otherwise, or is now.
LEMMA OneCallKeeps ==
  ASSUME BridgeInv, NEW w \in Callers, NEW r \in CallRecord, CallPlaced(r),
         call' = [call EXCEPT ![w] = r],
         UNCHANGED <<current, connecting>>,
         NEW S \in SUBSET Channels,
         \/ UNCHANGED client /\ (current # None => S = client[current].subs)
         \/ current # None /\ client' = [client EXCEPT ![current].subs = S],
         marked' \subseteq Channels, slipped' \subseteq marked',
         \A ch \in marked' \ slipped' :
           \/ Asks(r, ch)
           \/ current # None /\ ch \in S
           \/ /\ ch \in marked \ slipped /\ ~Asks(call[w], ch)
              /\ current # None /\ ch \in client[current].subs => ch \in S
  PROVE  BridgeInv'
<1> USE DEF BridgeInv
<1>1. \A c \in Clients :
        /\ client'[c] \in ClientRecord
        /\ client'[c].at = client[c].at /\ client'[c].feeds = client[c].feeds
        /\ client'[c].asked = client[c].asked
        /\ client'[c].subs = IF c = current THEN S ELSE client[c].subs
  <2>1. ASSUME NEW c \in Clients, UNCHANGED client, current # None => S = client[current].subs
        PROVE  client'[c] = client[c] /\ (c = current => S = client[c].subs)
    BY <2>1, NoneAssumption
  <2>2. ASSUME NEW c \in Clients, client' = [client EXCEPT ![current].subs = S]
        PROVE  client'[c] = IF c = current THEN [client[c] EXCEPT !.subs = S] ELSE client[c]
    BY <2>2 DEF ClientsKnown
  <2>3. \A c \in Clients : client[c] \in ClientRecord
    BY DEF ClientsKnown
  <2> QED
    BY <2>1, <2>2, <2>3 DEF ClientRecord
<1>2. ClientsKnown'
  <2>1. client' \in [Clients -> ClientRecord]
    BY <1>1 DEF ClientsKnown
  <2> QED
    BY <1>1, <2>1 DEF ClientsKnown
<1>3. CallsPlaced'
  BY DEF CallsPlaced, CallPlaced
<1>4. \A v \in Callers : call'[v] = IF v = w THEN r ELSE call[v]
  BY DEF CallsPlaced
<1>5. ASSUME NEW T, NEW T2, Covered(T), NEW ch \in marked' \ slipped',
             \/ Asks(r, ch)
             \/ ch \in T2
             \/ ch \in marked \ slipped /\ ~Asks(call[w], ch) /\ (ch \in T => ch \in T2)
      PROVE  ch \in T2 \/ \E v \in Callers : Asks(call[v], ch)'
  <2>1. CASE Asks(r, ch)
    BY <1>4, <2>1 DEF Asks
  <2>2. CASE ch \in marked \ slipped /\ ~Asks(call[w], ch) /\ (ch \in T => ch \in T2)
    BY <1>4, <1>5, <2>2 DEF Asks, Covered
  <2> QED
    BY <1>5, <2>1, <2>2
<1>6. ASSUME current # None PROVE Covered(client[current].subs)'
  <2>1. PICK T : T = client[current].subs
    OBVIOUS
  <2>2. Covered(T) /\ client'[current'].subs = S
    BY <1>1, <1>6, <2>1 DEF MarkedCovered, ClientsKnown
  <2> QED
    BY <1>5, <1>6, <2>1, <2>2 DEF Covered
<1>7. ASSUME connecting # None, client[connecting].at = "subscribing"
      PROVE  Covered(client[connecting].asked)'
  <2>1. PICK T : T = client[connecting].asked
    OBVIOUS
  <2>2. Covered(T) /\ client'[connecting'].asked = T /\ current = None
    BY <1>1, <1>7, <2>1 DEF MarkedCovered, ClientsKnown
  <2> QED
    BY <1>5, <1>7, <2>1, <2>2 DEF Covered
<1>8. MarkedCovered'
  BY <1>1, <1>6, <1>7 DEF MarkedCovered, ClientsKnown
<1> QED
  BY <1>2, <1>3, <1>8

\* WaitingFacts: a tool that has ensured the connection awaits it.
LEMMA WaitingFacts ==
  ASSUME NEW tool \in Tools, NEW ch \in Channels, NEW c \in Clients,
         NEW at \in {"go", "connect"}
  PROVE  LET r == Bridge!Waiting(tool, ch, at, c)
         IN  /\ r \in CallRecord
             /\ r.at = at /\ r.on = c /\ r.tool = tool /\ r.channel = ch
             /\ Asks(r, ch) <=> tool = "subscribe"
BY DEF Bridge!Waiting, CallRecord, Tools, Busy, Asks

\* EnsureKeeps: a tool finds the connection, waits for it or begins a new one;
\* the tool that subscribes has marked its channel.
LEMMA EnsureKeeps ==
  ASSUME BridgeInv, NEW w \in Callers, NEW tool \in Tools, NEW ch \in Channels,
         call[w] = Bridge!NoCall, Bridge!Ensure(w, tool, ch),
         marked' = marked \/ (tool = "subscribe" /\ marked' = marked \cup {ch}),
         UNCHANGED slipped
  PROVE  BridgeInv'
<1> USE DEF BridgeInv
<1>0. /\ marked' \subseteq Channels /\ slipped' \subseteq marked'
      /\ \A x \in marked' \ slipped' : x \in marked \ slipped \/ (tool = "subscribe" /\ x = ch)
  BY DEF MarkedCovered
<1>1. CASE Bridge!IsOpen(current)
  <2> DEFINE r == Bridge!Waiting(tool, ch, "go", current)
  <2>1. /\ current \in Clients /\ call' = [call EXCEPT ![w] = r]
        /\ UNCHANGED <<client, current, connecting>>
    BY <1>1 DEF Bridge!Ensure, Bridge!IsOpen, ClientsKnown
  <2>2. /\ r \in CallRecord /\ CallPlaced(r)
        /\ tool = "subscribe" => Asks(r, ch)
    BY <2>1, WaitingFacts DEF CallPlaced, Busy
  <2>3. PICK S \in SUBSET Channels : S = client[current].subs
    BY <2>1 DEF ClientsKnown, ClientRecord
  <2>4. \A x : ~Asks(call[w], x)
    BY NoCallFacts
  <2>5. \A x \in marked' \ slipped' :
          \/ Asks(r, x)
          \/ /\ x \in marked \ slipped /\ ~Asks(call[w], x)
             /\ current # None /\ x \in client[current].subs => x \in S
    BY <1>0, <2>2, <2>3, <2>4
  <2> HIDE DEF r
  <2> QED
    BY <1>0, <2>1, <2>2, <2>3, <2>5, OneCallKeeps
<1>2. CASE ~Bridge!IsOpen(current) /\ connecting # None
  <2> DEFINE r == Bridge!Waiting(tool, ch, "connect", connecting)
  <2>1. current = None /\ connecting \in Clients
    BY <1>2 DEF ClientsKnown
  <2>2. /\ call' = [call EXCEPT ![w] = r]
        /\ UNCHANGED <<client, current, connecting>>
    BY <1>2, <2>1 DEF Bridge!Ensure
  <2>3. /\ r \in CallRecord /\ CallPlaced(r)
        /\ tool = "subscribe" => Asks(r, ch)
    BY <2>1, WaitingFacts DEF CallPlaced
  <2>4. \A x : ~Asks(call[w], x)
    BY NoCallFacts
  <2>5. PICK S \in SUBSET Channels : S = {}
    OBVIOUS
  <2> HIDE DEF r
  <2> QED
    BY <1>0, <2>1, <2>2, <2>3, <2>4, <2>5, OneCallKeeps
<1>3. CASE ~Bridge!IsOpen(current) /\ connecting = None
  <2> DEFINE stale == current # None /\ ~Bridge!IsOpen(current)
             live == IF stale THEN [client EXCEPT ![current] = Bridge!Reset(current)]
                     ELSE client
             others == IF stale THEN Bridge!Rejected(current) ELSE call
  <2>1. PICK c \in Clients :
          /\ client[c].at = "new"
          /\ client' = [live EXCEPT ![c].at = "opening", ![c].open = TRUE]
          /\ connecting' = c /\ current' = None
          /\ call' = [others EXCEPT ![w] = Bridge!Waiting(tool, ch, "connect", c)]
    BY <1>3 DEF Bridge!Ensure
  <2>2. c # current /\ client[c] \in ClientRecord /\ client[c].feeds = FALSE
    BY <2>1 DEF ClientsKnown, ClientRecord
  <2>3. /\ live \in [Clients -> ClientRecord]
        /\ live[c] = client[c]
        /\ \A d \in Clients : live[d] = IF d = current THEN Bridge!Reset(d) ELSE client[d]
    BY <1>3, <2>2, ResetFacts, NoneAssumption DEF ClientsKnown
  <2>4. /\ client' \in [Clients -> ClientRecord]
        /\ client'[c].at = "opening" /\ client'[c].feeds = FALSE
        /\ \A d \in Clients \ {c} : client'[d] = live[d]
    <3> HIDE DEF live
    <3> QED
      BY <2>1, <2>2, <2>3 DEF ClientRecord
  <2>5. ClientsKnown'
    <3>1. ASSUME NEW d \in Clients \ {c}
          PROVE  /\ client'[d].feeds => client'[d].at \in {"subscribing", "up"}
                 /\ client'[d].at \notin {"opening", "subscribing"}
                 /\ client'[d].at # "up"
      <4>1. CASE d = current
        BY <2>3, <2>4, <3>1, <4>1, ResetFacts
      <4>2. CASE d # current
        BY <1>3, <2>3, <2>4, <3>1, <4>2, NoneAssumption DEF ClientsKnown
      <4> QED
        BY <4>1, <4>2
    <3> QED
      BY <2>1, <2>4, <3>1, NoneAssumption DEF ClientsKnown
  <2>6. \A v \in Callers : others[v] = Bridge!NoCall
    <3>1. ASSUME NEW v \in Callers, call[v] # Bridge!NoCall
          PROVE  stale /\ call[v].on = current
      BY <1>3, <3>1, NoneAssumption DEF CallsPlaced, CallPlaced
    <3> QED
      BY <3>1 DEF Bridge!Rejected
  <2>7. CallsPlaced'
    <3>1. others \in [Callers -> CallRecord]
      BY NoCallFacts DEF Bridge!Rejected, CallsPlaced
    <3>2. PICK r \in CallRecord : r = Bridge!Waiting(tool, ch, "connect", c) /\ CallPlaced(r)'
      BY <2>1, WaitingFacts DEF CallPlaced
    <3>3. CallPlaced(Bridge!NoCall)'
      BY DEF CallPlaced
    <3> HIDE DEF others
    <3>4. \A v \in Callers : call'[v] = r \/ call'[v] = Bridge!NoCall
      BY <2>1, <2>6, <3>1, <3>2
    <3>5. call' \in [Callers -> CallRecord]
      BY <2>1, <3>1, <3>2
    <3>6. ASSUME NEW v \in Callers PROVE CallPlaced(call[v])'
      BY <3>2, <3>3, <3>4 DEF CallPlaced
    <3> QED
      BY <3>5, <3>6 DEF CallsPlaced
  <2>8. MarkedCovered'
    BY <1>0, <2>1, <2>4 DEF MarkedCovered
  <2> QED
    BY <2>5, <2>7, <2>8
<1> QED
  BY <1>1, <1>2, <1>3

\* BusyFacts: a call that awaits an answer awaits it from the current client.
LEMMA BusyFacts ==
  ASSUME BridgeInv, NEW w \in Callers, call[w].at \in Busy
  PROVE  /\ call[w] \in CallRecord /\ CallPlaced(call[w])
         /\ call[w].tool \in Tools /\ call[w].channel \in Channels
         /\ call[w].on = current /\ current \in Clients /\ client[current] \in ClientRecord
         /\ client[current].at = "up" /\ connecting = None
         /\ call[w].at = "stats" => call[w].tool = "subscribe"
         /\ call[w].at \in {"join", "leave"} => call[w].tool = call[w].at
         /\ call[w].at = "send" => call[w].tool = "use"
<1>1. call[w] \in CallRecord /\ CallPlaced(call[w]) /\ call[w] # Bridge!NoCall
  BY NoCallFacts DEF BridgeInv, CallsPlaced, Busy
<1>2. /\ call[w].tool \in Tools /\ call[w].channel \in Channels
      /\ call[w].on \in Clients /\ call[w].on = current
  BY <1>1 DEF CallPlaced, Busy
<1> QED
  BY <1>1, <1>2, NoneAssumption DEF CallPlaced, Busy, BridgeInv, ClientsKnown

\* RpcFacts: a call of a client that is up goes on to what it asks.
LEMMA RpcFacts ==
  ASSUME BridgeInv, NEW w \in Callers, call[w].at \in Busy,
         NEW what \in {"stats", "join", "leave", "subscribe", "send"},
         NEW S \in SUBSET Channels, Bridge!Rpc(w, current, what, S),
         what = "stats" => call[w].tool = "subscribe",
         what \in {"join", "leave"} => call[w].tool = what,
         what = "send" => call[w].tool = "use"
  PROVE  \E r \in CallRecord :
           /\ call' = [call EXCEPT ![w] = r]
           /\ CallPlaced(r) /\ r.at = what /\ r.asked = S
           /\ r.tool = call[w].tool /\ r.channel = call[w].channel
<1> DEFINE r == [call[w] EXCEPT !.at = what, !.on = current, !.asked = S]
<1>1. call' = [call EXCEPT ![w] = r]
  BY BusyFacts DEF Bridge!Rpc, BridgeInv, CallsPlaced
<1>2. /\ r \in CallRecord /\ r.at = what /\ r.asked = S /\ r.on = current
      /\ r.tool = call[w].tool /\ r.channel = call[w].channel
  BY BusyFacts DEF CallRecord, Busy
<1>3. CallPlaced(r)
  <2> HIDE DEF r
  <2> QED
    BY <1>2, BusyFacts DEF CallPlaced, Busy
<1> QED
  BY <1>1, <1>2, <1>3

\* GoKeeps: a tool whose connection is there sends its first call.
LEMMA GoKeeps == ASSUME BridgeInv, NEW w \in Callers, Bridge!Go(w) PROVE BridgeInv'
<1>1. call[w].at = "go" /\ call[w].at \in Busy
  BY DEF Bridge!Go, Busy
<1> DEFINE ch == call[w].channel
<1>2. /\ call[w].tool \in Tools /\ ch \in Channels /\ call[w].on = current
      /\ current \in Clients /\ current # None /\ connecting = None
      /\ marked \subseteq Channels /\ slipped \subseteq marked
  BY <1>1, BusyFacts, NoneAssumption DEF BridgeInv, MarkedCovered
<1>3. PICK S \in SUBSET Channels : S = client[current].subs
  BY <1>1, BusyFacts DEF ClientRecord
<1>4. UNCHANGED <<client, current, connecting, slipped>>
  BY DEF Bridge!Go
<1>5. \A x : Asks(call[w], x) <=> call[w].tool = "subscribe" /\ ch = x
  BY <1>1 DEF Asks
<1>6. ASSUME NEW r \in CallRecord, call' = [call EXCEPT ![w] = r], CallPlaced(r),
             \A x : Asks(call[w], x) => Asks(r, x),
             marked' = marked \/ (marked' = marked \cup {ch} /\ Asks(r, ch))
      PROVE  BridgeInv'
  <2>1. \A x \in marked' \ slipped' :
          \/ Asks(r, x)
          \/ x \in marked \ slipped /\ ~Asks(call[w], x)
    BY <1>4, <1>6
  <2>2. marked' \subseteq Channels /\ slipped' \subseteq marked'
    BY <1>2, <1>4, <1>6
  <2> QED
    BY <1>2, <1>3, <1>4, <1>6, <2>1, <2>2, OneCallKeeps
<1>7. CASE call[w].tool = "subscribe"
  <2>1. Bridge!Rpc(w, current, "stats", {}) /\ marked' = marked
    BY <1>2, <1>7 DEF Bridge!Go
  <2>2. PICK r \in CallRecord :
          /\ call' = [call EXCEPT ![w] = r]
          /\ CallPlaced(r) /\ r.at = "stats" /\ r.tool = "subscribe" /\ r.channel = ch
    BY <1>1, <1>7, <2>1, RpcFacts
  <2> QED
    BY <1>5, <1>6, <2>1, <2>2 DEF Asks
<1>8. CASE call[w].tool \in {"join", "leave"} \/ (call[w].tool = "use" /\ ch \in marked)
  <2>1. PICK what \in {"join", "leave", "send"} :
          /\ Bridge!Rpc(w, current, what, {}) /\ marked' = marked
          /\ what \in {"join", "leave"} => call[w].tool = what
          /\ what = "send" => call[w].tool = "use"
    BY <1>2, <1>8 DEF Bridge!Go
  <2>2. PICK r \in CallRecord : call' = [call EXCEPT ![w] = r] /\ CallPlaced(r)
    BY <1>1, <2>1, RpcFacts
  <2> QED
    BY <1>5, <1>6, <1>8, <2>1, <2>2
<1>9. CASE call[w].tool = "use" /\ ch \notin marked
  <2>1. Bridge!Rpc(w, current, "subscribe", {ch}) /\ marked' = marked \cup {ch}
    BY <1>2, <1>9 DEF Bridge!Go
  <2>2. PICK c \in Channels : c = ch
    BY <1>2
  <2>3. PICK r \in CallRecord :
          /\ call' = [call EXCEPT ![w] = r]
          /\ CallPlaced(r) /\ r.at = "subscribe" /\ r.asked = {c}
    BY <1>1, <2>1, <2>2, RpcFacts
  <2> QED
    BY <1>5, <1>6, <1>9, <2>1, <2>2, <2>3 DEF Asks
<1> QED
  BY <1>2, <1>7, <1>8, <1>9 DEF Tools

\* AskKeeps: sc_subscribe asks for all that is marked; join marks its channel and
\* asks for it.
LEMMA AskKeeps ==
  ASSUME BridgeInv, NEW w \in Callers,
         \/ \E existing \in {{}, Bridge!Subs(w)} : Bridge!StatsReply(w, existing)
         \/ Bridge!JoinReply(w)
  PROVE  BridgeInv'
<1>1. call[w].at \in Busy /\ call[w].at \in {"stats", "join"}
  BY DEF Bridge!StatsReply, Bridge!JoinReply, Bridge!Replies, Busy
<1>2. /\ call[w].channel \in Channels /\ call[w].on = current
      /\ current \in Clients /\ current # None
      /\ marked \subseteq Channels /\ slipped \subseteq marked
      /\ call[w].at = "join" => call[w].tool = "join"
  BY <1>1, BusyFacts, NoneAssumption DEF BridgeInv, MarkedCovered
<1>3. PICK S \in SUBSET Channels : S = client[current].subs
  BY <1>1, BusyFacts DEF ClientRecord
<1>4. PICK T \in SUBSET Channels :
        /\ Bridge!Rpc(w, current, "subscribe", T)
        /\ marked' \subseteq Channels /\ marked \subseteq marked'
        /\ \A x \in marked' : x \in T \/ (x \in marked /\ ~Asks(call[w], x))
  <2>1. ASSUME NEW existing \in {{}, Bridge!Subs(w)}, Bridge!StatsReply(w, existing)
        PROVE  /\ Bridge!Rpc(w, current, "subscribe", existing \cup marked)
               /\ existing \cup marked \in SUBSET Channels /\ marked' = marked
    <3>1. existing \subseteq Channels
      BY <1>2, <1>3, NoneAssumption DEF Bridge!Subs
    <3> QED
      BY <1>2, <2>1, <3>1 DEF Bridge!StatsReply
  <2>2. CASE Bridge!JoinReply(w)
    <3>1. \A x : ~Asks(call[w], x)
      BY <1>2, <2>2 DEF Bridge!JoinReply, Bridge!Replies, Asks
    <3> QED
      BY <1>2, <2>2, <3>1 DEF Bridge!JoinReply
  <2> QED
    BY <2>1, <2>2
<1>5. UNCHANGED <<client, current, connecting, slipped>>
  BY DEF Bridge!StatsReply, Bridge!JoinReply
<1>6. PICK r \in CallRecord :
        /\ call' = [call EXCEPT ![w] = r] /\ CallPlaced(r)
        /\ r.at = "subscribe" /\ r.asked = T
  BY <1>1, <1>4, RpcFacts
<1>7. \A x \in marked' \ slipped' :
        Asks(r, x) \/ (x \in marked \ slipped /\ ~Asks(call[w], x))
  BY <1>4, <1>5, <1>6 DEF Asks
<1> QED
  BY <1>2, <1>3, <1>4, <1>5, <1>6, <1>7, OneCallKeeps

\* ReplyKeeps: a leave takes the mark of its channel away, refused or not; what the
\* peer lists after a subscribe is covered, and what it refused or dropped slipped; a
\* send is over.
LEMMA ReplyKeeps ==
  ASSUME BridgeInv, NEW w \in Callers,
         \/ \E refused \in BOOLEAN : Bridge!LeaveReply(w, refused)
         \/ \E list \in Bridge!Lists(Bridge!Subs(w), call[w].asked) :
              Bridge!SubscribeReply(w, list)
         \/ Bridge!SendReply(w)
  PROVE  BridgeInv'
<1>1. call[w].at \in Busy /\ call[w].at \in {"leave", "subscribe", "send"}
  BY DEF Bridge!LeaveReply, Bridge!SubscribeReply, Bridge!SendReply, Bridge!Replies, Busy
<1>2. /\ call[w] \in CallRecord /\ call[w].channel \in Channels /\ call[w].on = current
      /\ current \in Clients /\ current # None
      /\ marked \subseteq Channels /\ slipped \subseteq marked
      /\ call[w].at = "leave" => call[w].tool = "leave"
      /\ call[w].at = "send" => call[w].tool = "use"
  BY <1>1, BusyFacts, NoneAssumption DEF BridgeInv, MarkedCovered
<1>3. PICK S \in SUBSET Channels : S = client[current].subs
  BY <1>1, BusyFacts DEF ClientRecord
<1>4. \A x : Asks(call[w], x) <=> call[w].at = "subscribe" /\ x \in call[w].asked
  BY <1>1, <1>2 DEF Asks
<1>5. CallPlaced(Bridge!NoCall) /\ Bridge!NoCall \in CallRecord
  BY NoCallFacts DEF CallPlaced
<1>6. CASE Bridge!SendReply(w)
  <2>1. /\ call' = [call EXCEPT ![w] = Bridge!NoCall] /\ call[w].at = "send"
        /\ UNCHANGED <<client, current, connecting, marked, slipped>>
    BY <1>6 DEF Bridge!SendReply, Bridge!Replies
  <2>2. \A x \in marked' \ slipped' : x \in marked \ slipped /\ ~Asks(call[w], x)
    BY <1>4, <2>1
  <2>3. PICK r \in CallRecord : r = Bridge!NoCall /\ CallPlaced(r)
    BY <1>5
  <2> QED
    BY <1>2, <1>3, <2>1, <2>2, <2>3, OneCallKeeps
<1>7. ASSUME NEW refused \in BOOLEAN, Bridge!LeaveReply(w, refused) PROVE BridgeInv'
  <2>1. PICK ch \in Channels : ch = call[w].channel
    BY <1>2
  <2>2. /\ call' = [call EXCEPT ![w] = Bridge!NoCall] /\ call[w].at = "leave"
        /\ client' = [client EXCEPT ![current].subs = IF refused THEN S ELSE S \ {ch}]
        /\ marked' = marked \ {ch} /\ slipped' = slipped \ {ch}
        /\ UNCHANGED <<current, connecting>>
    BY <1>2, <1>3, <1>7, <2>1 DEF Bridge!LeaveReply, Bridge!Replies
  <2>6. PICK T \in SUBSET Channels : T = IF refused THEN S ELSE S \ {ch}
    OBVIOUS
  <2>3. \A x \in marked' \ slipped' :
          /\ x \in marked \ slipped /\ ~Asks(call[w], x)
          /\ x \in client[current].subs => x \in T
    BY <1>3, <1>4, <2>2, <2>6
  <2>4. PICK r \in CallRecord : r = Bridge!NoCall /\ CallPlaced(r)
    BY <1>5
  <2>5. marked' \subseteq Channels /\ slipped' \subseteq marked'
    BY <1>2, <2>2
  <2> QED
    BY <1>2, <2>2, <2>3, <2>4, <2>5, <2>6, OneCallKeeps
<1>8. ASSUME NEW list \in Bridge!Lists(Bridge!Subs(w), call[w].asked),
             Bridge!SubscribeReply(w, list)
      PROVE  BridgeInv'
  <2>1. PICK A \in SUBSET Channels : A = call[w].asked
    BY <1>2 DEF CallRecord
  <2>2. PICK T \in SUBSET Channels : T = list
    BY <1>2, <1>3, <2>1, NoneAssumption DEF Bridge!Lists, Bridge!Subs
  <2>3. /\ client' = [client EXCEPT ![current].subs = T]
        /\ slipped' = (slipped \cup (marked \cap (S \cup A))) \ T /\ marked' = marked
        /\ UNCHANGED <<current, connecting>>
        /\ call[w].at = "subscribe"
    BY <1>2, <1>3, <1>8, <2>1, <2>2
    DEF Bridge!SubscribeReply, Bridge!Replies, Bridge!SlippedAfter
  <2>4. PICK r \in CallRecord : call' = [call EXCEPT ![w] = r] /\ CallPlaced(r)
    <3>1. CASE call[w].tool = "use"
      <4>1. Bridge!Rpc(w, current, "send", {})
        BY <1>2, <1>8, <3>1 DEF Bridge!SubscribeReply
      <4> QED
        BY <1>1, <3>1, <4>1, RpcFacts
    <3>2. CASE call[w].tool # "use"
      BY <1>5, <1>8, <3>2 DEF Bridge!SubscribeReply
    <3> QED
      BY <3>1, <3>2
  <2>5. \A x \in marked' \ slipped' :
          \/ Asks(r, x)
          \/ current # None /\ x \in T
          \/ /\ x \in marked \ slipped /\ ~Asks(call[w], x)
             /\ current # None /\ x \in client[current].subs => x \in T
    BY <1>2, <1>3, <1>4, <2>1, <2>2, <2>3
  <2>6. marked' \subseteq Channels /\ slipped' \subseteq marked'
    BY <1>2, <2>3
  <2> QED
    BY <2>3, <2>4, <2>5, <2>6, <1>2, OneCallKeeps
<1> QED
  BY <1>6, <1>7, <1>8

\* GoingFacts: when the connect is over, all who awaited it go on.
LEMMA GoingFacts ==
  ASSUME BridgeInv, NEW c \in Clients, connecting = c,
         call' = Bridge!Going(c), current' = c, connecting' = None
  PROVE  /\ CallsPlaced'
         /\ \A v \in Callers : \A ch : Asks(call[v], ch) => Asks(call'[v], ch)
<1>1. ASSUME NEW v \in Callers
      PROVE  /\ call'[v] \in CallRecord
             /\ CallPlaced(call[v])'
             /\ \A ch : Asks(call[v], ch) => Asks(call'[v], ch)
  <2>1. call[v] \in CallRecord /\ CallPlaced(call[v]) /\ current = None
    BY NoneAssumption DEF BridgeInv, CallsPlaced, ClientsKnown
  <2>2. CASE call[v] = Bridge!NoCall
    <3>1. call'[v] = Bridge!NoCall
      BY <2>2, NoCallFacts DEF Bridge!Going
    <3> QED
      BY <2>2, <3>1, NoCallFacts DEF CallPlaced
  <2>3. CASE call[v] # Bridge!NoCall
    <3>1. call[v].at = "connect" /\ call[v].on = c
      BY <2>1, <2>3, NoneAssumption DEF CallPlaced
    <3>2. call'[v] = [call[v] EXCEPT !.at = "go"]
      BY <3>1 DEF Bridge!Going
    <3>3. /\ call'[v] \in CallRecord
          /\ call'[v].at = "go" /\ call'[v].on = c
          /\ call'[v].tool = call[v].tool /\ call'[v].channel = call[v].channel
      BY <2>1, <3>1, <3>2 DEF CallRecord, Busy
    <3>4. CallPlaced(call[v])'
      BY <2>1, <2>3, <3>3 DEF CallPlaced, Busy
    <3>5. \A ch : Asks(call[v], ch) => Asks(call'[v], ch)
      BY <3>1, <3>3 DEF Asks
    <3> QED
      BY <3>3, <3>4, <3>5
  <2> QED
    BY <2>2, <2>3
<1> QED
  BY <1>1 DEF CallsPlaced, Bridge!Going

\* ConnectKeeps: the new client asks for all that is marked, and is the current
\* one when the peer has answered.
LEMMA ConnectKeeps ==
  ASSUME BridgeInv, NEW c \in Clients, NEW list \in Bridge!Lists({}, client[c].asked),
         Bridge!Opens(c) \/ Bridge!Connected(c, list)
  PROVE  BridgeInv'
<1> USE DEF BridgeInv
<1>1. /\ client[c].at \in {"opening", "subscribing"} /\ connecting = c /\ current = None
      /\ client[c] \in ClientRecord
      /\ marked \subseteq Channels /\ slipped \subseteq marked
  BY NoneAssumption DEF Bridge!Opens, Bridge!Connected, ClientsKnown, MarkedCovered
<1>2. \A d \in Clients \ {c} :
        /\ client[d].feeds = FALSE /\ client[d].at \notin {"opening", "subscribing", "up"}
        /\ client'[d] = client[d]
  <2>1. \A d \in Clients \ {c} : client'[d] = client[d]
    BY DEF Bridge!Opens, Bridge!Connected, ClientsKnown
  <2> QED
    BY <1>1, <2>1, NoneAssumption DEF ClientsKnown, ClientRecord
<1>3. CASE Bridge!Opens(c) /\ marked # {}
  <2>1. /\ client' = [client EXCEPT ![c].feeds = TRUE, ![c].asked = marked,
                                    ![c].at = "subscribing"]
        /\ UNCHANGED <<current, connecting, call, marked, slipped>>
    BY <1>3 DEF Bridge!Opens, Bridge!Reapplied
  <2>2. /\ client'[c] \in ClientRecord
        /\ client'[c].at = "subscribing" /\ client'[c].asked = marked
    BY <1>1, <2>1 DEF ClientRecord, ClientsKnown
  <2>3. ClientsKnown'
    <3>1. client' \in [Clients -> ClientRecord]
      BY <2>1, <2>2, <1>2 DEF ClientsKnown
    <3> QED
      BY <1>1, <1>2, <2>1, <2>2, <3>1, NoneAssumption DEF ClientsKnown
  <2>4. CallsPlaced'
    BY <2>1 DEF CallsPlaced, CallPlaced
  <2>5. MarkedCovered'
    BY <1>1, <2>1, <2>2 DEF MarkedCovered, Covered
  <2> QED
    BY <2>3, <2>4, <2>5
<1>4. CASE Bridge!Connected(c, list) \/ (Bridge!Opens(c) /\ marked = {})
  <2>0. PICK A \in SUBSET Channels, T \in SUBSET Channels : A = client[c].asked /\ T = list
    BY <1>1 DEF ClientRecord, Bridge!Lists
  <2>1. /\ call' = Bridge!Going(c) /\ current' = c /\ connecting' = None
        /\ marked' = marked /\ slipped' \subseteq marked
        /\ client'[c] \in ClientRecord /\ client'[c].at = "up"
    <3>1. CASE Bridge!Connected(c, list)
      <4>1. /\ client'[c] = [client[c] EXCEPT !.at = "up", !.subs = T, !.asked = {}]
            /\ slipped' = (slipped \cup (marked \cap A)) \ T
        BY <2>0, <3>1 DEF Bridge!Connected, Bridge!SlippedAfter, ClientsKnown
      <4>2. client'[c] \in ClientRecord /\ client'[c].at = "up"
        BY <1>1, <4>1 DEF ClientRecord
      <4> QED
        BY <1>1, <3>1, <4>1, <4>2 DEF Bridge!Connected
    <3>2. CASE Bridge!Opens(c) /\ marked = {}
      BY <1>1, <3>2
      DEF Bridge!Opens, Bridge!Reapplied, ClientsKnown, ClientRecord
    <3> QED
      BY <1>4, <3>1, <3>2
  <2>2. ClientsKnown'
    <3>1. client' \in [Clients -> ClientRecord]
      BY <1>1, <1>2, <1>4, <2>1 DEF ClientsKnown, Bridge!Opens, Bridge!Connected
    <3> QED
      BY <1>1, <1>2, <2>1, <3>1, NoneAssumption DEF ClientsKnown
  <2>3. /\ CallsPlaced'
        /\ \A v \in Callers : \A ch : Asks(call[v], ch) => Asks(call'[v], ch)
    BY <1>1, <2>1, GoingFacts
  <2>4. Covered(client[current].subs)'
    <3>1. CASE Bridge!Connected(c, list)
      <4>1. client'[c] = [client[c] EXCEPT !.at = "up", !.subs = T, !.asked = {}]
        BY <2>0, <3>1 DEF Bridge!Connected, ClientsKnown
      <4>2. /\ client'[c].subs = T /\ client[c].at = "subscribing"
            /\ slipped' = (slipped \cup (marked \cap A)) \ T
        BY <1>1, <2>0, <3>1, <4>1 DEF Bridge!Connected, Bridge!SlippedAfter, ClientRecord
      <4>3. Covered(A)
        BY <1>1, <2>0, <4>2, NoneAssumption DEF MarkedCovered
      <4> QED
        BY <2>1, <2>3, <4>2, <4>3 DEF Covered
    <3>2. CASE marked = {}
      BY <2>1, <3>2 DEF Covered
    <3> QED
      BY <1>4, <3>1, <3>2
  <2>5. MarkedCovered'
    <3>1. slipped' \subseteq marked'
      BY <1>1, <2>1
    <3> QED
      BY <1>1, <2>1, <2>4, <3>1 DEF MarkedCovered
  <2> QED
    BY <2>2, <2>3, <2>5
<1> QED
  BY <1>3, <1>4

\* BridgeKept: no step of the bridge client or its tools disturbs that.
LEMMA BridgeKept ==
  ASSUME MidConnect = FALSE, BridgeInv, [ServicesNext]_servicesVars
  PROVE  BridgeInv'
<1>1. CASE UNCHANGED bridgeVars
  <2>1. /\ client' = client /\ current' = current /\ connecting' = connecting
        /\ marked' = marked /\ call' = call /\ slipped' = slipped
    BY <1>1 DEF bridgeVars
  <2>2. ClientsKnown'
    BY <2>1 DEF BridgeInv, ClientsKnown
  <2>3. CallsPlaced'
    BY <2>1 DEF BridgeInv, CallsPlaced, CallPlaced
  <2>4. MarkedCovered'
    BY <2>1 DEF BridgeInv, MarkedCovered, Covered
  <2> QED
    BY <2>2, <2>3, <2>4 DEF BridgeInv
<1>2. ASSUME NEW w \in Callers, NEW ch \in Channels, Bridge!BeginSubscribe(w, ch)
      PROVE  BridgeInv'
  BY <1>2, EnsureKeeps DEF Bridge!BeginSubscribe, Tools
<1>3. ASSUME NEW w \in Callers, NEW ch \in Channels, NEW tool \in {"join", "leave", "use"},
             Bridge!Begin(w, tool, ch)
      PROVE  BridgeInv'
  BY <1>3, EnsureKeeps DEF Bridge!Begin, Tools
<1>4. ASSUME NEW w \in Callers,
             \/ Bridge!Go(w) \/ Bridge!JoinReply(w) \/ Bridge!SendReply(w)
             \/ \E existing \in {{}, Bridge!Subs(w)} : Bridge!StatsReply(w, existing)
             \/ \E refused \in BOOLEAN : Bridge!LeaveReply(w, refused)
             \/ \E list \in Bridge!Lists(Bridge!Subs(w), call[w].asked) :
                  Bridge!SubscribeReply(w, list)
      PROVE  BridgeInv'
  BY <1>4, GoKeeps, AskKeeps, ReplyKeeps
<1>5. ASSUME NEW w \in Callers, Bridge!RpcTimesOut(w) PROVE BridgeInv'
  <2>1. call[w].at \in Busy
    BY <1>5 DEF Bridge!RpcTimesOut, Bridge!Awaits, Busy
  <2>2. PICK c \in Clients : c = current /\ call[w].on = c /\ connecting = None
    BY <2>1, BusyFacts
  <2> QED
    BY <1>5, <2>2, DropKeeps, NoneAssumption DEF Bridge!RpcTimesOut, Bridge!WithoutCurrent
<1>6. ASSUME NEW ch \in Channels, Bridge!DryRun(ch) PROVE BridgeInv'
  <2>1. /\ UNCHANGED <<client, current, connecting, call>>
        /\ marked' = marked \cup {ch} /\ slipped' = slipped \cup ({ch} \ marked)
    BY <1>6 DEF Bridge!DryRun
  <2>2. ClientsKnown' /\ CallsPlaced'
    BY <2>1 DEF BridgeInv, ClientsKnown, CallsPlaced, CallPlaced
  <2>3. marked' \ slipped' \subseteq marked \ slipped
        /\ marked' \subseteq Channels /\ slipped' \subseteq marked'
    BY <2>1 DEF BridgeInv, MarkedCovered
  <2> QED
    BY <2>1, <2>2, <2>3 DEF BridgeInv, MarkedCovered, Covered
<1>7. ASSUME NEW c \in Clients, Bridge!SocketDies(c) PROVE BridgeInv'
  <2>1. /\ client' = [client EXCEPT ![c].open = FALSE]
        /\ UNCHANGED <<current, connecting, marked, call, slipped>>
    BY <1>7 DEF Bridge!SocketDies
  <2>2. \A d \in Clients :
          /\ client'[d] \in ClientRecord
          /\ client'[d].at = client[d].at /\ client'[d].feeds = client[d].feeds
          /\ client'[d].asked = client[d].asked /\ client'[d].subs = client[d].subs
    BY <2>1 DEF BridgeInv, ClientsKnown, ClientRecord
  <2>3. ClientsKnown'
    <3>1. client' \in [Clients -> ClientRecord]
      BY <2>1, <2>2 DEF BridgeInv, ClientsKnown
    <3> QED
      BY <2>1, <2>2, <3>1 DEF BridgeInv, ClientsKnown
  <2>4. CallsPlaced'
    BY <2>1 DEF BridgeInv, CallsPlaced, CallPlaced
  <2>5. MarkedCovered'
    BY <2>1, <2>2 DEF BridgeInv, MarkedCovered, Covered, ClientsKnown
  <2> QED
    BY <2>3, <2>4, <2>5 DEF BridgeInv
<1>8. ASSUME NEW c \in Clients, Bridge!Closes(c) PROVE BridgeInv'
  <2>1. current = c /\ connecting = None
    BY <1>8, NoneAssumption DEF Bridge!Closes, BridgeInv, ClientsKnown
  <2> QED
    BY <1>8, <2>1, DropKeeps, NoneAssumption DEF Bridge!Closes, Bridge!WithoutCurrent
<1>9. ASSUME NEW c \in Clients,
             \/ Bridge!Opens(c)
             \/ \E list \in Bridge!Lists({}, client[c].asked) : Bridge!Connected(c, list)
      PROVE  BridgeInv'
  <2>1. \E list : list \in Bridge!Lists({}, client[c].asked)
    BY DEF Bridge!Lists
  <2> QED
    BY <1>9, <2>1, ConnectKeeps
<1>10. ASSUME NEW c \in Clients, Bridge!ConnectFails(c) PROVE BridgeInv'
  <2>1. connecting = c /\ current = None
    BY <1>10, NoneAssumption DEF Bridge!ConnectFails, BridgeInv, ClientsKnown
  <2> QED
    BY <1>10, <2>1, DropKeeps, NoneAssumption DEF Bridge!ConnectFails
<1>11. CASE Bridge!StackStop
  <2>1. connecting = None /\ current # None /\ current \in Clients
    BY <1>11, NoneAssumption DEF Bridge!StackStop, BridgeInv, ClientsKnown
  <2>2. PICK c \in Clients : c = current
    BY <2>1
  <2> QED
    BY <1>11, <2>1, <2>2, DropKeeps, NoneAssumption DEF Bridge!StackStop
<1> QED
  BY <1>1, <1>2, <1>3, <1>4, <1>5, <1>6, <1>7, <1>8, <1>9, <1>10, <1>11
  DEF ServicesNext, OnlyAuto, OnlyProcs, OnlyWork, OnlyBridge, OnlyPool, OnlyGuard,
      servicesVars, Bridge!Next

\* OneFeeds: only the client that is current or connecting has its listeners on.
LEMMA OneFeeds == BridgeInv => OneFeed
<1> SUFFICES ASSUME BridgeInv PROVE OneFeed
  OBVIOUS
<1> DEFINE F == { c \in Clients : client[c].feeds /\ client[c].open }
<1>1. \A c, d \in F : c = d
  BY NoneAssumption DEF BridgeInv, ClientsKnown
<1>2. F = {} \/ \E c : F = {c}
  BY <1>1
<1>3. Cardinality(F) <= 1
  <2> HIDE DEF F
  <2> QED
    <3>1. CASE F = {}
      BY <3>1, FS_EmptySet
    <3>2. ASSUME NEW c, F = {c} PROVE Cardinality(F) <= 1
      <4>1. Cardinality({c}) = 1
        BY FS_Singleton
      <4> QED
        BY <3>2, <4>1
    <3> QED
      BY <1>2, <3>1, <3>2
<1> QED
  BY <1>3 DEF OneFeed, Bridge!OneFeed, Bridge!Cardinality, Cardinality

\* CoveredIsKept: a call that asks is one the tools may rely on.
LEMMA CoveredIsKept == BridgeInv => SubscriptionsKept
<1> SUFFICES ASSUME BridgeInv, Bridge!IsOpen(current), NEW ch \in marked \ slipped,
                    ch \notin client[current].subs
             PROVE  \E w \in Callers : Bridge!Asking(w, current, ch)
  BY DEF SubscriptionsKept, Bridge!SubscriptionsKept
<1>1. PICK w \in Callers : Asks(call[w], ch)
  BY DEF BridgeInv, MarkedCovered, Covered, Bridge!IsOpen
<1>2. CASE call[w].at = "subscribe"
  BY <1>1, <1>2, BusyFacts DEF Asks, Bridge!Asking, Busy
<1>3. CASE call[w].at # "subscribe"
  BY <1>1, <1>3 DEF Asks, Bridge!Asking
<1> QED
  BY <1>2, <1>3

\* However many connections, channels and callers there are, a message enters the
\* log once, unless a stack_stop comes in the middle of a connect
\* (executor.js:1563-1605).
THEOREM FedOnce == ASSUME MidConnect = FALSE PROVE ServicesSpec => []OneFeed
BY BridgeFirst, BridgeKept, OneFeeds, PTL DEF ServicesSpec

\* And, under the same proviso, what is marked as subscribed is what the peer lists or
\* is asked for, after every reconnect, time-out and failed connect, also for a peer
\* that refuses subscribes or lets each list replace the last: only what it refused,
\* dropped for another list or was never asked for is marked and not sent, until it
\* lists it again (executor.js:1588-1617, 2936, sc-bridge/client.js:158-166).
THEOREM MarksHold == ASSUME MidConnect = FALSE PROVE ServicesSpec => []SubscriptionsKept
BY BridgeFirst, BridgeKept, CoveredIsKept, PTL DEF ServicesSpec

-----------------------------------------------------------------------------
(* AutopostManager *)

\* The shape of a job.
JobRecord ==
  [at : {"new", "idle", "posting"}, name : Posts!TableNames \cup {None},
   startedAt : 0 .. AutoHorizon, offers : SUBSET Lines, signer : BOOLEAN, timer : BOOLEAN,
   due : 0 .. (AutoHorizon + 1), queued : 0 .. AutoHorizon, out : SUBSET Lines,
   missed : BOOLEAN]

\* A job: one that has not started has nothing; a run is queued by each timer.
JobSound(j) ==
  /\ job[j] \in JobRecord
  /\ job[j].at = "new" =>
       job[j].due = 0 /\ ~job[j].timer /\ ~job[j].signer /\ job[j].out = {} /\ job[j].name = None
  /\ job[j].at # "new" => job[j].name \in Posts!TableNames
  /\ job[j].startedAt <= clock
  /\ job[j].due <= clock + 1
  /\ job[j].queued = 0 \/ job[j].queued < job[j].due
  /\ job[j].timer => job[j].due > 0
  /\ job[j].signer => j \in OfferJobs

\* Every job, the table and the sales are so.
AutoTyped ==
  /\ clock \in 0 .. AutoHorizon
  /\ table \in [Posts!TableNames -> Jobs \cup {None}]
  /\ job \in [Jobs -> JobRecord]
  /\ claimed \in [Jobs -> [Lines -> -1 .. AutoHorizon]]
  /\ progressed \subseteq Jobs
  /\ \A j \in Jobs : JobSound(j)

\* The table holds a job under its name.
TableTrue ==
  \A n \in Posts!TableNames : table[n] # None => job[table[n]].name = n

\* No line of a job is sold before the job starts.
SoldSince ==
  \A j \in Jobs, l \in Lines : claimed[j][l] # -1 =>
    job[j].at # "new" /\ claimed[j][l] >= job[j].startedAt

\* What keeps every timer in reach.
AutoInv == AutoTyped /\ TableTrue /\ Stoppable /\ SoldSince

\* NoneApart: None is no job and no name.
LEMMA NoneApart == None \notin Jobs /\ None \notin Posts!TableNames
BY NoneAssumption DEF Posts!TableNames

\* AutoStep: a step of the services is one of autopost, or leaves it alone.
LEMMA AutoStep ==
  ASSUME [ServicesNext]_servicesVars
  PROVE  Posts!Next \/ UNCHANGED autoVars
BY DEF ServicesNext, OnlyAuto, OnlyProcs, OnlyWork, OnlyBridge, OnlyPool, OnlyGuard,
       servicesVars

\* AutoFirst: no job has started at first.
LEMMA AutoFirst == ServicesInit => AutoInv
<1> SUFFICES ASSUME Posts!Init PROVE AutoInv
  BY DEF ServicesInit
<1>1. Posts!New \in JobRecord
  BY SizesAssumption DEF Posts!New, JobRecord
<1>2. AutoTyped
  <2>1. clock = 0 /\ clock \in 0 .. AutoHorizon /\ -1 \in -1 .. AutoHorizon
    BY SizesAssumption DEF Posts!Init
  <2>2. \A j \in Jobs : JobSound(j)
    BY <1>1, <2>1 DEF Posts!Init, JobSound, Posts!New
  <2> QED
    BY <1>1, <2>1, <2>2 DEF Posts!Init, AutoTyped
<1>3. TableTrue /\ SoldSince
  BY DEF Posts!Init, TableTrue, SoldSince
<1>4. Stoppable
  BY DEF Posts!Init, Stoppable, Posts!Stoppable, Posts!New
<1> QED
  BY <1>2, <1>3, <1>4 DEF AutoInv

\* RanFacts: a run stops its job, or posts what is open, unless it missed a receipt.
LEMMA RanFacts ==
  ASSUME clock \in Int, NEW j \in Jobs, NEW r \in JobRecord, NEW sold, NEW told \in BOOLEAN,
         NEW q, q = Posts!Ran(j, r, sold, told)
  PROVE  /\ q \in JobRecord /\ q.at \in {"idle", "posting"}
         /\ q.name = r.name /\ q.startedAt = r.startedAt /\ q.signer = r.signer
         /\ q.due = r.due /\ q.queued = r.queued
         /\ q.at = "idle" => ~q.timer
         /\ q.at = "posting" =>
              /\ q.timer = r.timer /\ clock < Expiry[j]
              /\ q.missed \/ (j \notin OfferJobs => j \notin progressed)
              /\ q.missed \/ (j \in OfferJobs /\ r.signer => sold = Posts!Sales)
              /\ q.offers = IF j \in OfferJobs /\ r.signer THEN Posts!Pruned(r, sold)
                            ELSE r.offers
<1> DEFINE lines == IF j \in OfferJobs /\ r.signer THEN Posts!Pruned(r, sold) ELSE r.offers
           missed == IF j \in OfferJobs THEN r.signer /\ sold # Posts!Sales
                     ELSE j \in progressed /\ ~told
           Posted == [r EXCEPT !.offers = lines, !.at = "posting", !.out = @ \cup lines,
                               !.missed = missed]
<1>1. lines \in SUBSET Lines
  BY DEF JobRecord, Posts!Pruned
<1>0. missed \in BOOLEAN
  BY DEF JobRecord
<1>2. CASE q = [r EXCEPT !.timer = FALSE, !.at = "idle", !.missed = FALSE]
  BY <1>2 DEF JobRecord
<1>3. CASE q = [[r EXCEPT !.offers = {}] EXCEPT !.timer = FALSE, !.at = "idle",
                                                !.missed = FALSE]
  BY <1>3 DEF JobRecord
<1>4. ASSUME q = Posted, ~(clock >= Expiry[j]),
             ~(j \notin OfferJobs /\ j \in progressed /\ told)
      PROVE  /\ q \in JobRecord /\ q.at = "posting"
             /\ q.name = r.name /\ q.startedAt = r.startedAt /\ q.signer = r.signer
             /\ q.due = r.due /\ q.queued = r.queued /\ q.timer = r.timer
             /\ clock < Expiry[j]
             /\ q.missed \/ (j \notin OfferJobs => j \notin progressed)
             /\ q.missed \/ (j \in OfferJobs /\ r.signer => sold = Posts!Sales)
             /\ q.offers = lines
  <2>6. missed \/ (j \notin OfferJobs => j \notin progressed)
    BY <1>4
  <2>7. missed \/ (j \in OfferJobs /\ r.signer => sold = Posts!Sales)
    OBVIOUS
  <2> HIDE DEF lines, missed
  <2>1. q \in JobRecord /\ q.at = "posting"
    BY <1>0, <1>1, <1>4 DEF JobRecord
  <2>2. q.name = r.name /\ q.startedAt = r.startedAt /\ q.signer = r.signer
    BY <1>4 DEF JobRecord
  <2>3. q.due = r.due /\ q.queued = r.queued /\ q.timer = r.timer
    BY <1>4 DEF JobRecord
  <2>4. q.offers = lines
    BY <1>4 DEF JobRecord
  <2>5. clock < Expiry[j]
    BY <1>4, AutoAssumption
  <2>8. q.missed = missed
    BY <1>4 DEF JobRecord
  <2> QED
    BY <2>1, <2>2, <2>3, <2>4, <2>5, <2>6, <2>7, <2>8
<1>5. \/ q = [r EXCEPT !.timer = FALSE, !.at = "idle", !.missed = FALSE]
      \/ q = [[r EXCEPT !.offers = {}] EXCEPT !.timer = FALSE, !.at = "idle",
                                              !.missed = FALSE]
      \/ /\ q = Posted /\ ~(clock >= Expiry[j])
         /\ ~(j \notin OfferJobs /\ j \in progressed /\ told)
  BY DEF Posts!Ran, Posts!Stopped
<1> HIDE DEF lines, missed, Posted
<1> QED
  BY <1>2, <1>3, <1>4, <1>5 DEF lines

\* JobStep: what a step about one job has to keep.
LEMMA JobStep ==
  ASSUME AutoInv, NEW j \in Jobs, NEW q \in JobRecord,
         job' = [job EXCEPT ![j] = q],
         UNCHANGED <<clock, claimed, progressed>>,
         q.at # "new", q.name \in Posts!TableNames,
         q.startedAt <= clock, q.due <= clock + 1,
         q.queued = 0 \/ q.queued < q.due, q.timer => q.due > 0,
         q.signer => j \in OfferJobs,
         job[j].at = "new" \/ q.startedAt = job[j].startedAt
  PROVE  /\ job' \in [Jobs -> JobRecord]
         /\ \A i \in Jobs : JobSound(i)'
         /\ SoldSince'
<1>1. /\ job \in [Jobs -> JobRecord] /\ \A i \in Jobs : JobSound(i)
  BY DEF AutoInv, AutoTyped
<1>2. job' \in [Jobs -> JobRecord] /\ job'[j] = q
  BY <1>1
<1>3. JobSound(j)'
  BY <1>2 DEF JobSound
<1>4. \A i \in Jobs \ {j} : job'[i] = job[i]
  BY <1>1
<1>5. \A i \in Jobs \ {j} : JobSound(i)'
  BY <1>1, <1>4 DEF JobSound
<1>6. SoldSince'
  BY <1>2, <1>4 DEF SoldSince, AutoInv
<1> QED
  BY <1>2, <1>3, <1>5, <1>6

\* TableStep: the table stays true, and every timer in reach, when a job with its
\* name gets or loses its timer with the entry of that name.
LEMMA TableStep ==
  ASSUME AutoInv, NEW j \in Jobs, NEW q \in JobRecord,
         job' = [job EXCEPT ![j] = q],
         q.name \in Posts!TableNames,
         \/ job[j].at # "new" /\ q.name = job[j].name
         \/ job[j].at = "new",
         \/ table' = table /\ (q.timer => job[j].timer /\ job[j].at # "new")
         \/ table' = [table EXCEPT ![q.name] = None] /\ ~q.timer
         \/ table' = [table EXCEPT ![q.name] = j]
  PROVE  /\ table' \in [Posts!TableNames -> Jobs \cup {None}]
         /\ TableTrue' /\ Stoppable'
<1>1. /\ job \in [Jobs -> JobRecord] /\ table \in [Posts!TableNames -> Jobs \cup {None}]
      /\ \A i \in Jobs : JobSound(i)
      /\ TableTrue /\ Stoppable
  BY DEF AutoInv, AutoTyped
<1>2. /\ table' \in [Posts!TableNames -> Jobs \cup {None}]
      /\ job'[j] = q /\ \A i \in Jobs \ {j} : job'[i] = job[i]
  BY <1>1
<1>3. \A n \in Posts!TableNames : n # q.name => table'[n] = table[n]
  BY <1>1
<1>4. job[j].at = "new" => \A n \in Posts!TableNames : table[n] # j
  BY <1>1, NoneApart DEF JobSound, TableTrue
<1>5. TableTrue'
  <2>1. SUFFICES ASSUME NEW n \in Posts!TableNames, table'[n] # None
                 PROVE  job'[table'[n]].name = n
    BY DEF TableTrue, Posts!TableNames
  <2>2. CASE table'[n] = table[n]
    <3>1. table[n] \in Jobs /\ job[table[n]].name = n
      BY <1>1, <2>1, <2>2 DEF TableTrue
    <3> QED
      BY <1>2, <1>4, <2>2, <3>1
  <2>3. CASE n = q.name /\ table'[n] = j
    BY <1>2, <2>3
  <2> QED
    BY <1>1, <2>1, <2>2, <2>3
<1>6. Stoppable'
  <2>1. SUFFICES ASSUME NEW i \in Jobs, job'[i].timer
                 PROVE  \/ table'[job'[i].name] = i
                        \/ \E k \in Jobs \ {i} : job'[k].name = job'[i].name
    BY DEF Stoppable, Posts!Stoppable
  <2>2. CASE i = j
    BY <1>1, <1>2, <2>1, <2>2 DEF Stoppable, Posts!Stoppable
  <2>3. CASE i # j
    <3>1. /\ job[i].timer /\ job'[i] = job[i] /\ job[i].name \in Posts!TableNames
          /\ \/ table[job[i].name] = i
             \/ \E k \in Jobs \ {i} : job[k].name = job[i].name
      BY <1>1, <1>2, <2>1, <2>3 DEF Stoppable, Posts!Stoppable, JobSound
    <3>2. CASE job[i].name = q.name
      BY <1>2, <2>3, <3>1, <3>2
    <3>3. CASE job[i].name # q.name
      <4>1. table'[job[i].name] = table[job[i].name]
        BY <1>3, <3>1, <3>3
      <4>2. \A k \in Jobs \ {i} : job[k].name = job[i].name => job'[k].name = job[i].name
        BY <1>1, <1>2, <3>1, <3>3, NoneApart DEF JobSound
      <4> QED
        BY <3>1, <4>1, <4>2
    <3> QED
      BY <3>2, <3>3
  <2> QED
    BY <2>2, <2>3
<1> QED
  BY <1>2, <1>5, <1>6

\* StepKeeps: a step about one job that keeps what the two lemmas ask for keeps all.
LEMMA StepKeeps ==
  ASSUME AutoInv, NEW j \in Jobs, NEW q \in JobRecord,
         job' = [job EXCEPT ![j] = q],
         UNCHANGED <<clock, claimed, progressed>>,
         q.at # "new", q.name \in Posts!TableNames,
         q.startedAt <= clock, q.due <= clock + 1,
         q.queued = 0 \/ q.queued < q.due, q.timer => q.due > 0,
         q.signer => j \in OfferJobs,
         \/ job[j].at # "new" /\ q.name = job[j].name /\ q.startedAt = job[j].startedAt
         \/ job[j].at = "new",
         \/ table' = table /\ (q.timer => job[j].timer /\ job[j].at # "new")
         \/ table' = [table EXCEPT ![q.name] = None] /\ ~q.timer
         \/ table' = [table EXCEPT ![q.name] = j]
  PROVE  AutoInv'
<1>1. job' \in [Jobs -> JobRecord] /\ (\A i \in Jobs : JobSound(i)') /\ SoldSince'
  BY JobStep
<1>2. /\ table' \in [Posts!TableNames -> Jobs \cup {None}]
      /\ TableTrue' /\ Stoppable'
  BY TableStep
<1> QED
  BY <1>1, <1>2 DEF AutoInv, AutoTyped

\* StartKeeps: a start makes a job and posts once, or stops it at once.
LEMMA StartKeeps ==
  ASSUME AutoInv, NEW j \in Jobs, NEW sold, NEW told \in BOOLEAN,
         Posts!StartJob(j, sold, told)
  PROVE  AutoInv'
<1>1. PICK n \in Posts!TableNames : n = Posts!StartName(j)
  BY AutoAssumption DEF Posts!StartName, Posts!TableNames
<1> DEFINE r == [Posts!New EXCEPT !.name = n, !.startedAt = clock, !.at = "idle"]
<1>2. clock \in 0 .. AutoHorizon /\ AutoHorizon \in Nat
  BY SizesAssumption DEF AutoInv, AutoTyped
<1>3. r \in JobRecord
  <2>1. Posts!New \in JobRecord
    BY SizesAssumption DEF JobRecord, Posts!New
  <2> QED
    BY <1>2, <2>1 DEF JobRecord
<1>4. r.name = n /\ r.startedAt = clock
  BY DEF Posts!New
<1>5. r.signer = FALSE /\ r.timer = FALSE
  BY DEF Posts!New
<1>6. r.due = 0 /\ r.queued = 0
  BY DEF Posts!New
<1>7. /\ job[j].at = "new" /\ job' = [job EXCEPT ![j] = Posts!Ran(j, r, sold, told)]
      /\ table' = IF Posts!Ran(j, r, sold, told).at = "posting" THEN table
                  ELSE Posts!Unlisted(Posts!Ran(j, r, sold, told))
      /\ UNCHANGED <<clock, claimed, progressed>>
  BY <1>1 DEF Posts!StartJob
<1> HIDE DEF r
<1>8. PICK q : q = Posts!Ran(j, r, sold, told)
  OBVIOUS
<1>9. /\ q \in JobRecord /\ q.at \in {"idle", "posting"}
      /\ q.name = r.name /\ q.startedAt = r.startedAt /\ q.signer = r.signer
      /\ q.due = r.due /\ q.queued = r.queued
      /\ q.at = "idle" => ~q.timer
      /\ q.at = "posting" => q.timer = r.timer
  BY <1>2, <1>3, <1>8, RanFacts
<1>10. table' = IF q.at = "posting" THEN table ELSE [table EXCEPT ![q.name] = None]
  BY <1>7, <1>8 DEF Posts!Unlisted
<1>11. /\ q.at # "new" /\ q.name \in Posts!TableNames /\ q.queued = 0
       /\ q.startedAt <= clock /\ q.due <= clock + 1 /\ ~q.timer /\ ~q.signer
  BY <1>1, <1>2, <1>4, <1>5, <1>6, <1>9
<1>12. table' = table \/ table' = [table EXCEPT ![q.name] = None]
  BY <1>10
<1>13. job' = [job EXCEPT ![j] = q] /\ UNCHANGED <<clock, claimed, progressed>>
  BY <1>7, <1>8
<1> QED
  BY <1>7, <1>9, <1>11, <1>12, <1>13, StepKeeps

\* RunKeeps: a queued run posts, or stops its job.
LEMMA RunKeeps ==
  ASSUME AutoInv, NEW j \in Jobs, NEW sold, NEW told \in BOOLEAN,
         Posts!RunQueued(j, sold, told)
  PROVE  AutoInv'
<1>1. PICK o \in JobRecord : o = job[j]
  BY DEF AutoInv, AutoTyped
<1>2. JobSound(j) /\ clock \in 0 .. AutoHorizon /\ o.at = "idle" /\ o.queued > 0
  BY <1>1 DEF AutoInv, AutoTyped, Posts!RunQueued
<1> DEFINE r == [o EXCEPT !.queued = @ - 1]
<1>3. r \in JobRecord /\ r.queued = o.queued - 1
  BY <1>2, SizesAssumption DEF JobRecord
<1>4. r.name = o.name /\ r.startedAt = o.startedAt /\ r.due = o.due
  BY DEF JobRecord
<1>5. r.signer = o.signer /\ r.timer = o.timer
  BY DEF JobRecord
<1>6. /\ job' = [job EXCEPT ![j] = Posts!Ran(j, r, sold, told)]
      /\ table' = IF Posts!Ran(j, r, sold, told).at = "posting" THEN table
                  ELSE Posts!Unlisted(Posts!Ran(j, r, sold, told))
      /\ UNCHANGED <<clock, claimed, progressed>>
  BY <1>1 DEF Posts!RunQueued
<1> HIDE DEF r
<1>7. PICK q : q = Posts!Ran(j, r, sold, told)
  OBVIOUS
<1>8. /\ q \in JobRecord /\ q.at \in {"idle", "posting"}
      /\ q.name = r.name /\ q.startedAt = r.startedAt /\ q.signer = r.signer
      /\ q.due = r.due /\ q.queued = r.queued
      /\ q.at = "idle" => ~q.timer
      /\ q.at = "posting" => q.timer = r.timer
  BY <1>2, <1>3, <1>7, RanFacts
<1>9. table' = IF q.at = "posting" THEN table ELSE [table EXCEPT ![q.name] = None]
  BY <1>6, <1>7 DEF Posts!Unlisted
<1>10. q.queued = 0 \/ q.queued < q.due
  BY <1>1, <1>2, <1>3, <1>4, <1>8, SizesAssumption DEF JobSound, JobRecord
<1> QED
  BY <1>1, <1>2, <1>4, <1>5, <1>6, <1>7, <1>8, <1>9, <1>10, StepKeeps DEF JobSound

\* PostReplyKeeps: the first reply gives a job its timer and its entry.
LEMMA PostReplyKeeps ==
  ASSUME AutoInv, NEW j \in Jobs, NEW ok \in BOOLEAN, Posts!PostReturns(j, ok)
  PROVE  AutoInv'
<1>1. PICK o \in JobRecord : o = job[j]
  BY DEF AutoInv, AutoTyped
<1>2. JobSound(j) /\ clock \in 0 .. AutoHorizon /\ o.at = "posting"
  BY <1>1 DEF AutoInv, AutoTyped, Posts!PostReturns
<1> DEFINE r == [o EXCEPT !.signer = @ \/ (ok /\ j \in OfferJobs), !.at = "idle",
                          !.missed = FALSE]
<1>3. r \in JobRecord /\ r.at = "idle"
  BY DEF JobRecord
<1>4. r.name = o.name /\ r.startedAt = o.startedAt
  BY DEF JobRecord
<1>5. r.due = o.due /\ r.queued = o.queued
  BY DEF JobRecord
<1>6. r.timer = o.timer /\ r.signer = (o.signer \/ (ok /\ j \in OfferJobs))
  BY DEF JobRecord
<1>7. /\ job' = [job EXCEPT ![j] = IF Posts!IsFirst(r) THEN Posts!Scheduled(r) ELSE r]
      /\ table' = IF Posts!IsFirst(r) THEN [table EXCEPT ![r.name] = j] ELSE table
      /\ UNCHANGED <<clock, claimed, progressed>>
  BY <1>1 DEF Posts!PostReturns
<1> HIDE DEF r
<1>8. CASE r.due = 0
  <2> DEFINE q == [r EXCEPT !.at = "idle", !.timer = TRUE, !.due = clock + 1]
  <2>0. clock + 1 \in 0 .. (AutoHorizon + 1) /\ clock + 1 > 0
    BY <1>2, SizesAssumption
  <2>1. q \in JobRecord /\ q.at = "idle"
    BY <1>3, <2>0 DEF JobRecord
  <2>2. q.name = r.name /\ q.startedAt = r.startedAt /\ q.signer = r.signer
    BY <1>3 DEF JobRecord
  <2>3. q.due = clock + 1 /\ q.queued = r.queued
    BY <1>3 DEF JobRecord
  <2>4. job' = [job EXCEPT ![j] = q] /\ table' = [table EXCEPT ![q.name] = j]
    BY <1>7, <1>8, <2>2 DEF Posts!IsFirst, Posts!Scheduled
  <2> HIDE DEF q
  <2>5. o.queued = 0
    BY <1>1, <1>2, <1>5, <1>8 DEF JobSound, JobRecord
  <2>6. q.due <= clock + 1 /\ q.queued = 0 /\ q.due > 0
    BY <1>2, <1>5, <2>0, <2>3, <2>5
  <2>7. /\ q.name \in Posts!TableNames /\ q.name = job[j].name
        /\ q.startedAt = job[j].startedAt /\ q.startedAt <= clock
        /\ q.signer => j \in OfferJobs
    BY <1>1, <1>2, <1>4, <1>6, <2>2 DEF JobSound
  <2>8. q.at # "new" /\ job[j].at # "new"
    BY <1>1, <1>2, <2>1
  <2> QED
    BY <1>7, <2>1, <2>4, <2>6, <2>7, <2>8, StepKeeps
<1>9. CASE r.due # 0
  <2>1. job' = [job EXCEPT ![j] = r] /\ table' = table
    BY <1>7, <1>9 DEF Posts!IsFirst
  <2> QED
    BY <1>1, <1>2, <1>3, <1>4, <1>5, <1>6, <1>7, <2>1, StepKeeps DEF JobSound
<1> QED
  BY <1>8, <1>9

\* EndKeeps: a job without funds, or past its expiry, loses its timer and its entry.
LEMMA EndKeeps ==
  ASSUME AutoInv, NEW j \in Jobs, Posts!PostLacksFunds(j) \/ Posts!Fire(j)
  PROVE  AutoInv'
<1>1. PICK o \in JobRecord : o = job[j]
  BY DEF AutoInv, AutoTyped
<1>2. JobSound(j) /\ clock \in 0 .. AutoHorizon /\ o.at # "new"
  BY <1>1 DEF AutoInv, AutoTyped, JobSound, Posts!PostLacksFunds, Posts!Fire
<1>3. CASE Posts!PostLacksFunds(j)
  <2> DEFINE q == [o EXCEPT !.timer = FALSE, !.at = "idle", !.missed = FALSE]
  <2>1. q \in JobRecord /\ q.at = "idle" /\ ~q.timer
    BY DEF JobRecord
  <2>2. q.name = o.name /\ q.startedAt = o.startedAt /\ q.signer = o.signer
    BY DEF JobRecord
  <2>3. q.due = o.due /\ q.queued = o.queued
    BY DEF JobRecord
  <2>4. /\ job' = [job EXCEPT ![j] = q] /\ table' = [table EXCEPT ![q.name] = None]
        /\ UNCHANGED <<clock, claimed, progressed>>
    BY <1>1, <1>3, <2>2 DEF Posts!PostLacksFunds, Posts!Stopped, Posts!Unlisted
  <2> HIDE DEF q
  <2> QED
    BY <1>1, <1>2, <2>1, <2>2, <2>3, <2>4, StepKeeps DEF JobSound
<1>4. CASE Posts!Fire(j)
  <2> DEFINE r == [o EXCEPT !.due = clock + 1]
  <2>1. r \in JobRecord /\ r.due = clock + 1 /\ o.timer /\ o.due <= clock
    BY <1>1, <1>2, <1>4, SizesAssumption DEF JobRecord, Posts!Fire
  <2>2. r.name = o.name /\ r.startedAt = o.startedAt /\ r.signer = o.signer
    BY DEF JobRecord
  <2>3. r.at = o.at /\ r.queued = o.queued /\ r.timer = o.timer
    BY DEF JobRecord
  <2>4. o.queued < clock /\ o.queued \in Int /\ clock <= AutoHorizon
    <3>1. o.queued \in 0 .. AutoHorizon /\ o.due \in 0 .. (AutoHorizon + 1)
      BY DEF JobRecord
    <3>2. o.due > 0 /\ (o.queued = 0 \/ o.queued < o.due)
      BY <1>1, <1>2, <2>1 DEF JobSound
    <3> QED
      BY <1>2, <2>1, <3>1, <3>2, SizesAssumption
  <2>5. /\ \/ /\ job' = [job EXCEPT ![j] = [r EXCEPT !.timer = FALSE]]
              /\ table' = Posts!Unlisted(r)
           \/ /\ clock < Expiry[j]
              /\ job' = [job EXCEPT ![j] = [r EXCEPT !.queued = @ + 1]]
              /\ UNCHANGED table
        /\ UNCHANGED <<clock, claimed, progressed>>
    BY <1>1, <1>4 DEF Posts!Fire
  <2> HIDE DEF r
  <2>6. CASE /\ job' = [job EXCEPT ![j] = [r EXCEPT !.timer = FALSE]]
             /\ table' = Posts!Unlisted(r)
    <3> DEFINE q == [r EXCEPT !.timer = FALSE]
    <3>1. q \in JobRecord /\ ~q.timer /\ q.at = r.at
      BY <2>1 DEF JobRecord
    <3>2. q.name = r.name /\ q.startedAt = r.startedAt /\ q.signer = r.signer
      BY <2>1 DEF JobRecord
    <3>3. q.due = r.due /\ q.queued = r.queued
      BY <2>1 DEF JobRecord
    <3>4. job' = [job EXCEPT ![j] = q] /\ table' = [table EXCEPT ![q.name] = None]
      BY <2>6, <3>2 DEF Posts!Unlisted
    <3> HIDE DEF q
    <3>5. q.due <= clock + 1 /\ q.queued < q.due /\ q.due > 0
      BY <1>2, <2>1, <2>3, <2>4, <3>3
    <3>6. /\ q.name \in Posts!TableNames /\ q.name = job[j].name
          /\ q.startedAt = job[j].startedAt /\ q.startedAt <= clock
          /\ q.signer => j \in OfferJobs
      BY <1>1, <1>2, <2>2, <3>2 DEF JobSound
    <3>7. q.at # "new" /\ job[j].at # "new" /\ (q.timer => job[j].timer)
      BY <1>1, <1>2, <2>1, <2>3, <3>1
    <3> QED
      BY <2>5, <3>1, <3>4, <3>5, <3>6, <3>7, StepKeeps
  <2>7. CASE job' = [job EXCEPT ![j] = [r EXCEPT !.queued = @ + 1]] /\ UNCHANGED table
    <3> DEFINE q == [r EXCEPT !.queued = @ + 1]
    <3>0. r.queued + 1 \in 0 .. AutoHorizon
      <4>1. r.queued \in 0 .. AutoHorizon
        BY <2>1 DEF JobRecord
      <4> QED
        BY <1>2, <2>3, <2>4, <4>1, SizesAssumption
    <3>1. q \in JobRecord /\ q.queued = r.queued + 1
      BY <2>1, <3>0 DEF JobRecord
    <3>2. q.name = r.name /\ q.startedAt = r.startedAt /\ q.signer = r.signer
      BY <2>1 DEF JobRecord
    <3>3. q.due = r.due /\ q.timer = r.timer /\ q.at = r.at
      BY <2>1 DEF JobRecord
    <3>4. job' = [job EXCEPT ![j] = q] /\ table' = table
      BY <2>7
    <3> HIDE DEF q
    <3>5. q.due <= clock + 1 /\ q.queued < q.due /\ q.due > 0
      BY <1>2, <2>1, <2>3, <2>4, <3>1, <3>3
    <3>6. /\ q.name \in Posts!TableNames /\ q.name = job[j].name
          /\ q.startedAt = job[j].startedAt /\ q.startedAt <= clock
          /\ q.signer => j \in OfferJobs
      BY <1>1, <1>2, <2>2, <3>2 DEF JobSound
    <3>7. q.at # "new" /\ job[j].at # "new" /\ (q.timer => job[j].timer)
      BY <1>1, <1>2, <2>1, <2>3, <3>1, <3>3
    <3> QED
      BY <2>5, <3>1, <3>4, <3>5, <3>6, <3>7, StepKeeps
  <2> QED
    BY <2>5, <2>6, <2>7
<1> QED
  BY <1>3, <1>4

\* StopKeeps: a stop by name takes the timer of the job that has the name.
LEMMA StopKeeps ==
  ASSUME AutoInv, NEW n \in Posts!TableNames, Posts!Stop(n)
  PROVE  AutoInv'
<1>1. PICK i \in Jobs : i = table[n] /\ job[i].name = n
  BY DEF Posts!Stop, AutoInv, AutoTyped, TableTrue
<1>2. PICK o \in JobRecord : o = job[i]
  BY DEF AutoInv, AutoTyped
<1>3. JobSound(i) /\ o.at # "new"
  BY <1>1, <1>2, NoneApart DEF AutoInv, AutoTyped, JobSound
<1> DEFINE q == [o EXCEPT !.timer = FALSE]
<1>4. q \in JobRecord /\ q.at = o.at /\ ~q.timer
  BY DEF JobRecord
<1>5. q.name = o.name /\ q.startedAt = o.startedAt /\ q.signer = o.signer
  BY DEF JobRecord
<1>6. q.due = o.due /\ q.queued = o.queued
  BY DEF JobRecord
<1>7. /\ job' = [job EXCEPT ![i] = q] /\ table' = [table EXCEPT ![q.name] = None]
      /\ UNCHANGED <<clock, claimed, progressed>>
  BY <1>1, <1>2, <1>5 DEF Posts!Stop
<1> HIDE DEF q
<1>8. /\ q.at # "new" /\ q.name \in Posts!TableNames
      /\ q.startedAt <= clock /\ q.due <= clock + 1
      /\ q.queued = 0 \/ q.queued < q.due
      /\ q.signer => i \in OfferJobs
  BY <1>2, <1>3, <1>4, <1>5, <1>6 DEF JobSound
<1>9. job[i].at # "new" /\ q.name = job[i].name /\ q.startedAt = job[i].startedAt
  BY <1>2, <1>3, <1>5
<1> QED
  BY <1>4, <1>7, <1>8, <1>9, StepKeeps

\* WorldKeeps: sales, progress and time change no job.
LEMMA WorldKeeps ==
  ASSUME AutoInv,
         \/ \E j \in Jobs : Posts!Progress(j) \/ \E l \in Lines : Posts!Sell(j, l)
         \/ Posts!Tick
         \/ UNCHANGED autoVars
  PROVE  AutoInv'
<1>1. UNCHANGED <<table, job>>
  BY DEF Posts!Progress, Posts!Sell, Posts!Tick, autoVars
<1>2. clock' \in 0 .. AutoHorizon /\ clock \in 0 .. AutoHorizon /\ clock <= clock'
  BY SizesAssumption DEF AutoInv, AutoTyped, Posts!Progress, Posts!Sell, Posts!Tick, autoVars
<1>3. progressed' \subseteq Jobs
  BY DEF AutoInv, AutoTyped, Posts!Progress, Posts!Sell, Posts!Tick, autoVars
<1>4. claimed' \in [Jobs -> [Lines -> -1 .. AutoHorizon]] /\ SoldSince'
  <2>1. CASE UNCHANGED claimed
    BY <1>1, <2>1 DEF AutoInv, AutoTyped, SoldSince
  <2>2. ASSUME NEW j \in Jobs, NEW l \in Lines, Posts!Sell(j, l)
        PROVE  claimed' \in [Jobs -> [Lines -> -1 .. AutoHorizon]] /\ SoldSince'
    <3>1. claimed' = [claimed EXCEPT ![j][l] = clock] /\ l \in job[j].out
      BY <2>2 DEF Posts!Sell
    <3>2. /\ claimed \in [Jobs -> [Lines -> -1 .. AutoHorizon]]
          /\ SoldSince /\ JobSound(j)
      BY DEF AutoInv, AutoTyped
    <3>3. clock \in -1 .. AutoHorizon
      BY <1>2, SizesAssumption
    <3>4. claimed' \in [Jobs -> [Lines -> -1 .. AutoHorizon]]
      BY <3>1, <3>2, <3>3
    <3>5. \A i \in Jobs, m \in Lines :
            claimed'[i][m] = IF i = j /\ m = l THEN clock ELSE claimed[i][m]
      BY <3>1, <3>2
    <3>6. job[j].at # "new" /\ clock >= job[j].startedAt
      BY <1>2, <3>1, <3>2, SizesAssumption DEF JobSound, JobRecord
    <3> QED
      BY <1>1, <3>2, <3>4, <3>5, <3>6 DEF SoldSince
  <2> QED
    BY <2>1, <2>2 DEF Posts!Progress, Posts!Tick, autoVars
<1>5. ASSUME NEW j \in Jobs PROVE JobSound(j)'
  <2>1. /\ JobSound(j) /\ job[j].startedAt \in Int /\ job[j].due \in Int
    BY DEF AutoInv, AutoTyped, JobSound, JobRecord
  <2>2. job'[j].startedAt <= clock' /\ job'[j].due <= clock' + 1
    BY <1>1, <1>2, <2>1 DEF JobSound
  <2> QED
    BY <1>1, <2>1, <2>2 DEF JobSound, Posts!TableNames
<1> QED
  BY <1>1, <1>2, <1>3, <1>4, <1>5
  DEF AutoInv, AutoTyped, TableTrue, Stoppable, Posts!Stoppable, Posts!TableNames

\* AutoKept: every step keeps the jobs and the table together.
LEMMA AutoKept == AutoInv /\ [ServicesNext]_servicesVars => AutoInv'
<1> SUFFICES ASSUME AutoInv, Posts!Next \/ UNCHANGED autoVars PROVE AutoInv'
  BY AutoStep
<1>1. \/ \E j \in Jobs :
           \/ \E sold \in Posts!Reads, told \in BOOLEAN :
                Posts!StartJob(j, sold, told) \/ Posts!RunQueued(j, sold, told)
           \/ \E ok \in BOOLEAN : Posts!PostReturns(j, ok)
           \/ Posts!PostLacksFunds(j) \/ Posts!Fire(j)
      \/ \E n \in Posts!TableNames : Posts!Stop(n)
      \/ \E j \in Jobs : Posts!Progress(j) \/ \E l \in Lines : Posts!Sell(j, l)
      \/ Posts!Tick
      \/ UNCHANGED autoVars
  BY DEF Posts!Next
<1> QED
  BY <1>1, StartKeeps, RunKeeps, PostReplyKeeps, EndKeeps, StopKeeps, WorldKeeps

\* A job that has a timer can be stopped by its name, unless it shares the name: for
\* any jobs and names (autopost.js:262-330).
THEOREM StopFinds == ServicesSpec => []Stoppable
BY AutoFirst, AutoKept, PTL DEF ServicesSpec, AutoInv

\* SameCardinality: the two names of the operator mean the same.
LEMMA SameCardinality == \A S : Posts!Cardinality(S) = Cardinality(S)
BY DEF Posts!Cardinality, Cardinality

\* RankBound: of the lines O, those with at least d before them are Cardinality(O) - d
\* at most.
LEMMA RankBound ==
  ASSUME NEW O \in SUBSET Int, IsFiniteSet(O), NEW d \in Nat, NEW P \in SUBSET O,
         \A l \in P : Cardinality({ m \in O : m < l }) >= d
  PROVE  /\ IsFiniteSet(P) /\ Cardinality(P) \in Nat /\ Cardinality(O) \in Nat
         /\ P # {} => Cardinality(P) <= Cardinality(O) - d
<1> DEFINE rank(l) == Cardinality({ m \in O : m < l })
           c == Cardinality(O)
           f == [l \in P |-> rank(l)]
<1>0. \A l \in O : l \in Int
  OBVIOUS
<1>1. c \in Nat /\ IsFiniteSet(P) /\ Cardinality(P) \in Nat
  BY FS_CardinalityType, FS_Subset
<1>2. ASSUME NEW l \in O
      PROVE  /\ IsFiniteSet({ m \in O : m < l }) /\ rank(l) \in Nat /\ rank(l) <= c - 1
  <2>1. { m \in O : m < l } \subseteq O \ {l}
    OBVIOUS
  <2>2. IsFiniteSet(O \ {l}) /\ Cardinality(O \ {l}) = c - 1
    BY FS_RemoveElement
  <2>3. IsFiniteSet({ m \in O : m < l }) /\ rank(l) <= c - 1
    BY <2>1, <2>2, FS_Subset
  <2> QED
    BY <2>3, FS_CardinalityType
<1>3. ASSUME NEW l \in O, NEW k \in O, l < k PROVE rank(l) < rank(k)
  <2>1. { m \in O : m < l } \cup {l} \subseteq { m \in O : m < k }
    <3>1. \A m \in O : m < l => m < k
      BY <1>0, <1>3
    <3> QED
      BY <1>3, <3>1
  <2>2. Cardinality({ m \in O : m < l } \cup {l}) = rank(l) + 1
    <3>1. l \notin { m \in O : m < l } /\ IsFiniteSet({ m \in O : m < l })
      BY <1>0, <1>2
    <3> QED
      BY <3>1, FS_AddElement
  <2>3. rank(l) + 1 <= rank(k)
    BY <1>2, <2>1, <2>2, FS_Subset
  <2> QED
    BY <1>2, <2>3
<1>4. \A l \in P : rank(l) \in d .. (c - 1)
  BY <1>1, <1>2
<1> HIDE DEF rank, c
<1>5. f \in Injection(P, d .. (c - 1))
  <2>1. f \in [P -> d .. (c - 1)]
    BY <1>4
  <2>2. ASSUME NEW l \in P, NEW k \in P, f[l] = f[k] PROVE l = k
    <3>1. rank(l) = rank(k) /\ l \in O /\ k \in O
      BY <2>2
    <3>2. rank(l) \in Nat /\ rank(k) \in Nat
      BY <1>2, <3>1
    <3>3. ~(l < k) /\ ~(k < l)
      BY <1>3, <3>1, <3>2
    <3> QED
      BY <1>0, <3>1, <3>3
  <2> QED
    BY <2>1, <2>2 DEF Injection, IsInjective
<1> HIDE DEF f
<1>6. /\ IsFiniteSet(d .. (c - 1))
      /\ Cardinality(d .. (c - 1)) = IF d > c - 1 THEN 0 ELSE (c - 1) - d + 1
  <2>1. c - 1 \in Int /\ d \in Int
    BY <1>1
  <2> QED
    BY <2>1, FS_Interval
<1>7. Cardinality(P) <= Cardinality(d .. (c - 1))
  BY <1>5, <1>6, FS_Injection
<1>8. ASSUME NEW l \in P PROVE d <= c - 1
  <2>1. rank(l) \in d .. (c - 1) /\ c - 1 \in Int
    BY <1>1, <1>4
  <2> QED
    BY <2>1
<1>9. ASSUME P # {} PROVE Cardinality(P) <= c - d
  <2>1. d <= c - 1
    BY <1>8, <1>9
  <2>2. Cardinality(d .. (c - 1)) = c - d
    BY <1>1, <1>6, <2>1
  <2> QED
    BY <1>7, <2>2
<1> QED
  BY <1>1, <1>9 DEF c

\* FilledBound: what a job sold since it started counts as filled, if all is read.
LEMMA FilledBound ==
  ASSUME NEW j \in Jobs, NEW r, NEW a, NEW S \in SUBSET Lines,
         \A l \in S : /\ AmountOf[l] = a /\ claimed[j][l] # -1
                      /\ claimed[j][l] >= r.startedAt
  PROVE  /\ Posts!Filled(r, a, Posts!Sales) \in Nat /\ IsFiniteSet(S)
         /\ Cardinality(S) \in Nat
         /\ Cardinality(S) <= Posts!Filled(r, a, Posts!Sales)
<1> DEFINE F == { jl \in Posts!Sales :
                    /\ AmountOf[jl[2]] = a
                    /\ claimed[jl[1]][jl[2]] >= r.startedAt }
           f == [l \in S |-> <<j, l>>]
<1>1. IsFiniteSet(Jobs \X Lines) /\ F \subseteq Jobs \X Lines
  BY AutoAssumption, FS_Product DEF Posts!Sales
<1>2. IsFiniteSet(F)
  BY <1>1, FS_Subset
<1>3. Posts!Filled(r, a, Posts!Sales) = Cardinality(F)
  BY SameCardinality DEF Posts!Filled
<1>4. f \in Injection(S, F)
  BY DEF Injection, IsInjective, Posts!Sales
<1> HIDE DEF F, f
<1>5. Cardinality(S) <= Cardinality(F) /\ IsFiniteSet(S)
  BY <1>2, <1>4, FS_Injection
<1> QED
  BY <1>2, <1>3, <1>5, FS_CardinalityType

\* PrunedOpen: what is left after pruning by all the sales is no more than what the
\* job did not sell.
LEMMA PrunedOpen ==
  ASSUME NEW j \in Jobs, NEW r, r.offers \in SUBSET Lines, NEW a,
         \A l \in Lines : claimed[j][l] # -1 => claimed[j][l] >= r.startedAt
  PROVE  Cardinality(Posts!OfAmount(Posts!Pruned(r, Posts!Sales), a))
           <= Cardinality(Posts!OfAmount(Posts!Unsold(j), a))
<1> DEFINE O == { m \in r.offers : AmountOf[m] = a }
           P == Posts!OfAmount(Posts!Pruned(r, Posts!Sales), a)
           U == Posts!OfAmount(Posts!Unsold(j), a)
           S == { l \in Lines : AmountOf[l] = a /\ claimed[j][l] # -1 }
           d == Posts!Filled(r, a, Posts!Sales)
<1>1. d \in Nat /\ IsFiniteSet(S) /\ Cardinality(S) \in Nat /\ Cardinality(S) <= d
  <2>1. \A l \in S : /\ AmountOf[l] = a /\ claimed[j][l] # -1
                     /\ claimed[j][l] >= r.startedAt
    OBVIOUS
  <2>2. S \in SUBSET Lines
    OBVIOUS
  <2> HIDE DEF S
  <2> QED
    BY <2>1, <2>2, FilledBound
<1>2. U \subseteq Lines /\ O \subseteq Lines /\ O \subseteq U \cup S /\ U \cap S = {}
  BY DEF Posts!OfAmount, Posts!Unsold
<1>3. /\ IsFiniteSet(U) /\ Cardinality(U) \in Nat /\ IsFiniteSet(O) /\ O \in SUBSET Int
  BY <1>2, AutoAssumption, FS_Subset, FS_CardinalityType
<1>4. Cardinality(O) <= Cardinality(U) + Cardinality(S) /\ Cardinality(O) \in Nat
  <2>1. /\ IsFiniteSet(U \cup S)
        /\ Cardinality(U \cup S) = Cardinality(U) + Cardinality(S) - Cardinality(U \cap S)
    BY <1>1, <1>3, FS_Union
  <2>2. Cardinality(U \cap S) = 0
    BY <1>2, FS_EmptySet
  <2>3. Cardinality(O) <= Cardinality(U \cup S)
    BY <1>2, <2>1, FS_Subset
  <2>4. Cardinality(O) \in Nat
    BY <1>3, FS_CardinalityType
  <2> QED
    BY <1>1, <1>3, <2>1, <2>2, <2>3, <2>4
<1>5. P \subseteq O /\ \A l \in P : Cardinality({ m \in O : m < l }) >= d
  <2>1. ASSUME NEW l \in P
        PROVE  l \in O /\ Cardinality({ m \in O : m < l }) >= d
    <3>1. /\ l \in r.offers /\ AmountOf[l] = a
          /\ Posts!Cardinality({ m \in r.offers : m < l /\ AmountOf[m] = AmountOf[l] })
               >= Posts!Filled(r, AmountOf[l], Posts!Sales)
      BY <2>1 DEF Posts!OfAmount, Posts!Pruned, Posts!Dropped
    <3>2. { m \in r.offers : m < l /\ AmountOf[m] = AmountOf[l] } = { m \in O : m < l }
      BY <3>1
    <3> QED
      BY <3>1, <3>2, SameCardinality
  <2> QED
    BY <2>1
<1> HIDE DEF O, P, U, S, d
<1>6. /\ Cardinality(P) \in Nat
      /\ P # {} => Cardinality(P) <= Cardinality(O) - d
  BY <1>1, <1>3, <1>5, RankBound
<1>7. CASE P = {}
  BY <1>3, <1>7, FS_EmptySet DEF P, U
<1>8. CASE P # {}
  <2>1. Cardinality(P) <= Cardinality(U)
    BY <1>1, <1>3, <1>4, <1>6, <1>8
  <2> QED
    BY <2>1 DEF P, U
<1> QED
  BY <1>7, <1>8

\* RunBegins: a job that begins to post has just been started, or runs from its queue.
LEMMA RunBegins ==
  ASSUME AutoInv, Posts!Next \/ UNCHANGED autoVars, NEW j \in Jobs,
         job[j].at # "posting", job'[j].at = "posting"
  PROVE  \E sold \in Posts!Reads, told \in BOOLEAN :
           Posts!StartJob(j, sold, told) \/ Posts!RunQueued(j, sold, told)
<1>1. job \in [Jobs -> JobRecord]
  BY DEF AutoInv, AutoTyped
<1>2. PICK o \in JobRecord : o = job[j]
  BY <1>1
<1>3. ASSUME NEW i \in Jobs, NEW q, job' = [job EXCEPT ![i] = q] PROVE i = j /\ job'[j] = q
  BY <1>1, <1>3
<1>4. ASSUME NEW i \in Jobs, NEW sold, NEW told,
             Posts!StartJob(i, sold, told) \/ Posts!RunQueued(i, sold, told)
      PROVE  i = j
  BY <1>3, <1>4 DEF Posts!StartJob, Posts!RunQueued
<1>5. ASSUME NEW i \in Jobs, NEW ok \in BOOLEAN, Posts!PostReturns(i, ok) PROVE FALSE
  BY <1>3, <1>5 DEF Posts!PostReturns
<1>6. ASSUME NEW i \in Jobs, Posts!PostLacksFunds(i) PROVE FALSE
  BY <1>3, <1>6 DEF Posts!PostLacksFunds
<1>7. ASSUME NEW i \in Jobs, Posts!Fire(i) PROVE FALSE
  <2> DEFINE r == [o EXCEPT !.due = clock + 1]
  <2>1. i = j
    BY <1>3, <1>7 DEF Posts!Fire
  <2>2. job'[j] = [r EXCEPT !.timer = FALSE] \/ job'[j] = [r EXCEPT !.queued = @ + 1]
    BY <1>1, <1>2, <1>7, <2>1 DEF Posts!Fire
  <2>3. job'[j].at = o.at
    BY <2>2 DEF JobRecord
  <2> QED
    BY <1>2, <2>3
<1>8. ASSUME NEW n \in Posts!TableNames, Posts!Stop(n) PROVE FALSE
  <2>1. PICK i \in Jobs : i = table[n]
    BY <1>8 DEF Posts!Stop, AutoInv, AutoTyped
  <2>2. job' = [job EXCEPT ![i].timer = FALSE]
    BY <1>8, <2>1 DEF Posts!Stop
  <2>3. i = j /\ job'[j] = [o EXCEPT !.timer = FALSE]
    BY <1>1, <1>2, <2>2
  <2> QED
    BY <1>2, <2>3 DEF JobRecord
<1>9. ~UNCHANGED job
  OBVIOUS
<1> QED
  BY <1>4, <1>5, <1>6, <1>7, <1>8, <1>9
  DEF Posts!Next, Posts!Progress, Posts!Sell, Posts!Tick, autoVars

\* MayPostStep: a post that begins announces what is open, unless its run missed more.
LEMMA MayPostStep ==
  ASSUME AutoInv, [ServicesNext]_servicesVars, NEW j \in Jobs,
         job[j].at # "posting", job'[j].at = "posting"
  PROVE  Posts!MayPost(j)
<1>1. PICK sold \in Posts!Reads, told \in BOOLEAN :
        Posts!StartJob(j, sold, told) \/ Posts!RunQueued(j, sold, told)
  BY AutoStep, RunBegins
<1>2. PICK o \in JobRecord : o = job[j] /\ JobSound(j)
  BY DEF AutoInv, AutoTyped
<1>3. clock \in 0 .. AutoHorizon /\ clock \in Int /\ job \in [Jobs -> JobRecord]
  BY SizesAssumption DEF AutoInv, AutoTyped
<1>4. CASE Posts!StartJob(j, sold, told)
  <2>1. PICK n \in Posts!TableNames : n = Posts!StartName(j)
    BY AutoAssumption DEF Posts!StartName, Posts!TableNames
  <2> DEFINE r == [Posts!New EXCEPT !.name = n, !.startedAt = clock, !.at = "idle"]
  <2>2. r \in JobRecord
    <3>1. Posts!New \in JobRecord
      BY SizesAssumption DEF JobRecord, Posts!New
    <3> QED
      BY <1>3, <3>1 DEF JobRecord
  <2>3. o.at = "new" /\ job'[j] = Posts!Ran(j, r, sold, told)
    BY <1>2, <1>3, <1>4, <2>1 DEF Posts!StartJob
  <2> HIDE DEF r
  <2>4. /\ clock < Expiry[j]
        /\ job'[j].missed \/ (j \notin OfferJobs => j \notin progressed)
    BY <1>3, <2>2, <2>3, RanFacts
  <2> QED
    BY <1>2, <2>3, <2>4 DEF Posts!MayPost, JobSound
<1>5. CASE Posts!RunQueued(j, sold, told)
  <2> DEFINE r == [o EXCEPT !.queued = @ - 1]
  <2>1. r \in JobRecord
    <3>1. o.queued - 1 \in 0 .. AutoHorizon
      BY <1>2, <1>5, SizesAssumption DEF JobRecord, Posts!RunQueued
    <3> QED
      BY <3>1 DEF JobRecord
  <2>2. r.startedAt = o.startedAt /\ r.signer = o.signer /\ r.offers = o.offers
    BY DEF JobRecord
  <2>3. job'[j] = Posts!Ran(j, r, sold, told)
    BY <1>2, <1>3, <1>5 DEF Posts!RunQueued
  <2> HIDE DEF r
  <2>4. PICK q : q = Posts!Ran(j, r, sold, told) /\ q = job'[j]
    BY <2>3
  <2>5. /\ clock < Expiry[j]
        /\ q.missed \/ (j \notin OfferJobs => j \notin progressed)
        /\ q.missed \/ (j \in OfferJobs /\ r.signer => sold = Posts!Sales)
        /\ q.offers = IF j \in OfferJobs /\ r.signer THEN Posts!Pruned(r, sold)
                      ELSE r.offers
    <3>1. q.at = "posting" /\ q = Posts!Ran(j, r, sold, told)
      BY <2>4
    <3>2. clock \in Int
      BY <1>3
    <3> QED
      BY <2>1, <3>1, <3>2, RanFacts
  <2>6. ASSUME ~q.missed, job[j].signer, NEW l \in Lines
        PROVE  Posts!Cardinality(Posts!OfAmount(job'[j].offers, AmountOf[l]))
                 <= Posts!Cardinality(Posts!OfAmount(Posts!Unsold(j), AmountOf[l]))
    <3>1. j \in OfferJobs /\ r.signer
      BY <1>2, <2>2, <2>6 DEF JobSound
    <3>2. job'[j].offers = Posts!Pruned(r, Posts!Sales)
      BY <2>4, <2>5, <2>6, <3>1
    <3>3. \A m \in Lines : claimed[j][m] # -1 => claimed[j][m] >= r.startedAt
      BY <1>2, <2>2 DEF AutoInv, SoldSince
    <3>4. r.offers \in SUBSET Lines
      BY <2>1 DEF JobRecord
    <3>5. Cardinality(Posts!OfAmount(Posts!Pruned(r, Posts!Sales), AmountOf[l]))
            <= Cardinality(Posts!OfAmount(Posts!Unsold(j), AmountOf[l]))
      BY <3>3, <3>4, PrunedOpen
    <3> QED
      BY <3>2, <3>5, SameCardinality
  <2> QED
    BY <2>4, <2>5, <2>6 DEF Posts!MayPost
<1> QED
  BY <1>1, <1>4, <1>5

\* A post that begins announces nothing that is expired, and nothing that is taken or
\* sold unless its own run failed to read a receipt of it: for any jobs, lines, amounts
\* and expiries, however runs queue up and whatever earlier runs missed
\* (autopost.js:151-260, executor.js:1438-1459).
THEOREM PostsOpen == ServicesSpec => PostsOnlyOpen
<1>1. AutoInv /\ [ServicesNext]_servicesVars
        => [\A j \in Jobs :
              job[j].at # "posting" /\ job'[j].at = "posting" => Posts!MayPost(j)]_autoVars
  BY MayPostStep
<1> QED
  BY <1>1, AutoFirst, AutoKept, PTL
  DEF ServicesSpec, PostsOnlyOpen, Posts!PostsOnlyOpen, Posts!vars, autoVars

-----------------------------------------------------------------------------
(* Together *)

\* ProcsKept: the processes keep their files, also beside the other services.
LEMMA ProcsKept ==
  ASSUME Kinds, IInv, [ServicesNext]_servicesVars
  PROVE  IInv'
<1>1. [Next]_vars
  BY DEF ServicesNext, OnlyAuto, OnlyProcs, OnlyWork, OnlyBridge, OnlyPool, OnlyGuard,
         servicesVars
<1> QED
  BY <1>1, Inductive

\* ShapesFollow: the invariants say of each component what its TypeOK says.
LEMMA ShapesFollow ==
  PoolInv /\ GuardInv /\ BridgeInv /\ AutoInv /\ WorkInv /\ IInv => ShapesKept
<1> SUFFICES ASSUME PoolInv, GuardInv, BridgeInv, AutoInv, WorkInv, IInv PROVE ShapesKept
  OBVIOUS
<1>1. TypeOK
  BY Typed
<1>2. Posts!TypeOK
  BY DEF AutoInv, AutoTyped, Posts!TypeOK, JobRecord
<1>3. Work!TypeOK
  <2>1. worker \in WorkerShape /\ ticks \in [TickIds -> {None} \cup TickShape]
    BY DEF WorkInv, MarksInv, WorkTyped, WorkerTyped, TicksTyped
  <2>2. LogTyped /\ cache \in CacheShape /\ ended \subseteq Stages
    BY DEF WorkInv, MarksInv, WorkTyped
  <2> QED
    BY <2>1, <2>2 DEF Work!TypeOK, WorkerShape, TickShape, LogTyped, CacheShape
<1>4. Bridge!TypeOK
  BY DEF BridgeInv, ClientsKnown, ClientRecord, CallsPlaced, CallRecord, MarkedCovered,
         Tools, Busy, Bridge!TypeOK
<1>5. Pool!TypeOK
  BY DEF PoolInv, PoolCall, Pool!TypeOK
<1> QED
  BY <1>1, <1>2, <1>3, <1>4, <1>5 DEF ShapesKept, GuardInv

\* The values of all the services keep their shape.
THEOREM ServicesTyped ==
  ASSUME MidConnect = FALSE, Kinds
  PROVE  ServicesSpec => []ShapesKept
<1>1. ServicesInit => PoolInv /\ GuardInv /\ BridgeInv /\ AutoInv /\ WorkInv /\ IInv
  BY PoolInvFirst, GuardInvFirst, BridgeFirst, AutoFirst, WorkInvFirst, Begins
  DEF ServicesInit
<1>2. PoolInv /\ GuardInv /\ BridgeInv /\ AutoInv /\ WorkInv /\ IInv
        /\ [ServicesNext]_servicesVars
      => (PoolInv /\ GuardInv /\ BridgeInv /\ AutoInv /\ WorkInv /\ IInv)'
  BY PoolInvKept, GuardInvKept, BridgeKept, AutoKept, WorkInvKept, ProcsKept
<1> QED
  BY <1>1, <1>2, ShapesFollow, PTL DEF ServicesSpec

\* Beside the other services, too: of the names about which no calls crossed, two
\* peers never run on one store, and the record of every running peer, or validator
\* not yet signalled, names its process.
THEOREM ProcessesKept ==
  ASSUME Kinds
  PROVE  ServicesSpec => [](OneProcessPerStore /\ RunningIsRecorded)
<1>1. ServicesInit => IInv
  BY Begins DEF ServicesInit
<1>2. IInv /\ [ServicesNext]_servicesVars => IInv'
  BY ProcsKept
<1>3. IInv => OneProcessPerStore /\ RunningIsRecorded
  BY DEF IInv, FilesInv
<1> QED
  BY <1>1, <1>2, <1>3, PTL DEF ServicesSpec
=============================================================================
