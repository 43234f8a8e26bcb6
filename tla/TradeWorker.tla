---------------------------- MODULE TradeWorker ----------------------------
(***************************************************************************)
(* The engine of the trade worker (TradeAutoManager in                     *)
(* src/src/prompt/tradeAuto.js): ticks that overlap with stop and start,   *)
(* the buffer of events with its duplicates and ages, the caches that keep *)
(* a stage from running twice, and their pruning by age.                   *)
(*                                                                         *)
(* Settlement models what the stages of a trade do; here a trade has       *)
(* stages that run while the envelope that triggers each is fresh, and may *)
(* end by a terminal envelope.  The tools are external: each call that is  *)
(* awaited returns or throws (they all have a timeout).                    *)
(***************************************************************************)
EXTENDS Integers, FiniteSets

CONSTANTS Stages,
          Trigger,      \* Trigger[s]: the envelope that makes stage s due
          Terminal,     \* a claimed, refunded or canceled envelope
          EventMaxAge,  \* event_max_age_ms
          DoneMaxAge,   \* _doneMaxAgeMs
          ReplayFor,    \* peers repeat an envelope at most this long
          RetryMax,     \* stage_retry_max
          Cooldown,     \* between two tries of a stage
          TickIds,      \* bound on the ticks alive at one time
          MaxSessions,  \* bound on the calls of start
          MaxLog,       \* bound on the entries of the log
          Horizon,      \* bound on the clock
          None

VARIABLES time,
          log,      \* the executor's log: envelopes with the time they came in
          worker,   \* running, starting, the in-flight flag, the session
          ticks,    \* the ticks that are awaiting something
          read,     \* entries read so far (_lastSeq)
          events,   \* _events
          seenAt,   \* _eventSeenAt, by the signed identity of the envelope
          cache,    \* the stage caches and _abortedTrades
          ended     \* history: stages that succeeded or an abort put an end to, this session

vars == <<time, log, worker, ticks, read, events, seenAt, cache, ended>>

Envelopes == { Trigger[s] : s \in Stages } \cup {Terminal}
Times == 0 .. Horizon

NoTimes(S) == [x \in S |-> None]

EmptyCache ==
  [done |-> NoTimes(Stages), inFlight |-> {},
   retryAt |-> [s \in Stages |-> 0], retries |-> [s \in Stages |-> 0],
   aborted |-> None]

Init ==
  /\ time = 0
  /\ log = {}
  /\ worker = [running |-> FALSE, starting |-> 0, tickInFlight |-> FALSE, session |-> 0]
  /\ ticks = NoTimes(TickIds)
  /\ read = {}
  /\ events = {}
  /\ seenAt = NoTimes(Envelopes)
  /\ cache = EmptyCache
  /\ ended = {}

\* What both start and stop clear.
Cleared ==
  /\ read' = {}
  /\ events' = {}
  /\ seenAt' = NoTimes(Envelopes)
  /\ cache' = EmptyCache
  /\ ended' = {}

Older(t, age) == t # None /\ time - t > age

-----------------------------------------------------------------------------
(* start, stop *)

\* start looks at running, clears the caches and awaits a subscribe.
Start ==
  /\ ~worker.running /\ worker.session < MaxSessions
  /\ worker' = [worker EXCEPT !.starting = @ + 1, !.session = @ + 1]
  /\ Cleared
  /\ UNCHANGED <<time, log, ticks>>

\* The subscribe returned; had it thrown, the worker would not run.
StartReturns(ok) ==
  /\ worker.starting > 0
  /\ worker' = [worker EXCEPT !.starting = @ - 1, !.running = @ \/ ok]
  /\ UNCHANGED <<time, log, ticks, read, events, seenAt, cache, ended>>

\* stop neither waits for a tick in flight nor for a start.
Stop ==
  /\ worker.running
  /\ worker' = [worker EXCEPT !.running = FALSE, !.tickInFlight = FALSE]
  /\ Cleared
  /\ UNCHANGED <<time, log, ticks>>

-----------------------------------------------------------------------------
(* _tick *)

NoTick == \A k \in TickIds : ticks[k] = None

FreeTick == CHOOSE k \in TickIds : ticks[k] = None

\* alone is history: no tick that outlived a stop was there with this one.
TickBegins(k) ==
  /\ worker.running /\ ~worker.tickInFlight
  /\ ticks[k] = None /\ k = FreeTick
  /\ worker' = [worker EXCEPT !.tickInFlight = TRUE]
  /\ ticks' = [j \in TickIds |->
                 IF j = k THEN [at |-> "keepalive", session |-> worker.session,
                                due |-> {}, stage |-> None, alone |-> NoTick]
                 ELSE IF ticks[j] = None THEN None ELSE [ticks[j] EXCEPT !.alone = FALSE]]
  /\ UNCHANGED <<time, log, read, events, seenAt, cache, ended>>

\* _appendEvents keeps an envelope it has not seen within _doneMaxAgeMs.
IsNew(e) == seenAt[e.env] = None \/ Older(seenAt[e.env], DoneMaxAge)

\* The earliest of the unread copies is the one that is kept.
Kept ==
  { e \in log \ read : IsNew(e) /\ \A f \in log \ read : f.env = e.env => e.at <= f.at }

\* The keepalive is over: the log is read, sc_info is awaited.
ReadLog(k) ==
  /\ ticks[k] # None /\ ticks[k].at = "keepalive"
  /\ read' = log
  /\ events' = events \cup Kept
  /\ seenAt' = [v \in Envelopes |->
                  IF \E e \in Kept : e.env = v THEN time ELSE seenAt[v]]
  /\ ticks' = [ticks EXCEPT ![k].at = "info"]
  /\ UNCHANGED <<time, log, worker, cache, ended>>

Active == { e.env : e \in { f \in events : ~Older(f.at, EventMaxAge) } }

Lasts(t) == ~Older(t, DoneMaxAge)

\* _pruneTradeCachesById for a trade with a terminal event, then by age.
Pruned(c) ==
  IF Terminal \in Active THEN EmptyCache
  ELSE [c EXCEPT !.done = [s \in Stages |-> IF Lasts(c.done[s]) THEN c.done[s] ELSE None],
                 !.aborted = IF Lasts(@) THEN @ ELSE None]

\* sc_info is over: the contexts are built from what is fresh, caches pruned;
\* other trades and the hygiene come first.
BuildContexts(k) ==
  /\ ticks[k] # None /\ ticks[k].at = "info"
  /\ cache' = Pruned(cache)
  /\ seenAt' = [v \in Envelopes |-> IF Older(seenAt[v], DoneMaxAge) THEN None ELSE seenAt[v]]
  /\ ticks' = [ticks EXCEPT ![k].at = "stages",
                 ![k].due = IF Terminal \in Active THEN {}
                            ELSE { s \in Stages : Trigger[s] \in Active }]
  /\ UNCHANGED <<time, log, worker, read, events, ended>>

\* Mutant: what is done shows in the events, so _stageDone is not asked.
CanRunAgain(s) == s \notin cache.inFlight /\ time >= cache.retryAt[s]

CanRunStage(s) ==
  /\ cache.done[s] = None
  /\ s \notin cache.inFlight
  /\ time >= cache.retryAt[s]

\* The stage of the trade that is due; one per trade and tick.
RunStage(k, s) ==
  /\ ticks[k] # None /\ ticks[k].at = "stages" /\ s \in ticks[k].due
  /\ cache.aborted = None
  /\ CanRunStage(s)
  /\ cache' = [cache EXCEPT !.inFlight = @ \cup {s}]
  /\ ticks' = [ticks EXCEPT ![k].at = "call", ![k].stage = s, ![k].due = {}]
  /\ UNCHANGED <<time, log, worker, read, events, seenAt, ended>>

Finished(c, s) ==
  [c EXCEPT !.inFlight = @ \ {s}, !.retryAt[s] = 0, !.retries[s] = 0, !.done[s] = time]

\* The tick goes on: the leave of an abort, other trades.
Over(k) == [ticks EXCEPT ![k].at = "over", ![k].stage = None]

\* History: the stages that ended in the session the tick belongs to.
Ends(k, stages) ==
  ended' = IF ticks[k].session = worker.session THEN ended \cup stages ELSE ended

\* _markStageSuccess
StageSucceeds(k) ==
  /\ ticks[k] # None /\ ticks[k].at = "call"
  /\ cache' = Finished(cache, ticks[k].stage)
  /\ ticks' = Over(k)
  /\ Ends(k, {ticks[k].stage})
  /\ UNCHANGED <<time, log, worker, read, events, seenAt>>

\* Mutant: the mark of a stage that failed for good is left behind.
GivesUpMarked(s) ==
  [cache EXCEPT !.done[s] = time, !.aborted = IF @ = None THEN time ELSE @]

\* _markStageTerminal and _abortTrade
GivesUp(s) ==
  [Finished(cache, s) EXCEPT !.aborted = IF @ = None THEN time ELSE @]

\* History: the stages whose envelope has come in, and not after a terminal one.
Reached ==
  { s \in Stages : \E e \in log :
      e.env = Trigger[s] /\ \A f \in log : f.env = Terminal => e.at <= f.at }

\* _stageRetryOrAbort; the cancel and the leave of an abort are awaited next.
StageFails(k) ==
  LET s == ticks[k].stage
      n == cache.retries[s] + 1
  IN  /\ ticks[k] # None /\ ticks[k].at = "call"
      /\ ticks' = Over(k)
      /\ \/ /\ n <= RetryMax
            /\ cache' = [cache EXCEPT !.inFlight = @ \ {s}, !.retries[s] = n,
                                      !.retryAt[s] = time + Cooldown]
            /\ UNCHANGED ended
         \/ /\ n > RetryMax
            /\ cache' = GivesUp(s)
            /\ Ends(k, {s} \cup (IF cache.aborted = None THEN Reached ELSE {}))
      /\ UNCHANGED <<time, log, worker, read, events, seenAt>>

\* Mutant: a tick whose trade was aborted returns without the finally.
TickEndsNormally(k) ==
  /\ ticks[k] # None /\ ticks[k].at \in {"stages", "over"}
  /\ ticks' = [ticks EXCEPT ![k] = None]
  /\ worker' = [worker EXCEPT !.tickInFlight = @ /\ cache.aborted # None]
  /\ UNCHANGED <<time, log, read, events, seenAt, cache, ended>>

\* The finally clears the flag, also of a tick of another session.
TickEnds(k) ==
  /\ ticks[k] # None /\ ticks[k].at \in {"stages", "over"}
  /\ ticks' = [ticks EXCEPT ![k] = None]
  /\ worker' = [worker EXCEPT !.tickInFlight = FALSE]
  /\ UNCHANGED <<time, log, read, events, seenAt, cache, ended>>

-----------------------------------------------------------------------------
(* The environment *)

\* An envelope comes in for the first time or again.
Receive(v) ==
  /\ Cardinality(log) < MaxLog
  /\ \A e \in log : e.env = v => e.at < time /\ time - e.at <= ReplayFor
  /\ log' = log \cup {[env |-> v, at |-> time]}
  /\ UNCHANGED <<time, worker, ticks, read, events, seenAt, cache, ended>>

Tock ==
  /\ time < Horizon
  /\ time' = time + 1
  /\ UNCHANGED <<log, worker, ticks, read, events, seenAt, cache, ended>>

TickStep(k) ==
  \/ ReadLog(k)
  \/ BuildContexts(k)
  \/ \E s \in Stages : RunStage(k, s)
  \/ StageSucceeds(k)
  \/ StageFails(k)
  \/ TickEnds(k)

Next ==
  \/ Start
  \/ \E ok \in BOOLEAN : StartReturns(ok)
  \/ Stop
  \/ \E k \in TickIds : TickBegins(k) \/ TickStep(k)
  \/ \E v \in Envelopes : Receive(v)
  \/ Tock

\* Every call a tick awaits has a timeout.
Fairness == \A k \in TickIds : WF_vars(TickStep(k))

Spec == Init /\ [][Next]_vars /\ Fairness

-----------------------------------------------------------------------------
MaybeTime == Times \cup {None}

TypeOK ==
  /\ time \in Times
  /\ log \subseteq [env : Envelopes, at : Times]
  /\ worker \in [running : BOOLEAN, starting : 0 .. MaxSessions,
                 tickInFlight : BOOLEAN, session : 0 .. MaxSessions]
  /\ ticks \in [TickIds -> {None} \cup
        [at : {"keepalive", "info", "stages", "call", "over"},
         session : 1 .. MaxSessions, due : SUBSET Stages,
         stage : Stages \cup {None}, alone : BOOLEAN]]
  /\ read \subseteq log
  /\ events \subseteq log
  /\ seenAt \in [Envelopes -> MaybeTime]
  /\ cache \in [done : [Stages -> MaybeTime], inFlight : SUBSET Stages,
                retryAt : [Stages -> 0 .. (Horizon + Cooldown)],
                retries : [Stages -> 0 .. RetryMax], aborted : MaybeTime]
  /\ ended \subseteq Stages

\* A tick of the running session that has the worker to itself calls stage s.
Begins(k, s) ==
  /\ ticks[k] # None /\ ticks[k].at # "call" /\ ticks[k].session = worker.session
  /\ worker.running /\ ticks[k].alone
  /\ ticks'[k] # None /\ ticks'[k].at = "call" /\ ticks'[k].stage = s

\* While the worker runs, a stage that succeeded is not run again, nor, once its
\* trade was aborted, one whose envelope had come in by then, however envelopes
\* repeat, go stale and are pruned with the caches (tradeAuto.js:965-1066), and
\* whatever ticks that outlived a stop have done before (tradeAuto.js:717-746);
\* only while such a tick is there may a stage run twice.
StagesRunOnce ==
  [][\A k \in TickIds, s \in Stages : Begins(k, s) => s \notin ended]_vars

\* A stage marked in flight is awaited by some tick: no path leaves a mark
\* behind, which would keep the stage from ever running again.
MarksBacked ==
  \A s \in cache.inFlight :
    \E k \in TickIds : ticks[k] # None /\ ticks[k].at = "call" /\ ticks[k].stage = s

\* The flag that keeps ticks apart is always given back.
FlagReleased == worker.tickInFlight ~> ~worker.tickInFlight
=============================================================================
