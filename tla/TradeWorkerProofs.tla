------------------------- MODULE TradeWorkerProofs -------------------------
(***************************************************************************)
(* The trade worker, for any stages, envelopes, ticks, sessions and times: *)
(* no mark is left behind (MarksBacked), and no stage that ended runs      *)
(* again in a tick that has the worker to itself (StagesRunOnce).          *)
(*                                                                         *)
(* The argument for the second.  The caches forget: a stage that is done,  *)
(* and an abort, are pruned by age, and all of a trade goes with a         *)
(* terminal envelope.  So the invariant says of every stage that ended     *)
(* that a cache holds it (Held) or that it is past running (Past): its     *)
(* envelope is stale, or a terminal one came in with it or later.  That is *)
(* enough because of what the buffer of events promises (EventsKept): it   *)
(* has the first copy of whatever was read, and takes a later copy only    *)
(* once that is stale too, since what was seen is remembered for longer    *)
(* than an envelope repeats and stays fresh (AgesAssumption).  So a stage  *)
(* is due only while the first copy of its envelope is fresh and no        *)
(* terminal one came before it (Good), and pruning leaves it past.         *)
(***************************************************************************)
EXTENDS Services, TLAPS

\* The shapes of a tick, of the caches and of the flags.
TickShape ==
  [at : {"keepalive", "info", "stages", "call", "over"}, session : 1 .. MaxSessions,
   due : SUBSET Stages, stage : Stages \cup {None}, alone : BOOLEAN]

CacheShape ==
  [done : [Stages -> Work!MaybeTime], inFlight : SUBSET Stages,
   retryAt : [Stages -> 0 .. (WorkHorizon + StageCooldown)],
   retries : [Stages -> 0 .. RetryMax], aborted : Work!MaybeTime]

WorkerShape ==
  [running : BOOLEAN, starting : 0 .. MaxSessions, tickInFlight : BOOLEAN,
   session : 0 .. MaxSessions]

\* Every start that is under way has a session, and so has every tick.
WorkerTyped ==
  /\ worker \in WorkerShape
  /\ worker.starting <= worker.session
  /\ worker.running => worker.session >= 1

\* A tick that awaits a call knows whose call it is.
TicksTyped ==
  /\ ticks \in [TickIds -> {None} \cup TickShape]
  /\ \A k \in TickIds : ticks[k] # None /\ ticks[k].at = "call" => ticks[k].stage \in Stages

\* The log, what was read of it, and what is kept of that.
LogTyped ==
  /\ time \in Work!Times
  /\ log \subseteq [env : Work!Envelopes, at : Work!Times]
  /\ read \subseteq log /\ events \subseteq read
  /\ seenAt \in [Work!Envelopes -> Work!MaybeTime]

WorkTyped ==
  WorkerTyped /\ TicksTyped /\ LogTyped /\ cache \in CacheShape /\ ended \subseteq Stages

MarksInv == WorkTyped /\ MarksBacked

\* ClearedTyped: a start and a stop leave the caches empty.
LEMMA ClearedTyped ==
  ASSUME LogTyped, Work!Cleared, UNCHANGED <<time, log>>
  PROVE  LogTyped' /\ cache' \in CacheShape /\ cache'.inFlight = {} /\ ended' \subseteq Stages
<1>1. Work!EmptyCache \in CacheShape /\ Work!EmptyCache.inFlight = {}
  BY SizesAssumption
  DEF Work!EmptyCache, CacheShape, Work!NoTimes, Work!MaybeTime, Work!Times
<1>2. Work!NoTimes(Work!Envelopes) \in [Work!Envelopes -> Work!MaybeTime]
  BY DEF Work!NoTimes, Work!MaybeTime
<1> QED
  BY <1>1, <1>2 DEF Work!Cleared, LogTyped

\* WorkFirst: nothing runs at first.
LEMMA WorkFirst == ServicesInit => MarksInv
<1> SUFFICES ASSUME Work!Init PROVE MarksInv
  BY DEF ServicesInit
<1>1. Work!EmptyCache \in CacheShape /\ Work!EmptyCache.inFlight = {}
  BY SizesAssumption
  DEF Work!EmptyCache, CacheShape, Work!NoTimes, Work!MaybeTime, Work!Times
<1>2. WorkerTyped
  BY SizesAssumption DEF Work!Init, WorkerTyped, WorkerShape
<1>3. TicksTyped
  BY DEF Work!Init, TicksTyped, Work!NoTimes
<1>4. LogTyped
  BY SizesAssumption DEF Work!Init, LogTyped, Work!NoTimes, Work!MaybeTime, Work!Times
<1> QED
  BY <1>1, <1>2, <1>3, <1>4
  DEF Work!Init, MarksInv, WorkTyped, MarksBacked, Work!MarksBacked

\* TickOn: a tick that is there is a record, and goes on as one.
LEMMA TickOn ==
  ASSUME TicksTyped, NEW k \in TickIds, ticks[k] # None,
         NEW r \in TickShape, r.at = "call" => r.stage \in Stages,
         ticks' = [ticks EXCEPT ![k] = r]
  PROVE  TicksTyped'
BY DEF TicksTyped

\* BackedElsewhere: the marks stay backed when a tick that ends its call takes its
\* own mark away.
LEMMA BackedElsewhere ==
  ASSUME TicksTyped, MarksBacked, NEW k \in TickIds,
         \A j \in TickIds \ {k} : ticks'[j] = ticks[j],
         cache'.inFlight \subseteq cache.inFlight,
         ticks[k] # None /\ ticks[k].at = "call" => ticks[k].stage \notin cache'.inFlight
  PROVE  MarksBacked'
<1> SUFFICES ASSUME NEW s \in cache'.inFlight
             PROVE  \E j \in TickIds :
                      /\ ticks'[j] # None /\ ticks'[j].at = "call" /\ ticks'[j].stage = s
  BY DEF MarksBacked, Work!MarksBacked
<1>1. PICK j \in TickIds : ticks[j] # None /\ ticks[j].at = "call" /\ ticks[j].stage = s
  BY DEF MarksBacked, Work!MarksBacked
<1>2. j # k
  BY <1>1
<1> QED
  BY <1>1, <1>2

\* FinishedTyped: what is done gets the time, and loses its mark.
LEMMA FinishedTyped ==
  ASSUME LogTyped, NEW c \in CacheShape, NEW s \in Stages
  PROVE  /\ Work!Finished(c, s) \in CacheShape
         /\ Work!Finished(c, s).inFlight = c.inFlight \ {s}
         /\ Work!Finished(c, s).aborted = c.aborted
         /\ Work!Finished(c, s).done = [c.done EXCEPT ![s] = time]
<1>1. time \in Work!MaybeTime /\ 0 \in 0 .. (WorkHorizon + StageCooldown) /\ 0 \in 0 .. RetryMax
  BY SizesAssumption DEF LogTyped, Work!MaybeTime
<1>2. /\ [c.done EXCEPT ![s] = time] \in [Stages -> Work!MaybeTime]
      /\ [c.retryAt EXCEPT ![s] = 0] \in [Stages -> 0 .. (WorkHorizon + StageCooldown)]
      /\ [c.retries EXCEPT ![s] = 0] \in [Stages -> 0 .. RetryMax]
  BY <1>1 DEF CacheShape
<1>3. /\ Work!Finished(c, s).done = [c.done EXCEPT ![s] = time]
      /\ Work!Finished(c, s).retryAt = [c.retryAt EXCEPT ![s] = 0]
  BY DEF Work!Finished, CacheShape
<1>4. /\ Work!Finished(c, s).retries = [c.retries EXCEPT ![s] = 0]
      /\ Work!Finished(c, s).inFlight = c.inFlight \ {s}
  BY DEF Work!Finished, CacheShape
<1>5. Work!Finished(c, s).aborted = c.aborted
  BY DEF Work!Finished, CacheShape
<1>6. Work!Finished(c, s) \in CacheShape
  BY <1>2 DEF Work!Finished, CacheShape
<1> QED
  BY <1>3, <1>4, <1>5, <1>6

\* FailsTyped: a stage that fails waits for another try, or is done with.
LEMMA FailsTyped ==
  ASSUME WorkTyped, NEW k \in TickIds, Work!StageFails(k)
  PROVE  /\ ticks[k].stage \in Stages
         /\ cache' \in CacheShape
         /\ cache'.inFlight = cache.inFlight \ {ticks[k].stage}
<1>1. PICK s \in Stages : s = ticks[k].stage
  BY DEF Work!StageFails, WorkTyped, TicksTyped
<1> DEFINE n == cache.retries[s] + 1
<1>2. CASE /\ n <= RetryMax
           /\ cache' = [cache EXCEPT !.inFlight = @ \ {s}, !.retries[s] = n,
                                     !.retryAt[s] = time + StageCooldown]
  <2>1. n \in 0 .. RetryMax /\ time + StageCooldown \in 0 .. (WorkHorizon + StageCooldown)
    BY <1>1, <1>2, SizesAssumption DEF WorkTyped, LogTyped, Work!Times, CacheShape
  <2>2. /\ [cache.retries EXCEPT ![s] = n] \in [Stages -> 0 .. RetryMax]
        /\ [cache.retryAt EXCEPT ![s] = time + StageCooldown]
             \in [Stages -> 0 .. (WorkHorizon + StageCooldown)]
    BY <1>1, <2>1 DEF WorkTyped, CacheShape
  <2>3. cache' =
          [done |-> cache.done, inFlight |-> cache.inFlight \ {s},
           retryAt |-> [cache.retryAt EXCEPT ![s] = time + StageCooldown],
           retries |-> [cache.retries EXCEPT ![s] = n], aborted |-> cache.aborted]
    BY <1>2 DEF WorkTyped, CacheShape
  <2> QED
    BY <1>1, <2>2, <2>3 DEF WorkTyped, CacheShape
<1>3. CASE cache' = Work!GivesUp(s)
  <2>1. PICK c \in CacheShape : c = Work!Finished(cache, s)
                                /\ c.inFlight = cache.inFlight \ {s}
    <3>1. LogTyped /\ cache \in CacheShape
      BY DEF WorkTyped
    <3>2. /\ Work!Finished(cache, s) \in CacheShape
          /\ Work!Finished(cache, s).inFlight = cache.inFlight \ {s}
      BY <3>1, FinishedTyped
    <3> QED
      BY <3>2
  <2>2. cache' = [c EXCEPT !.aborted = IF @ = None THEN time ELSE @]
    BY <1>3, <2>1 DEF Work!GivesUp
  <2> QED
    BY <1>1, <2>1, <2>2 DEF CacheShape, WorkTyped, LogTyped, Work!MaybeTime
<1> QED
  <2>1. \/ /\ n <= RetryMax
           /\ cache' = [cache EXCEPT !.inFlight = @ \ {s}, !.retries[s] = n,
                                     !.retryAt[s] = time + StageCooldown]
        \/ cache' = Work!GivesUp(s)
    BY <1>1 DEF Work!StageFails
  <2> QED
    BY <1>1, <1>2, <1>3, <2>1

\* PrunedTyped: pruning forgets what is done and leaves the marks, or all goes.
LEMMA PrunedTyped ==
  ASSUME cache \in CacheShape
  PROVE  /\ Work!Pruned(cache) \in CacheShape
         /\ Work!Pruned(cache).inFlight \subseteq cache.inFlight
<1>1. CASE Terminal \in Work!Active
  BY <1>1, SizesAssumption
  DEF Work!Pruned, Work!EmptyCache, CacheShape, Work!NoTimes, Work!MaybeTime, Work!Times
<1>2. CASE Terminal \notin Work!Active
  BY <1>2 DEF Work!Pruned, CacheShape, Work!MaybeTime
<1> QED
  BY <1>1, <1>2

\* WorkStep: a step of the services is one of the worker, or leaves it alone.
LEMMA WorkStep ==
  ASSUME [ServicesNext]_servicesVars
  PROVE  Work!Next \/ UNCHANGED workVars
BY DEF ServicesNext, OnlyAuto, OnlyProcs, OnlyWork, OnlyBridge, OnlyPool, OnlyGuard,
       servicesVars

\* SessionKeeps: starts and stops clear the caches, whatever tick goes on.
LEMMA SessionKeeps ==
  ASSUME MarksInv,
         \/ Work!Start \/ Work!Stop \/ \E ok \in BOOLEAN : Work!StartReturns(ok)
  PROVE  MarksInv'
<1> USE DEF MarksInv, WorkTyped
<1>1. CASE Work!Start
  <2>1. WorkerTyped'
    <3>1. /\ worker \in WorkerShape /\ ~worker.running /\ worker.session < MaxSessions
          /\ worker.starting <= worker.session
          /\ worker' = [worker EXCEPT !.starting = @ + 1, !.session = @ + 1]
      BY <1>1 DEF Work!Start, WorkerTyped
    <3>2. worker.starting + 1 \in 0 .. MaxSessions /\ worker.session + 1 \in 0 .. MaxSessions
      BY <3>1, SizesAssumption DEF WorkerShape
    <3>3. worker'.starting = worker.starting + 1 /\ worker'.session = worker.session + 1
      BY <3>1 DEF WorkerShape
    <3>4. worker' \in WorkerShape
      BY <3>1, <3>2 DEF WorkerShape
    <3> QED
      BY <3>1, <3>3, <3>4 DEF WorkerTyped, WorkerShape
  <2>2. TicksTyped'
    BY <1>1 DEF Work!Start, TicksTyped
  <2> QED
    BY <1>1, <2>1, <2>2, ClearedTyped DEF Work!Start, MarksBacked, Work!MarksBacked
<1>2. CASE Work!Stop
  <2>1. WorkerTyped'
    BY <1>2 DEF Work!Stop, WorkerTyped, WorkerShape
  <2>2. TicksTyped'
    BY <1>2 DEF Work!Stop, TicksTyped
  <2> QED
    BY <1>2, <2>1, <2>2, ClearedTyped DEF Work!Stop, MarksBacked, Work!MarksBacked
<1>3. ASSUME NEW ok \in BOOLEAN, Work!StartReturns(ok) PROVE MarksInv'
  <2>1. /\ worker.starting > 0
        /\ worker' = [worker EXCEPT !.starting = @ - 1, !.running = @ \/ ok]
        /\ UNCHANGED <<time, log, ticks, read, events, seenAt, cache, ended>>
    BY <1>3 DEF Work!StartReturns
  <2>2. worker.session >= 1 /\ worker \in WorkerShape
    BY <2>1 DEF WorkerTyped, WorkerShape
  <2>3. /\ worker' \in WorkerShape
        /\ worker'.starting = worker.starting - 1 /\ worker'.session = worker.session
    <3>1. worker.starting - 1 \in 0 .. MaxSessions
      BY <2>1, <2>2, SizesAssumption DEF WorkerShape
    <3>2. (worker.running \/ ok) \in BOOLEAN
      OBVIOUS
    <3> QED
      BY <2>1, <2>2, <3>1, <3>2 DEF WorkerShape
  <2>4. WorkerTyped'
    BY <2>2, <2>3 DEF WorkerTyped, WorkerShape
  <2> QED
    BY <2>1, <2>4 DEF TicksTyped, LogTyped, MarksBacked, Work!MarksBacked
<1> QED
  BY <1>1, <1>2, <1>3

\* TickKeeps: what a tick does keeps the marks of the others.
LEMMA TickKeeps ==
  ASSUME MarksInv, NEW k \in TickIds, Work!TickBegins(k) \/ Work!TickStep(k)
  PROVE  MarksInv'
<1> USE DEF MarksInv, WorkTyped
<1>1. CASE Work!TickBegins(k)
  <2>1. /\ worker.running /\ ticks[k] = None
        /\ worker' = [worker EXCEPT !.tickInFlight = TRUE]
        /\ ticks' = [j \in TickIds |->
             IF j = k THEN [at |-> "keepalive", session |-> worker.session,
                            due |-> {}, stage |-> None, alone |-> Work!NoTick]
             ELSE IF ticks[j] = None THEN None ELSE [ticks[j] EXCEPT !.alone = FALSE]]
        /\ UNCHANGED <<time, log, read, events, seenAt, cache, ended>>
    BY <1>1 DEF Work!TickBegins
  <2>2. WorkerTyped' /\ worker.session \in 1 .. MaxSessions
    <3>1. /\ worker' \in WorkerShape /\ worker'.starting = worker.starting
          /\ worker'.session = worker.session /\ worker.session \in 0 .. MaxSessions
      BY <2>1 DEF WorkerTyped, WorkerShape
    <3> QED
      BY <2>1, <3>1, SizesAssumption DEF WorkerTyped
  <2>3. ASSUME NEW j \in TickIds \ {k}
        PROVE  /\ ticks'[j] \in {None} \cup TickShape
               /\ ticks[j] # None =>
                    /\ ticks'[j] # None
                    /\ ticks'[j].at = ticks[j].at /\ ticks'[j].stage = ticks[j].stage
               /\ ticks'[j] # None => ticks[j] # None
    <3>1. CASE ticks[j] = None
      BY <2>1, <3>1
    <3>2. CASE ticks[j] # None
      <4>1. ticks[j] \in TickShape /\ ticks'[j] = [ticks[j] EXCEPT !.alone = FALSE]
        BY <2>1, <3>2 DEF TicksTyped
      <4>2. /\ ticks'[j] \in TickShape
            /\ ticks'[j].at = ticks[j].at /\ ticks'[j].stage = ticks[j].stage
        BY <4>1 DEF TickShape
      <4> QED
        BY <3>2, <4>2, NoneAssumption DEF TickShape
    <3> QED
      BY <3>1, <3>2
  <2>4. ticks'[k] \in TickShape /\ ticks'[k].at = "keepalive"
    BY <2>1, <2>2 DEF TickShape, Work!NoTick
  <2>5. TicksTyped'
    <3>1. ticks' \in [TickIds -> {None} \cup TickShape]
      BY <2>1, <2>3, <2>4
    <3> QED
      BY <2>3, <2>4, <3>1 DEF TicksTyped
  <2>6. MarksBacked'
    <3> SUFFICES ASSUME NEW s \in cache.inFlight
                 PROVE  \E j \in TickIds : /\ ticks'[j] # None
                                           /\ ticks'[j].at = "call" /\ ticks'[j].stage = s
      BY <2>1 DEF MarksBacked, Work!MarksBacked
    <3>1. PICK j \in TickIds : ticks[j] # None /\ ticks[j].at = "call" /\ ticks[j].stage = s
      BY DEF MarksBacked, Work!MarksBacked
    <3> QED
      BY <2>1, <2>3, <3>1
  <2> QED
    BY <2>1, <2>2, <2>5, <2>6 DEF LogTyped
<1>2. CASE Work!ReadLog(k)
  <2>1. /\ ticks[k] # None /\ ticks[k].at = "keepalive"
        /\ ticks' = [ticks EXCEPT ![k].at = "info"]
        /\ read' = log /\ events' = events \cup Work!Kept
        /\ UNCHANGED <<time, log, worker, cache, ended>>
    BY <1>2 DEF Work!ReadLog
  <2>2. LogTyped'
    <3>1. seenAt' \in [Work!Envelopes -> Work!MaybeTime]
      BY <1>2 DEF Work!ReadLog, LogTyped, Work!MaybeTime
    <3>2. Work!Kept \subseteq log
      BY DEF Work!Kept
    <3> QED
      BY <2>1, <3>1, <3>2 DEF LogTyped
  <2>3. PICK r \in TickShape : r = [ticks[k] EXCEPT !.at = "info"] /\ r.at = "info"
    BY <2>1 DEF TicksTyped, TickShape
  <2>4. ticks' = [ticks EXCEPT ![k] = r]
    BY <2>1, <2>3
  <2>5. TicksTyped'
    BY <2>1, <2>3, <2>4, TickOn
  <2>6. MarksBacked'
    BY <2>1, BackedElsewhere
  <2> QED
    BY <2>1, <2>2, <2>5, <2>6 DEF WorkerTyped
<1>3. CASE Work!BuildContexts(k)
  <2> DEFINE D == IF Terminal \in Work!Active THEN {}
                  ELSE { s \in Stages : Trigger[s] \in Work!Active }
  <2>1. /\ ticks[k] # None /\ ticks[k].at = "info"
        /\ ticks' = [ticks EXCEPT ![k].at = "stages", ![k].due = D]
        /\ cache' = Work!Pruned(cache)
        /\ UNCHANGED <<time, log, worker, read, events, ended>>
    BY <1>3 DEF Work!BuildContexts
  <2>2. LogTyped'
    <3>1. seenAt' \in [Work!Envelopes -> Work!MaybeTime]
      BY <1>3 DEF Work!BuildContexts, LogTyped, Work!MaybeTime
    <3> QED
      BY <2>1, <3>1 DEF LogTyped
  <2>0. PICK t \in TickShape : t = ticks[k]
    BY <2>1 DEF TicksTyped
  <2>7. D \in SUBSET Stages
    OBVIOUS
  <2> HIDE DEF D
  <2> DEFINE r == [t EXCEPT !.at = "stages", !.due = D]
  <2>3. r \in TickShape /\ r.at = "stages"
    BY <2>7 DEF TickShape
  <2>4. ticks' = [ticks EXCEPT ![k] = r]
    BY <2>0, <2>1 DEF TicksTyped
  <2> HIDE DEF r
  <2>5. TicksTyped'
    BY <2>1, <2>3, <2>4, TickOn
  <2>6. MarksBacked'
    <3>1. \A j \in TickIds \ {k} : ticks'[j] = ticks[j]
      BY <2>4 DEF TicksTyped
    <3>2. cache'.inFlight \subseteq cache.inFlight
      BY <2>1, PrunedTyped
    <3> QED
      BY <2>1, <3>1, <3>2, BackedElsewhere
  <2> QED
    BY <2>1, <2>2, <2>5, <2>6, PrunedTyped DEF WorkerTyped
<1>4. ASSUME NEW s \in Stages, Work!RunStage(k, s) PROVE MarksInv'
  <2>1. /\ ticks[k] # None /\ ticks[k].at = "stages"
        /\ ticks' = [ticks EXCEPT ![k].at = "call", ![k].stage = s, ![k].due = {}]
        /\ cache' = [cache EXCEPT !.inFlight = @ \cup {s}]
        /\ UNCHANGED <<time, log, worker, read, events, seenAt, ended>>
    BY <1>4 DEF Work!RunStage
  <2>0. PICK t \in TickShape : t = ticks[k]
    BY <2>1 DEF TicksTyped
  <2> DEFINE r == [t EXCEPT !.at = "call", !.stage = s, !.due = {}]
  <2>2. r \in TickShape /\ r.at = "call" /\ r.stage = s
    <3>1. r.at = "call"
      BY DEF TickShape
    <3>2. r.stage = s
      BY DEF TickShape
    <3> QED
      BY <3>1, <3>2 DEF TickShape
  <2>3. ticks' = [ticks EXCEPT ![k] = r]
    BY <2>0, <2>1 DEF TicksTyped
  <2> HIDE DEF r
  <2>7. r # None
    BY <2>2, NoneAssumption DEF TickShape
  <2>4. TicksTyped'
    BY <2>1, <2>2, <2>3, TickOn
  <2>5. cache' \in CacheShape /\ cache'.inFlight = cache.inFlight \cup {s}
    BY <2>1 DEF CacheShape
  <2>6. MarksBacked'
    <3>1. ticks'[k] = r /\ \A j \in TickIds \ {k} : ticks'[j] = ticks[j]
      BY <2>3 DEF TicksTyped
    <3>2. \A x \in cache.inFlight : \E j \in TickIds \ {k} :
            ticks[j] # None /\ ticks[j].at = "call" /\ ticks[j].stage = x
      BY <2>1 DEF MarksBacked, Work!MarksBacked
    <3> QED
      BY <2>2, <2>7, <2>5, <3>1, <3>2 DEF MarksBacked, Work!MarksBacked
  <2> QED
    BY <2>1, <2>4, <2>5, <2>6 DEF WorkerTyped, LogTyped
<1>5. CASE Work!StageSucceeds(k) \/ Work!StageFails(k)
  <2>1. /\ ticks[k] # None /\ ticks[k].at = "call" /\ ticks' = Work!Over(k)
        /\ UNCHANGED <<time, log, worker, read, events, seenAt>>
    BY <1>5 DEF Work!StageSucceeds, Work!StageFails
  <2>2. /\ ticks[k].stage \in Stages /\ cache' \in CacheShape
        /\ cache'.inFlight = cache.inFlight \ {ticks[k].stage}
    <3>1. CASE Work!StageSucceeds(k)
      <4>1. ticks[k].stage \in Stages /\ cache' = Work!Finished(cache, ticks[k].stage)
        BY <2>1, <3>1 DEF Work!StageSucceeds, TicksTyped
      <4> QED
        BY <4>1, FinishedTyped
    <3>2. CASE Work!StageFails(k)
      BY <3>2, FailsTyped
    <3> QED
      BY <1>5, <3>1, <3>2
  <2>0. PICK t \in TickShape : t = ticks[k]
    BY <2>1 DEF TicksTyped
  <2> DEFINE r == [t EXCEPT !.at = "over", !.stage = None]
  <2>3. r \in TickShape /\ r.at = "over"
    BY DEF TickShape
  <2>4. ticks' = [ticks EXCEPT ![k] = r]
    BY <2>0, <2>1 DEF Work!Over, TicksTyped
  <2> HIDE DEF r
  <2>5. TicksTyped'
    BY <2>1, <2>3, <2>4, TickOn
  <2>6. MarksBacked'
    BY <2>1, <2>2, <2>4, BackedElsewhere
  <2>7. ended' \subseteq Stages
    BY <1>5, <2>2 DEF Work!StageSucceeds, Work!StageFails, Work!Ends, Work!Reached
  <2> QED
    BY <2>1, <2>2, <2>5, <2>6, <2>7 DEF WorkerTyped, LogTyped
<1>6. CASE Work!TickEnds(k)
  <2>1. /\ ticks[k] # None /\ ticks[k].at \in {"stages", "over"}
        /\ ticks' = [ticks EXCEPT ![k] = None]
        /\ worker' = [worker EXCEPT !.tickInFlight = FALSE]
        /\ UNCHANGED <<time, log, read, events, seenAt, cache, ended>>
    BY <1>6 DEF Work!TickEnds
  <2>2. WorkerTyped'
    BY <2>1 DEF WorkerTyped, WorkerShape
  <2>3. TicksTyped'
    BY <2>1 DEF TicksTyped
  <2>4. MarksBacked'
    BY <2>1, BackedElsewhere
  <2> QED
    BY <2>1, <2>2, <2>3, <2>4 DEF LogTyped
<1> QED
  BY <1>1, <1>2, <1>3, <1>4, <1>5, <1>6 DEF Work!TickStep

\* OutsideKeeps: so do an envelope that comes in and the time.
LEMMA OutsideKeeps ==
  ASSUME MarksInv,
         \/ \E v \in Work!Envelopes : Work!Receive(v)
         \/ Work!Tock
         \/ UNCHANGED workVars
  PROVE  MarksInv'
<1>1. /\ UNCHANGED <<worker, ticks, read, events, seenAt, cache, ended>>
      /\ log' \subseteq [env : Work!Envelopes, at : Work!Times] /\ log \subseteq log'
      /\ time' \in Work!Times
  BY SizesAssumption
  DEF Work!Receive, Work!Tock, workVars, MarksInv, WorkTyped, LogTyped, Work!Times
<1> QED
  BY <1>1
  DEF MarksInv, WorkTyped, WorkerTyped, TicksTyped, LogTyped, MarksBacked, Work!MarksBacked

\* ShapeKept: so the worker keeps its shape and its marks.
LEMMA ShapeKept == MarksInv /\ [ServicesNext]_servicesVars => MarksInv'
BY WorkStep, SessionKeeps, TickKeeps, OutsideKeeps DEF Work!Next

\* A stage marked in flight is awaited by some tick, for any number of stages,
\* ticks, sessions and envelopes (tradeAuto.js:717-746, 855-905).
THEOREM MarkedIsAwaited == ServicesSpec => []MarksBacked
BY WorkFirst, ShapeKept, PTL DEF ServicesSpec, MarksInv

-----------------------------------------------------------------------------
\* The first copy of its envelope.
First(e) == \A f \in log : f.env = e.env => e.at <= f.at

\* Too old to make a stage due (isEventStale).
Stale(e) == time - e.at > EventMaxAge

\* The log grows in time, and no envelope is repeated for longer than ReplayFor.
LogOrdered ==
  /\ \A e \in log : e.at <= time
  /\ \A e, f \in log : e.env = f.env => f.at - e.at <= ReplayFor
  /\ \A e \in log : \E f \in log : f.env = e.env /\ First(f)
  /\ \A e \in read, f \in log \ read : e.at <= f.at

\* The buffer has the first copy of what was read, others only once they are stale,
\* and remembers what it has seen as long as that matters.
EventsKept ==
  /\ \A e \in events : First(e) \/ Stale(e)
  /\ \A e \in read : \E f \in events : f.env = e.env /\ First(f)
  /\ \A v \in Work!Envelopes : seenAt[v] # None =>
       \E f \in events : f.env = v /\ First(f) /\ f.at <= seenAt[v]
  /\ \A f \in events : First(f) => seenAt[f.env] # None \/ time - f.at > DoneMaxAge

\* The envelope of s came in, and no terminal one that is still fresh before it.
Good(s) ==
  \E e \in log :
    /\ e.env = Trigger[s] /\ First(e)
    /\ \A f \in log : f.env = Terminal /\ First(f) => e.at <= f.at \/ Stale(f)

\* It is stale, or a terminal one came in with it or later: s is not due again.
Past(s) ==
  \E e \in log :
    /\ e.env = Trigger[s] /\ First(e)
    /\ \/ Stale(e)
       \/ \E f \in events : f.env = Terminal /\ First(f) /\ e.at <= f.at

\* A cache keeps s from running, and has done so since its envelope or a later time.
Held(s) ==
  \E e \in log :
    /\ e.env = Trigger[s] /\ First(e)
    /\ \/ cache.done[s] # None /\ e.at <= cache.done[s]
       \/ cache.aborted # None /\ e.at <= cache.aborted

\* So no stage that ended runs again.
EndedKept == \A s \in ended : Good(s) /\ (Past(s) \/ Held(s))

\* What a tick is about to run, or runs, is good.
TicksGood ==
  \A k \in TickIds : ticks[k] # None =>
    /\ ticks[k].at = "stages" => \A s \in ticks[k].due : Good(s)
    /\ ticks[k].at = "call" => \A s \in Stages : ticks[k].stage = s => Good(s)

\* A tick that has the worker to itself is the only one, and whatever it has due that
\* ended is in a cache.
Alone ==
  \A k \in TickIds : ticks[k] # None /\ ticks[k].alone =>
    /\ \A j \in TickIds \ {k} : ticks[j] = None
    /\ ticks[k].at = "stages" =>
         \A s \in ticks[k].due \cap ended : cache.done[s] # None \/ cache.aborted # None

\* What every step does with the log and the time.
Grows ==
  /\ log \subseteq log' /\ time <= time'
  /\ \A e \in log, f \in log' \ log : e.at <= f.at

\* LogInts: times are integers.
LEMMA LogInts ==
  ASSUME LogTyped
  PROVE  /\ time \in Int /\ \A e \in log : e.at \in Int /\ e.env \in Work!Envelopes
         /\ {EventMaxAge, ReplayFor, DoneMaxAge} \subseteq Int
BY AgesAssumption, SizesAssumption DEF LogTyped, Work!Times

\* NextInts: after a step too.
LEMMA NextInts ==
  ASSUME LogTyped'
  PROVE  /\ time' \in Int /\ \A e \in log' : e.at \in Int /\ e.env \in Work!Envelopes
         /\ {EventMaxAge, ReplayFor, DoneMaxAge} \subseteq Int
BY AgesAssumption, SizesAssumption DEF LogTyped, Work!Times

\* FirstStays: the first copy of an envelope stays the first one.
LEMMA FirstStays ==
  ASSUME Grows, NEW e \in log
  PROVE  First(e)' <=> First(e)
BY DEF Grows, First

\* StaleStays: what is stale stays so.
LEMMA StaleStays ==
  ASSUME LogTyped, LogTyped', Grows, NEW e \in log, Stale(e)
  PROVE  Stale(e)'
BY LogInts, NextInts DEF Grows, Stale

\* GoodStays: a stage whose envelope came in before a terminal one stays one.
LEMMA GoodStays ==
  ASSUME LogTyped, LogTyped', Grows, NEW s, Good(s)
  PROVE  Good(s)'
<1>1. PICK e \in log :
        /\ e.env = Trigger[s] /\ First(e)
        /\ \A f \in log : f.env = Terminal /\ First(f) => e.at <= f.at \/ Stale(f)
  BY DEF Good
<1>2. e \in log' /\ First(e)'
  BY <1>1, FirstStays DEF Grows
<1>3. ASSUME NEW f \in log', f.env = Terminal, First(f)' PROVE e.at <= f.at \/ Stale(f)'
  <2>1. CASE f \in log
    BY <1>1, <1>3, <2>1, FirstStays, StaleStays
  <2>2. CASE f \notin log
    BY <2>2 DEF Grows
  <2> QED
    BY <2>1, <2>2
<1> QED
  BY <1>1, <1>2, <1>3 DEF Good

\* PastStays: so does one that is past.
LEMMA PastStays ==
  ASSUME LogTyped, LogTyped', Grows, events \subseteq events', NEW s, Past(s)
  PROVE  Past(s)'
<1>1. PICK e \in log :
        /\ e.env = Trigger[s] /\ First(e)
        /\ \/ Stale(e)
           \/ \E f \in events : f.env = Terminal /\ First(f) /\ e.at <= f.at
  BY DEF Past
<1>2. e \in log' /\ First(e)'
  BY <1>1, FirstStays DEF Grows
<1>3. CASE Stale(e)
  BY <1>1, <1>2, <1>3, StaleStays DEF Past
<1>4. ASSUME NEW f \in events, f.env = Terminal, First(f), e.at <= f.at PROVE Past(s)'
  <2>1. f \in events' /\ First(f)'
    BY <1>4, FirstStays DEF LogTyped
  <2> QED
    BY <1>1, <1>2, <1>4, <2>1 DEF Past
<1> QED
  BY <1>1, <1>3, <1>4

\* LogGrows: no step of the worker does anything else with them.
LEMMA LogGrows ==
  ASSUME LogTyped, LogOrdered, Work!Next \/ UNCHANGED workVars
  PROVE  Grows
<1> USE LogInts
<1>1. CASE UNCHANGED <<log, time>>
  BY <1>1 DEF Grows
<1>2. CASE UNCHANGED log /\ time' = time + 1
  BY <1>2 DEF Grows
<1>3. CASE UNCHANGED time /\ \E v \in Work!Envelopes : log' = log \cup {[env |-> v, at |-> time]}
  BY <1>3 DEF Grows, LogOrdered
<1> QED
  <2>1. \/ UNCHANGED <<log, time>>
        \/ UNCHANGED log /\ time' = time + 1
        \/ UNCHANGED time /\ \E v \in Work!Envelopes : log' = log \cup {[env |-> v, at |-> time]}
    BY DEF Work!Next, Work!Start, Work!StartReturns, Work!Stop, Work!TickBegins, Work!TickStep,
           Work!ReadLog, Work!BuildContexts, Work!RunStage, Work!StageSucceeds, Work!StageFails,
           Work!TickEnds, Work!Receive, Work!Tock, workVars
  <2> QED
    BY <1>1, <1>2, <1>3, <2>1

\* LogOrderedKept: copies of an envelope follow each other closely, and what was
\* read came in before the rest.
LEMMA LogOrderedKept ==
  ASSUME LogTyped, LogTyped', LogOrdered, Work!Next \/ UNCHANGED workVars
  PROVE  LogOrdered'
<1> USE LogInts, NextInts
<1>0. Grows /\ \A e \in log : First(e)' <=> First(e)
  BY LogGrows, FirstStays
<1>1. ASSUME UNCHANGED log, read' \in {read, {}, log} PROVE LogOrdered'
  <2>1. \A e \in log : e.at <= time'
    BY <1>0, <1>1 DEF Grows, LogOrdered
  <2>2. \A e \in read', f \in log \ read' : e.at <= f.at
    BY <1>1 DEF LogOrdered
  <2> QED
    BY <1>0, <1>1, <2>1, <2>2 DEF LogOrdered
<1>2. ASSUME NEW v \in Work!Envelopes, Work!Receive(v) PROVE LogOrdered'
  <2> DEFINE n == [env |-> v, at |-> time]
  <2>1. /\ \A e \in log : e.env = v => e.at < time /\ time - e.at <= ReplayFor
        /\ log' = log \cup {n} /\ UNCHANGED <<time, read>>
        /\ n.env = v /\ n.at = time
    BY <1>2 DEF Work!Receive
  <2> HIDE DEF n
  <2>2. \A e \in log' : e.at <= time'
    BY <2>1 DEF LogOrdered
  <2>3. \A e, f \in log' : e.env = f.env => f.at - e.at <= ReplayFor
    <3>1. \A e, f \in log : e.env = f.env => f.at - e.at <= ReplayFor
      BY DEF LogOrdered
    <3>2. \A e \in log : e.env = v => n.at - e.at <= ReplayFor /\ e.at - n.at <= ReplayFor
      BY <2>1, AgesAssumption
    <3>3. n.at - n.at <= ReplayFor
      BY <2>1, AgesAssumption
    <3> QED
      BY <2>1, <3>1, <3>2, <3>3
  <2>4. ASSUME NEW e \in log' PROVE \E f \in log' : f.env = e.env /\ First(f)'
    <3>1. CASE \E g \in log : g.env = e.env
      BY <1>0, <2>1, <3>1 DEF LogOrdered
    <3>2. CASE \A g \in log : g.env # e.env
      <4>1. e = n
        BY <2>1, <3>2
      <4> QED
        BY <2>1, <3>2, <4>1 DEF First
    <3> QED
      BY <3>1, <3>2
  <2>5. \A e \in read', f \in log' \ read' : e.at <= f.at
    <3>1. \A e \in read : e \in log /\ e.at <= n.at
      BY <2>1 DEF LogOrdered, LogTyped
    <3> QED
      BY <2>1, <3>1 DEF LogOrdered
  <2> QED
    BY <2>2, <2>3, <2>4, <2>5 DEF LogOrdered
<1> QED
  <2>1. \/ UNCHANGED log /\ read' \in {read, {}, log}
        \/ \E v \in Work!Envelopes : Work!Receive(v)
    BY DEF Work!Next, Work!Start, Work!StartReturns, Work!Stop, Work!TickBegins, Work!TickStep,
           Work!ReadLog, Work!BuildContexts, Work!RunStage, Work!StageSucceeds, Work!StageFails,
           Work!TickEnds, Work!Tock, Work!Cleared, workVars
  <2> QED
    BY <1>1, <1>2, <2>1

\* EventsStay: while only time and log go on, the events stay as they were.
LEMMA EventsStay ==
  ASSUME LogTyped, LogTyped', Grows, EventsKept, UNCHANGED <<read, events, seenAt>>
  PROVE  EventsKept'
<1> USE LogInts, NextInts
<1>0. events \subseteq log /\ read \subseteq log
  BY DEF LogTyped
<1>1. \A e \in log : First(e)' <=> First(e)
  BY FirstStays
<1>2. \A e \in log : Stale(e) => Stale(e)'
  BY StaleStays
<1>3. \A f \in log : time - f.at > DoneMaxAge => time' - f.at > DoneMaxAge
  BY DEF Grows
<1>4. \A e \in events' : First(e)' \/ Stale(e)'
  BY <1>0, <1>1, <1>2 DEF EventsKept
<1>5. \A e \in read' : \E f \in events' : f.env = e.env /\ First(f)'
  BY <1>0, <1>1 DEF EventsKept
<1>6. \A v \in Work!Envelopes : seenAt'[v] # None =>
        \E f \in events' : f.env = v /\ First(f)' /\ f.at <= seenAt'[v]
  BY <1>0, <1>1 DEF EventsKept
<1>7. \A f \in events' : First(f)' => seenAt'[f.env] # None \/ time' - f.at > DoneMaxAge
  BY <1>0, <1>1, <1>3 DEF EventsKept
<1> QED
  BY <1>4, <1>5, <1>6, <1>7 DEF EventsKept

\* ReadKeeps: the first copy of an envelope is taken; a later one only when it is stale.
LEMMA ReadKeeps ==
  ASSUME LogTyped, LogTyped', LogOrdered, EventsKept, NEW k \in TickIds, Work!ReadLog(k)
  PROVE  EventsKept'
<1> USE LogInts
<1>0. /\ UNCHANGED <<time, log>> /\ read' = log /\ events' = events \cup Work!Kept
      /\ seenAt' = [v \in Work!Envelopes |->
                      IF \E e \in Work!Kept : e.env = v THEN time ELSE seenAt[v]]
  BY DEF Work!ReadLog
<1>1. \A e : First(e)' <=> First(e)
  BY <1>0 DEF First
<1>2. \A e : Stale(e)' <=> Stale(e)
  BY <1>0 DEF Stale
<1>3. /\ events \subseteq read /\ read \subseteq log
      /\ seenAt \in [Work!Envelopes -> Work!MaybeTime]
  BY DEF LogTyped
<1>4. ASSUME NEW e \in Work!Kept PROVE e \in log /\ (First(e) \/ Stale(e))
  <2>1. /\ e \in log \ read /\ Work!IsNew(e)
        /\ \A f \in log \ read : f.env = e.env => e.at <= f.at
    BY DEF Work!Kept
  <2>2. CASE \E f \in read : f.env = e.env
    <3>1. PICK f \in events : f.env = e.env /\ First(f)
      BY <2>2 DEF EventsKept
    <3>2. time - f.at > DoneMaxAge
      <4>1. CASE seenAt[e.env] = None
        BY <3>1, <4>1 DEF EventsKept
      <4>2. CASE seenAt[e.env] # None
        <5>1. time - seenAt[e.env] > DoneMaxAge
          BY <2>1, <4>2 DEF Work!IsNew, Work!Older
        <5>2. PICK g \in events : g.env = e.env /\ First(g) /\ g.at <= seenAt[e.env]
          BY <2>1, <4>2 DEF EventsKept
        <5>3. f \in log /\ g \in log /\ f.at <= g.at
          BY <1>3, <3>1, <5>2 DEF First
        <5>4. seenAt[e.env] \in Int
          BY <1>3, <2>1, <4>2 DEF Work!MaybeTime, Work!Times
        <5> QED
          BY <5>1, <5>2, <5>3, <5>4
      <4> QED
        BY <4>1, <4>2
    <3>3. f \in log /\ e.at - f.at <= ReplayFor
      BY <1>3, <2>1, <3>1 DEF LogOrdered
    <3> QED
      BY <2>1, <3>2, <3>3, AgesAssumption DEF Stale
  <2>3. CASE \A f \in read : f.env # e.env
    BY <2>1, <2>3 DEF First
  <2> QED
    BY <2>1, <2>2, <2>3
<1>5. ASSUME NEW e \in log PROVE \E f \in events' : f.env = e.env /\ First(f)
  <2>1. PICK f \in log : f.env = e.env /\ First(f)
    BY DEF LogOrdered
  <2>2. CASE \E g \in read : g.env = e.env
    BY <1>0, <2>2 DEF EventsKept
  <2>3. CASE \A g \in read : g.env # e.env
    <3>1. seenAt[e.env] = None
      BY <1>3, <2>3 DEF EventsKept
    <3>2. f \in log \ read /\ \A g \in log \ read : g.env = f.env => f.at <= g.at
      BY <2>1, <2>3 DEF First
    <3>3. f \in Work!Kept
      BY <2>1, <3>1, <3>2 DEF Work!Kept, Work!IsNew
    <3> QED
      BY <1>0, <2>1, <3>3
  <2> QED
    BY <2>2, <2>3
<1>6. \A e \in events' : First(e)' \/ Stale(e)'
  BY <1>0, <1>1, <1>2, <1>4 DEF EventsKept
<1>7. \A e \in read' : \E f \in events' : f.env = e.env /\ First(f)'
  BY <1>0, <1>1, <1>5
<1>8. ASSUME NEW v \in Work!Envelopes, seenAt'[v] # None
      PROVE  \E f \in events' : f.env = v /\ First(f)' /\ f.at <= seenAt'[v]
  <2>1. CASE \E e \in Work!Kept : e.env = v
    <3>1. PICK e \in Work!Kept : e.env = v
      BY <2>1
    <3>2. PICK f \in events' : f.env = v /\ First(f)
      BY <1>4, <1>5, <3>1
    <3>3. f \in log
      BY <1>0, <1>3, <1>4
    <3>4. f.at <= time /\ seenAt'[v] = time
      BY <1>0, <2>1, <3>3 DEF LogOrdered
    <3> QED
      BY <1>1, <3>2, <3>4
  <2>2. CASE ~ \E e \in Work!Kept : e.env = v
    <3>1. seenAt'[v] = seenAt[v]
      BY <1>0, <2>2
    <3>2. PICK f \in events : f.env = v /\ First(f) /\ f.at <= seenAt[v]
      BY <1>8, <3>1 DEF EventsKept
    <3> QED
      BY <1>0, <1>1, <3>1, <3>2
  <2> QED
    BY <2>1, <2>2
<1>9. ASSUME NEW f \in events', First(f)'
      PROVE  seenAt'[f.env] # None \/ time' - f.at > DoneMaxAge
  <2>0. time # None
    BY NoneAssumption DEF LogTyped, Work!Times
  <2>1. CASE \E e \in Work!Kept : e.env = f.env
    <3>1. f \in log
      BY <1>0, <1>3, <1>4
    <3> QED
      BY <1>0, <2>0, <2>1, <3>1
  <2>2. CASE ~ \E e \in Work!Kept : e.env = f.env
    <3>1. f \in events /\ f \in log
      BY <1>0, <1>3, <2>2
    <3>2. seenAt'[f.env] = seenAt[f.env]
      BY <1>0, <2>2, <3>1
    <3> QED
      BY <1>0, <1>1, <1>9, <3>1, <3>2 DEF EventsKept
  <2> QED
    BY <2>1, <2>2
<1> QED
  BY <1>6, <1>7, <1>8, <1>9 DEF EventsKept

\* ForgetKeeps: what is forgotten as seen is too old to matter.
LEMMA ForgetKeeps ==
  ASSUME LogTyped, LogTyped', LogOrdered, EventsKept, NEW k \in TickIds, Work!BuildContexts(k)
  PROVE  EventsKept'
<1> USE LogInts
<1>0. /\ UNCHANGED <<time, log, read, events>>
      /\ seenAt' = [v \in Work!Envelopes |->
                      IF Work!Older(seenAt[v], DoneMaxAge) THEN None ELSE seenAt[v]]
  BY DEF Work!BuildContexts
<1>1. \A e : First(e)' <=> First(e)
  BY <1>0 DEF First
<1>2. \A e : Stale(e)' <=> Stale(e)
  BY <1>0 DEF Stale
<1>3. events \subseteq log /\ seenAt \in [Work!Envelopes -> Work!MaybeTime]
  BY DEF LogTyped
<1>4. \A v \in Work!Envelopes : seenAt'[v] # None =>
        \E f \in events' : f.env = v /\ First(f)' /\ f.at <= seenAt'[v]
  BY <1>0, <1>1 DEF EventsKept
<1>5. ASSUME NEW f \in events', First(f)'
      PROVE  seenAt'[f.env] # None \/ time' - f.at > DoneMaxAge
  <2>1. f \in log /\ First(f) /\ f.env \in Work!Envelopes
    BY <1>0, <1>1, <1>3, <1>5
  <2>2. CASE Work!Older(seenAt[f.env], DoneMaxAge)
    <3>1. seenAt[f.env] # None /\ time - seenAt[f.env] > DoneMaxAge
      BY <2>2 DEF Work!Older
    <3>2. PICK g \in events : g.env = f.env /\ First(g) /\ g.at <= seenAt[f.env]
      BY <2>1, <3>1 DEF EventsKept
    <3>3. g \in log /\ f.at <= g.at
      BY <1>3, <2>1, <3>2 DEF First
    <3>4. seenAt[f.env] \in Int
      BY <1>3, <2>1, <3>1 DEF Work!MaybeTime, Work!Times
    <3> QED
      BY <1>0, <2>1, <3>1, <3>2, <3>3, <3>4
  <2>3. CASE ~Work!Older(seenAt[f.env], DoneMaxAge)
    <3>1. seenAt'[f.env] = seenAt[f.env]
      BY <1>0, <2>1, <2>3
    <3> QED
      BY <1>0, <2>1, <3>1 DEF EventsKept
  <2> QED
    BY <2>2, <2>3
<1> QED
  BY <1>0, <1>1, <1>2, <1>4, <1>5 DEF EventsKept

\* EventsStep: so the events hold the first copy of all that was read.
LEMMA EventsStep ==
  ASSUME LogTyped, LogTyped', LogOrdered, EventsKept, Work!Next \/ UNCHANGED workVars
  PROVE  EventsKept'
<1>1. Grows
  BY LogGrows
<1>2. \/ UNCHANGED <<read, events, seenAt>>
      \/ Work!Cleared
      \/ \E k \in TickIds : Work!ReadLog(k) \/ Work!BuildContexts(k)
  BY DEF Work!Next, Work!Start, Work!StartReturns, Work!Stop, Work!TickBegins, Work!TickStep,
         Work!RunStage, Work!StageSucceeds, Work!StageFails, Work!TickEnds, Work!Receive,
         Work!Tock, workVars
<1>3. CASE Work!Cleared
  BY <1>3 DEF Work!Cleared, EventsKept, Work!NoTimes
<1> QED
  BY <1>1, <1>2, <1>3, EventsStay, ReadKeeps, ForgetKeeps

\* TickShaped: what a step makes of the tick that takes it.
LEMMA TickShaped ==
  ASSUME TicksTyped, NEW k \in TickIds, Work!TickStep(k)
  PROVE  /\ ticks[k] # None /\ \A j \in TickIds \ {k} : ticks'[j] = ticks[j]
         /\ ticks'[k] # None => ticks'[k].alone = ticks[k].alone
         /\ ticks'[k] # None /\ ticks'[k].at = "stages" => Work!BuildContexts(k)
         /\ ticks'[k] # None /\ ticks'[k].at = "call" =>
              /\ ticks'[k].stage \in Stages /\ Work!RunStage(k, ticks'[k].stage)
<1>1. ticks[k] # None
  BY DEF Work!TickStep, Work!ReadLog, Work!BuildContexts, Work!RunStage, Work!StageSucceeds,
         Work!StageFails, Work!TickEnds
<1>2. PICK t \in TickShape : t = ticks[k]
  BY <1>1 DEF TicksTyped
<1>3. CASE Work!ReadLog(k)
  <2>1. ticks' = [ticks EXCEPT ![k].at = "info"]
    BY <1>3 DEF Work!ReadLog
  <2>2. \A j \in TickIds \ {k} : ticks'[j] = ticks[j]
    BY <2>1 DEF TicksTyped
  <2>3. ticks'[k].alone = ticks[k].alone /\ ticks'[k].at = "info"
    BY <1>2, <2>1 DEF TicksTyped, TickShape
  <2> QED
    BY <1>1, <2>2, <2>3
<1>4. CASE Work!BuildContexts(k)
  <2>1. PICK D : ticks' = [ticks EXCEPT ![k].at = "stages", ![k].due = D]
    BY <1>4 DEF Work!BuildContexts
  <2>2. \A j \in TickIds \ {k} : ticks'[j] = ticks[j]
    BY <2>1 DEF TicksTyped
  <2>3. ticks'[k].alone = ticks[k].alone /\ ticks'[k].at = "stages"
    BY <1>2, <2>1 DEF TicksTyped, TickShape
  <2> QED
    BY <1>1, <1>4, <2>2, <2>3
<1>5. ASSUME NEW s \in Stages, Work!RunStage(k, s)
      PROVE  /\ \A j \in TickIds \ {k} : ticks'[j] = ticks[j]
             /\ ticks'[k].alone = ticks[k].alone
             /\ ticks'[k].at = "call" /\ ticks'[k].stage = s
  <2>1. ticks' = [ticks EXCEPT ![k].at = "call", ![k].stage = s, ![k].due = {}]
    BY <1>5 DEF Work!RunStage
  <2>2. \A j \in TickIds \ {k} : ticks'[j] = ticks[j]
    BY <2>1 DEF TicksTyped
  <2>3. ticks'[k].alone = ticks[k].alone /\ ticks'[k].at = "call"
    BY <1>2, <2>1 DEF TicksTyped, TickShape
  <2>4. ticks'[k].stage = s
    BY <1>2, <2>1 DEF TicksTyped, TickShape
  <2> QED
    BY <2>2, <2>3, <2>4
<1>6. CASE Work!StageSucceeds(k) \/ Work!StageFails(k)
  <2>1. ticks' = [ticks EXCEPT ![k].at = "over", ![k].stage = None]
    BY <1>6 DEF Work!StageSucceeds, Work!StageFails, Work!Over
  <2>2. \A j \in TickIds \ {k} : ticks'[j] = ticks[j]
    BY <2>1 DEF TicksTyped
  <2>3. ticks'[k].alone = ticks[k].alone /\ ticks'[k].at = "over"
    BY <1>2, <2>1 DEF TicksTyped, TickShape
  <2> QED
    BY <1>1, <2>2, <2>3
<1>7. CASE Work!TickEnds(k)
  BY <1>1, <1>7 DEF Work!TickEnds, TicksTyped
<1>8. CASE \E s \in Stages : Work!RunStage(k, s)
  <2>1. PICK s \in Stages : Work!RunStage(k, s)
    BY <1>8
  <2>2. /\ \A j \in TickIds \ {k} : ticks'[j] = ticks[j]
        /\ ticks'[k].alone = ticks[k].alone
        /\ ticks'[k].at = "call" /\ ticks'[k].stage = s
    BY <1>5, <2>1
  <2> QED
    BY <1>1, <2>1, <2>2
<1> QED
  BY <1>3, <1>4, <1>6, <1>7, <1>8 DEF Work!TickStep

\* ActiveIsFirst: what counts as fresh is the first copy of its envelope.
LEMMA ActiveIsFirst ==
  ASSUME LogTyped, EventsKept, NEW v \in Work!Active
  PROVE  \E e \in events : e \in log /\ e.env = v /\ First(e) /\ ~Stale(e)
<1>1. PICK e \in events : e.env = v /\ ~Work!Older(e.at, EventMaxAge)
  BY DEF Work!Active
<1>2. e \in log /\ e.at # None
  BY NoneAssumption DEF LogTyped, Work!Times
<1> QED
  BY <1>1, <1>2 DEF EventsKept, Work!Older, Stale

\* DueIsGood: a stage is due while its envelope is fresh and no terminal one came in
\* before it.
LEMMA DueIsGood ==
  ASSUME LogTyped, LogOrdered, EventsKept, NEW s \in Stages,
         Terminal \notin Work!Active, Trigger[s] \in Work!Active
  PROVE  Good(s) /\ ~Past(s)
<1> USE LogInts
<1>1. PICK e \in events : e \in log /\ e.env = Trigger[s] /\ First(e) /\ ~Stale(e)
  BY ActiveIsFirst
<1>2. e \in read /\ read \subseteq log /\ events \subseteq read
  BY <1>1 DEF LogTyped
<1>3. ASSUME NEW f \in events, f.env = Terminal PROVE f \in log /\ Stale(f)
  <2>1. Work!Older(f.at, EventMaxAge)
    BY <1>3 DEF Work!Active
  <2> QED
    BY <1>2, <2>1 DEF Work!Older, Stale
<1>4. ASSUME NEW f \in log, f.env = Terminal, First(f) PROVE e.at <= f.at \/ Stale(f)
  <2>1. CASE f \in read
    <3>1. PICK g \in events : g.env = f.env /\ First(g)
      BY <2>1 DEF EventsKept
    <3>2. g \in log /\ Stale(g)
      BY <1>3, <1>4, <3>1
    <3>3. f.at <= g.at
      BY <1>4, <3>1, <3>2 DEF First
    <3> QED
      BY <3>2, <3>3, AgesAssumption DEF Stale
  <2>2. CASE f \notin read
    BY <1>2, <2>2 DEF LogOrdered
  <2> QED
    BY <2>1, <2>2
<1>5. ASSUME Past(s) PROVE FALSE
  <2>1. PICK d \in log :
          /\ d.env = Trigger[s] /\ First(d)
          /\ \/ Stale(d)
             \/ \E f \in events : f.env = Terminal /\ First(f) /\ d.at <= f.at
    BY <1>5 DEF Past
  <2>2. d.at = e.at
    BY <1>1, <2>1 DEF First
  <2>3. ~Stale(d)
    BY <1>1, <2>2 DEF Stale
  <2>4. PICK f \in events : f.env = Terminal /\ First(f) /\ d.at <= f.at
    BY <2>1, <2>3
  <2>5. f \in log /\ Stale(f)
    BY <1>3, <2>4
  <2> QED
    BY <1>1, <2>2, <2>4, <2>5, AgesAssumption DEF Stale
<1> QED
  BY <1>1, <1>4, <1>5 DEF Good

\* PrunedIsPast: a stage whose cache is pruned is past running.
LEMMA PrunedIsPast ==
  ASSUME LogTyped, cache \in CacheShape, LogOrdered, EventsKept, NEW s \in Stages,
         Good(s), Held(s), NEW k \in TickIds, Work!BuildContexts(k)
  PROVE  Past(s) \/ Held(s)'
<1> USE LogInts
<1>0. UNCHANGED <<time, log, events>> /\ cache' = Work!Pruned(cache)
  BY DEF Work!BuildContexts
<1>1. CASE Terminal \in Work!Active
  <2>1. PICK f \in events : f \in log /\ f.env = Terminal /\ First(f) /\ ~Stale(f)
    BY <1>1, ActiveIsFirst
  <2>2. PICK e \in log : e.env = Trigger[s] /\ First(e) /\ e.at <= f.at
    BY <2>1 DEF Good
  <2> QED
    BY <2>1, <2>2 DEF Past
<1>2. CASE Terminal \notin Work!Active
  <2>1. /\ cache'.done[s] = IF Work!Lasts(cache.done[s]) THEN cache.done[s] ELSE None
        /\ cache'.aborted = IF Work!Lasts(cache.aborted) THEN cache.aborted ELSE None
    BY <1>0, <1>2 DEF Work!Pruned, CacheShape
  <2>2. PICK e \in log :
          /\ e.env = Trigger[s] /\ First(e)
          /\ \/ cache.done[s] # None /\ e.at <= cache.done[s]
             \/ cache.aborted # None /\ e.at <= cache.aborted
    BY DEF Held
  <2>3. First(e)' /\ e \in log'
    BY <1>0, <2>2 DEF First
  <2>4. ASSUME NEW t \in Work!MaybeTime, t # None, e.at <= t, ~Work!Lasts(t)
        PROVE  Past(s)
    <3>1. t \in Int /\ time - t > DoneMaxAge
      BY <2>4 DEF Work!MaybeTime, Work!Times, Work!Lasts, Work!Older
    <3>2. Stale(e)
      BY <2>4, <3>1, AgesAssumption DEF Stale
    <3> QED
      BY <2>2, <3>2 DEF Past
  <2>5. cache.done[s] \in Work!MaybeTime /\ cache.aborted \in Work!MaybeTime
    BY DEF CacheShape
  <2>6. CASE cache.done[s] # None /\ e.at <= cache.done[s]
    BY <2>1, <2>2, <2>3, <2>4, <2>5, <2>6 DEF Held
  <2>7. CASE cache.aborted # None /\ e.at <= cache.aborted
    BY <2>1, <2>2, <2>3, <2>4, <2>5, <2>7 DEF Held
  <2> QED
    BY <2>2, <2>6, <2>7
<1> QED
  BY <1>1, <1>2

\* CallOver: a call that is over puts an end to its stage, and an abort to what the
\* trade had reached.
LEMMA CallOver ==
  ASSUME WorkTyped, NEW k \in TickIds, Work!StageSucceeds(k) \/ Work!StageFails(k)
  PROVE  \E u \in Stages :
           /\ ticks[k] # None /\ ticks[k].at = "call" /\ u = ticks[k].stage
           /\ UNCHANGED <<time, log, events>>
           /\ cache'.done \in {cache.done, [cache.done EXCEPT ![u] = time]}
           /\ \/ cache'.aborted = cache.aborted
              \/ cache.aborted = None /\ cache'.aborted = time
           /\ \A s \in ended' :
                \/ s \in ended
                \/ s = u /\ cache'.done[s] = time
                \/ s \in Work!Reached /\ cache'.aborted = time
<1> DEFINE Over(u) ==
      /\ UNCHANGED <<time, log, events>>
      /\ cache'.done \in {cache.done, [cache.done EXCEPT ![u] = time]}
      /\ \/ cache'.aborted = cache.aborted
         \/ cache.aborted = None /\ cache'.aborted = time
      /\ \A s \in ended' :
           \/ s \in ended
           \/ s = u /\ cache'.done[s] = time
           \/ s \in Work!Reached /\ cache'.aborted = time
<1>1. PICK u \in Stages : ticks[k] # None /\ ticks[k].at = "call" /\ u = ticks[k].stage
  BY DEF WorkTyped, TicksTyped, Work!StageSucceeds, Work!StageFails
<1>2. LogTyped /\ cache \in CacheShape
  BY DEF WorkTyped
<1>3. PICK c \in CacheShape :
        /\ c = Work!Finished(cache, u) /\ c.aborted = cache.aborted
        /\ c.done = [cache.done EXCEPT ![u] = time]
  <2>1. /\ Work!Finished(cache, u) \in CacheShape
        /\ Work!Finished(cache, u).aborted = cache.aborted
        /\ Work!Finished(cache, u).done = [cache.done EXCEPT ![u] = time]
    BY <1>2, FinishedTyped
  <2> QED
    BY <2>1
<1>4. c.done[u] = time
  BY <1>2, <1>3 DEF CacheShape
<1>5. UNCHANGED <<time, log, events>>
  BY DEF Work!StageSucceeds, Work!StageFails
<1>6. CASE Work!StageSucceeds(k)
  <2>1. cache' = c /\ ended' \subseteq ended \cup {u}
    BY <1>1, <1>3, <1>6 DEF Work!StageSucceeds, Work!Ends
  <2>2. Over(u)
    BY <1>3, <1>4, <1>5, <2>1
  <2> QED
    BY <1>1, <2>2
<1>7. CASE Work!StageFails(k)
  <2>1. CASE /\ cache' = [cache EXCEPT !.inFlight = @ \ {u}, !.retries[u] = cache.retries[u] + 1,
                                       !.retryAt[u] = time + StageCooldown]
             /\ UNCHANGED ended
    <3>1. cache'.done = cache.done /\ cache'.aborted = cache.aborted
      BY <2>1 DEF WorkTyped, CacheShape
    <3>2. Over(u)
      BY <1>5, <2>1, <3>1
    <3> QED
      BY <1>1, <3>2
  <2>2. CASE /\ cache' = Work!GivesUp(u)
             /\ Work!Ends(k, {u} \cup (IF cache.aborted = None THEN Work!Reached ELSE {}))
    <3>1. cache' = [c EXCEPT !.aborted = IF @ = None THEN time ELSE @]
      BY <1>3, <2>2 DEF Work!GivesUp
    <3>2. cache'.done = c.done
      BY <3>1 DEF CacheShape
    <3>3. cache'.aborted = IF cache.aborted = None THEN time ELSE cache.aborted
      BY <1>3, <3>1 DEF CacheShape
    <3>4. ended' \subseteq ended \cup {u} \cup (IF cache.aborted = None THEN Work!Reached ELSE {})
      BY <2>2 DEF Work!Ends
    <3>5. Over(u)
      BY <1>3, <1>4, <1>5, <3>2, <3>3, <3>4
    <3> QED
      BY <1>1, <3>5
  <2>3. \/ /\ cache' = [cache EXCEPT !.inFlight = @ \ {u}, !.retries[u] = cache.retries[u] + 1,
                                     !.retryAt[u] = time + StageCooldown]
           /\ UNCHANGED ended
        \/ /\ cache' = Work!GivesUp(u)
           /\ Work!Ends(k, {u} \cup (IF cache.aborted = None THEN Work!Reached ELSE {}))
    BY <1>1, <1>7 DEF Work!StageFails
  <2> QED
    BY <2>1, <2>2, <2>3
<1> QED
  BY <1>6, <1>7

\* ReachedIsGood: what a trade has reached is good, and held by an abort.
LEMMA ReachedIsGood ==
  ASSUME LogTyped, LogOrdered, NEW s \in Work!Reached
  PROVE  Good(s)
<1> USE LogInts
<1>1. PICK e \in log :
        e.env = Trigger[s] /\ \A f \in log : f.env = Terminal => e.at <= f.at
  BY DEF Work!Reached
<1>2. PICK d \in log : d.env = e.env /\ First(d)
  BY DEF LogOrdered
<1>3. d.at <= e.at
  BY <1>1, <1>2 DEF First
<1> QED
  BY <1>1, <1>2, <1>3 DEF Good

\* TicksGoodStep: a tick only runs a stage whose envelope came in before a terminal one.
LEMMA TicksGoodStep ==
  ASSUME TicksTyped, LogTyped, LogTyped', LogOrdered, EventsKept, TicksGood,
         Work!Next \/ UNCHANGED workVars
  PROVE  TicksGood'
<1>1. Grows /\ \A s : Good(s) => Good(s)'
  BY LogGrows, GoodStays
<1>2. CASE UNCHANGED ticks
  BY <1>1, <1>2 DEF TicksGood
<1>3. ASSUME NEW k \in TickIds, Work!TickBegins(k) PROVE TicksGood'
  <2>1. ASSUME NEW j \in TickIds, ticks'[j] # None
        PROVE  \/ ticks'[j].at = "keepalive"
               \/ /\ ticks[j] # None
                  /\ ticks'[j].at = ticks[j].at /\ ticks'[j].due = ticks[j].due
                  /\ ticks'[j].stage = ticks[j].stage
    <3>1. CASE j = k
      BY <1>3, <3>1 DEF Work!TickBegins
    <3>2. CASE j # k
      <4>1. ticks[j] # None /\ ticks'[j] = [ticks[j] EXCEPT !.alone = FALSE]
        BY <1>3, <2>1, <3>2 DEF Work!TickBegins
      <4>2. ticks[j] \in TickShape
        BY <4>1 DEF TicksTyped
      <4> QED
        BY <4>1, <4>2 DEF TickShape
    <3> QED
      BY <3>1, <3>2
  <2> QED
    BY <1>1, <2>1 DEF TicksGood
<1>4. ASSUME NEW k \in TickIds, Work!TickStep(k) PROVE TicksGood'
  <2>1. /\ \A j \in TickIds \ {k} : ticks'[j] = ticks[j]
        /\ ticks'[k] # None /\ ticks'[k].at = "stages" => Work!BuildContexts(k)
        /\ ticks'[k] # None /\ ticks'[k].at = "call" =>
             /\ ticks'[k].stage \in Stages /\ Work!RunStage(k, ticks'[k].stage)
    BY <1>4, TickShaped
  <2>2. ASSUME ticks'[k] # None, ticks'[k].at = "stages", NEW s \in ticks'[k].due
        PROVE  Good(s)'
    <3>1. Work!BuildContexts(k)
      BY <2>1, <2>2
    <3>2. PICK t \in TickShape : t = ticks[k]
      BY <3>1 DEF Work!BuildContexts, TicksTyped
    <3>3. ticks'[k].due = IF Terminal \in Work!Active THEN {}
                          ELSE { u \in Stages : Trigger[u] \in Work!Active }
      BY <3>1, <3>2 DEF Work!BuildContexts, TicksTyped, TickShape
    <3>4. s \in Stages /\ Terminal \notin Work!Active /\ Trigger[s] \in Work!Active
      BY <2>2, <3>3
    <3> QED
      BY <1>1, <3>4, DueIsGood
  <2>3. ASSUME ticks'[k] # None, ticks'[k].at = "call", NEW s \in Stages, ticks'[k].stage = s
        PROVE  Good(s)'
    BY <1>1, <2>1, <2>3 DEF Work!RunStage, TicksGood
  <2> QED
    BY <1>1, <2>1, <2>2, <2>3 DEF TicksGood
<1> QED
  <2>1. \/ UNCHANGED ticks
        \/ \E k \in TickIds : Work!TickBegins(k) \/ Work!TickStep(k)
    BY DEF Work!Next, Work!Start, Work!StartReturns, Work!Stop, Work!Receive, Work!Tock, workVars
  <2> QED
    BY <1>2, <1>3, <1>4, <2>1

\* EndedStep: a stage that ended is past running, or a cache holds it.
LEMMA EndedStep ==
  ASSUME WorkTyped, WorkTyped', LogOrdered, EventsKept, EndedKept, TicksGood,
         Work!Next \/ UNCHANGED workVars
  PROVE  EndedKept'
<1> USE LogInts
<1>0. LogTyped /\ LogTyped' /\ cache \in CacheShape /\ ended \subseteq Stages
  BY DEF WorkTyped
<1>1. Grows /\ (\A s : Good(s) => Good(s)') /\ \A e \in log : First(e)' <=> First(e)
  BY <1>0, LogGrows, GoodStays, FirstStays
<1>2. CASE Work!Cleared
  BY <1>2 DEF Work!Cleared, EndedKept
<1>3. ASSUME UNCHANGED ended, events \subseteq events',
             cache'.done = cache.done, cache'.aborted = cache.aborted
      PROVE  EndedKept'
  <2>1. ASSUME NEW s, Held(s) PROVE Held(s)'
    BY <1>1, <1>3, <2>1 DEF Held, Grows
  <2>2. \A s : Past(s) => Past(s)'
    BY <1>0, <1>1, <1>3, PastStays
  <2> QED
    BY <1>1, <1>3, <2>1, <2>2 DEF EndedKept
<1>4. ASSUME NEW k \in TickIds, Work!BuildContexts(k) PROVE EndedKept'
  <2>1. UNCHANGED <<ended, events>>
    BY <1>4 DEF Work!BuildContexts
  <2>2. \A s : Past(s) => Past(s)'
    BY <1>0, <1>1, <2>1, PastStays
  <2>3. \A s \in ended : Past(s) \/ Held(s)'
    BY <1>0, <1>4, PrunedIsPast DEF EndedKept
  <2> QED
    BY <1>1, <2>1, <2>2, <2>3 DEF EndedKept
<1>5. ASSUME NEW k \in TickIds, Work!StageSucceeds(k) \/ Work!StageFails(k) PROVE EndedKept'
  <2>1. PICK u \in Stages :
          /\ ticks[k] # None /\ ticks[k].at = "call" /\ u = ticks[k].stage
          /\ UNCHANGED <<time, log, events>>
          /\ cache'.done \in {cache.done, [cache.done EXCEPT ![u] = time]}
          /\ \/ cache'.aborted = cache.aborted
             \/ cache.aborted = None /\ cache'.aborted = time
          /\ \A s \in ended' :
               \/ s \in ended
               \/ s = u /\ cache'.done[s] = time
               \/ s \in Work!Reached /\ cache'.aborted = time
    BY <1>5, CallOver
  <2>2. time # None /\ \A e \in log : e.at <= time
    BY <1>0, NoneAssumption DEF LogTyped, Work!Times, LogOrdered
  <2>3. Good(u)
    BY <2>1 DEF TicksGood
  <2>4. \A s \in Stages : Held(s) => Held(s)'
    <3>1. SUFFICES ASSUME NEW s \in Stages, Held(s) PROVE Held(s)'
      OBVIOUS
    <3>2. PICK e \in log :
            /\ e.env = Trigger[s] /\ First(e)
            /\ \/ cache.done[s] # None /\ e.at <= cache.done[s]
               \/ cache.aborted # None /\ e.at <= cache.aborted
      BY <3>1 DEF Held
    <3>3. e \in log' /\ First(e)'
      BY <1>1, <2>1, <3>2
    <3>4. CASE cache.done[s] # None /\ e.at <= cache.done[s]
      <4>1. cache'.done[s] \in {cache.done[s], time}
        BY <1>0, <2>1 DEF CacheShape
      <4>2. cache'.done[s] # None /\ e.at <= cache'.done[s]
        BY <2>2, <3>2, <3>4, <4>1
      <4> QED
        BY <3>2, <3>3, <4>2 DEF Held
    <3>5. CASE cache.aborted # None /\ e.at <= cache.aborted
      BY <2>1, <3>2, <3>3, <3>5 DEF Held
    <3> QED
      BY <3>2, <3>4, <3>5
  <2>5. \A s : Past(s) => Past(s)'
    BY <1>0, <1>1, <2>1, PastStays
  <2>6. ASSUME NEW s, Good(s), cache'.done[s] = time \/ cache'.aborted = time
        PROVE  Held(s)'
    <3>1. PICK e \in log : e.env = Trigger[s] /\ First(e)
      BY <2>6 DEF Good
    <3>2. e \in log' /\ First(e)' /\ e.at <= time
      BY <1>1, <2>1, <2>2, <3>1
    <3> QED
      BY <2>2, <2>6, <3>1, <3>2 DEF Held
  <2>7. ASSUME NEW s \in ended' PROVE Good(s)' /\ (Past(s)' \/ Held(s)')
    <3>1. CASE s \in ended
      BY <1>0, <1>1, <2>4, <2>5, <3>1 DEF EndedKept
    <3>2. CASE s = u /\ cache'.done[s] = time
      BY <1>1, <2>3, <2>6, <3>2
    <3>3. CASE s \in Work!Reached /\ cache'.aborted = time
      BY <1>0, <1>1, <2>6, <3>3, ReachedIsGood
    <3> QED
      BY <2>1, <3>1, <3>2, <3>3
  <2> QED
    BY <2>7 DEF EndedKept
<1>6. ASSUME NEW k \in TickIds, NEW s \in Stages, Work!RunStage(k, s) PROVE EndedKept'
  <2>1. /\ cache' = [cache EXCEPT !.inFlight = @ \cup {s}] /\ UNCHANGED <<ended, events>>
    BY <1>6 DEF Work!RunStage
  <2>2. cache'.done = cache.done /\ cache'.aborted = cache.aborted
    BY <1>0, <2>1 DEF CacheShape
  <2> QED
    BY <1>3, <2>1, <2>2
<1>7. \/ Work!Cleared
      \/ UNCHANGED <<cache, ended>> /\ events \subseteq events'
      \/ \E k \in TickIds : \/ Work!BuildContexts(k)
                            \/ Work!StageSucceeds(k) \/ Work!StageFails(k)
                            \/ \E s \in Stages : Work!RunStage(k, s)
  BY DEF Work!Next, Work!Start, Work!StartReturns, Work!Stop, Work!TickBegins, Work!TickStep,
         Work!ReadLog, Work!TickEnds, Work!Receive, Work!Tock, workVars
<1> QED
  BY <1>2, <1>3, <1>4, <1>5, <1>6, <1>7

\* AloneStep: a tick that has the worker to itself knows of every stage that is due
\* and ended, which a cache holds.
LEMMA AloneStep ==
  ASSUME WorkTyped, WorkTyped', LogOrdered, EventsKept, EndedKept, EndedKept', TicksGood, Alone,
         Work!Next \/ UNCHANGED workVars
  PROVE  Alone'
<1>0. LogTyped /\ LogTyped' /\ TicksTyped
  BY DEF WorkTyped
<1>1. CASE UNCHANGED ticks /\ (Work!Cleared \/ UNCHANGED <<cache, ended>>)
  BY <1>1 DEF Alone, Work!Cleared
<1>2. ASSUME NEW k \in TickIds, Work!TickBegins(k) PROVE Alone'
  <2>1. ASSUME NEW j \in TickIds, ticks'[j] # None, ticks'[j].alone
        PROVE  ticks'[j].at = "keepalive" /\ \A i \in TickIds \ {j} : ticks'[i] = None
    <3>1. CASE j = k
      <4>1. ticks'[j].at = "keepalive" /\ Work!NoTick
        BY <1>2, <2>1, <3>1 DEF Work!TickBegins
      <4> QED
        BY <1>2, <3>1, <4>1 DEF Work!TickBegins, Work!NoTick
    <3>2. CASE j # k
      <4>1. ticks[j] # None /\ ticks'[j] = [ticks[j] EXCEPT !.alone = FALSE]
        BY <1>2, <2>1, <3>2 DEF Work!TickBegins
      <4>2. ticks[j] \in TickShape
        BY <1>0, <4>1 DEF TicksTyped
      <4>3. ticks'[j].alone = FALSE
        BY <4>1, <4>2 DEF TickShape
      <4> QED
        BY <2>1, <4>3
    <3> QED
      BY <3>1, <3>2
  <2> QED
    BY <2>1 DEF Alone
<1>3. ASSUME NEW k \in TickIds, Work!TickStep(k) PROVE Alone'
  <2>1. /\ ticks[k] # None /\ \A j \in TickIds \ {k} : ticks'[j] = ticks[j]
        /\ ticks'[k] # None => ticks'[k].alone = ticks[k].alone
        /\ ticks'[k] # None /\ ticks'[k].at = "stages" => Work!BuildContexts(k)
    BY <1>0, <1>3, TickShaped
  <2>2. ASSUME NEW j \in TickIds, ticks'[j] # None, ticks'[j].alone
        PROVE  /\ \A i \in TickIds \ {j} : ticks'[i] = None
               /\ ticks'[j].at = "stages" =>
                    \A s \in ticks'[j].due \cap ended' :
                      cache'.done[s] # None \/ cache'.aborted # None
    <3>1. j = k
      BY <2>1, <2>2 DEF Alone
    <3>2. \A i \in TickIds \ {k} : ticks'[i] = None
      BY <2>1, <2>2, <3>1 DEF Alone
    <3>3. ASSUME ticks'[k].at = "stages", NEW s \in ticks'[k].due \cap ended'
          PROVE  cache'.done[s] # None \/ cache'.aborted # None
      <4>1. Work!BuildContexts(k)
        BY <2>1, <2>2, <3>1, <3>3
      <4>2. PICK t \in TickShape : t = ticks[k]
        BY <2>1, <1>0 DEF TicksTyped
      <4>3. ticks'[k].due = IF Terminal \in Work!Active THEN {}
                            ELSE { u \in Stages : Trigger[u] \in Work!Active }
        BY <1>0, <4>1, <4>2 DEF Work!BuildContexts, TicksTyped, TickShape
      <4>4. s \in Stages /\ ~Past(s)
        BY <1>0, <3>3, <4>3, DueIsGood
      <4>5. UNCHANGED <<time, log, events>>
        BY <4>1 DEF Work!BuildContexts
      <4>6. ~Past(s)'
        BY <4>4, <4>5 DEF Past, First, Stale
      <4> QED
        BY <3>3, <4>6 DEF EndedKept, Held
    <3> QED
      BY <3>1, <3>2, <3>3
  <2> QED
    BY <2>2 DEF Alone
<1> QED
  <2>1. \/ UNCHANGED ticks /\ (Work!Cleared \/ UNCHANGED <<cache, ended>>)
        \/ \E k \in TickIds : Work!TickBegins(k) \/ Work!TickStep(k)
    BY DEF Work!Next, Work!Start, Work!StartReturns, Work!Stop, Work!Receive, Work!Tock, workVars
  <2> QED
    BY <1>1, <1>2, <1>3, <2>1

\* What keeps a stage from running twice.
WorkInv ==
  MarksInv /\ LogOrdered /\ EventsKept /\ EndedKept /\ TicksGood /\ Alone

\* WorkInvFirst: at first nothing came in and nothing ran.
LEMMA WorkInvFirst == ServicesInit => WorkInv
<1> SUFFICES ASSUME ServicesInit PROVE WorkInv
  OBVIOUS
<1>1. /\ log = {} /\ read = {} /\ events = {} /\ ended = {}
      /\ seenAt = Work!NoTimes(Work!Envelopes) /\ ticks = Work!NoTimes(TickIds)
  BY DEF ServicesInit, Work!Init
<1>2. LogOrdered /\ EventsKept /\ EndedKept
  BY <1>1 DEF LogOrdered, EventsKept, EndedKept, Work!NoTimes
<1>3. TicksGood /\ Alone
  BY <1>1 DEF TicksGood, Alone, Work!NoTimes
<1> QED
  BY <1>2, <1>3, WorkFirst DEF WorkInv

\* WorkInvKept: every step of the services keeps it.
LEMMA WorkInvKept == WorkInv /\ [ServicesNext]_servicesVars => WorkInv'
<1> SUFFICES ASSUME WorkInv, [ServicesNext]_servicesVars PROVE WorkInv'
  OBVIOUS
<1>1. MarksInv' /\ (Work!Next \/ UNCHANGED workVars)
  BY ShapeKept, WorkStep DEF WorkInv
<1>2. /\ WorkTyped /\ TicksTyped /\ LogTyped /\ WorkTyped' /\ LogTyped'
      /\ LogOrdered /\ EventsKept /\ EndedKept /\ TicksGood /\ Alone
  BY <1>1 DEF WorkInv, MarksInv, WorkTyped
<1>3. LogOrdered'
  BY <1>1, <1>2, LogOrderedKept
<1>4. EventsKept'
  BY <1>1, <1>2, EventsStep
<1>5. TicksGood'
  BY <1>1, <1>2, TicksGoodStep
<1>6. EndedKept'
  BY <1>1, <1>2, EndedStep
<1>7. Alone'
  BY <1>1, <1>2, <1>6, AloneStep
<1> QED
  BY <1>1, <1>3, <1>4, <1>5, <1>6, <1>7 DEF WorkInv

\* BeginsOnce: a tick that has the worker to itself begins no stage that ended.
LEMMA BeginsOnce ==
  ASSUME WorkInv, [ServicesNext]_servicesVars,
         NEW k \in TickIds, NEW s \in Stages, Work!Begins(k, s)
  PROVE  s \notin ended
<1>1. /\ ticks[k] # None /\ ticks[k].at # "call" /\ ticks[k].alone
      /\ ticks'[k] # None /\ ticks'[k].at = "call" /\ ticks'[k].stage = s
  BY DEF Work!Begins
<1>2. TicksTyped /\ Alone /\ (Work!Next \/ UNCHANGED workVars)
  BY WorkStep DEF WorkInv, MarksInv, WorkTyped
<1>3. Work!TickStep(k)
  <2>1. ASSUME NEW j \in TickIds, Work!TickBegins(j) PROVE FALSE
    <3>1. CASE j = k
      BY <1>1, <2>1, <3>1 DEF Work!TickBegins
    <3>2. CASE j # k
      <4>1. ticks'[k] = [ticks[k] EXCEPT !.alone = FALSE]
        BY <1>1, <2>1, <3>2 DEF Work!TickBegins
      <4>2. ticks[k] \in TickShape
        BY <1>1, <1>2 DEF TicksTyped
      <4> QED
        BY <1>1, <4>1, <4>2 DEF TickShape
    <3> QED
      BY <3>1, <3>2
  <2>2. ASSUME NEW j \in TickIds \ {k}, Work!TickStep(j) PROVE FALSE
    BY <1>1, <1>2, <2>2, TickShaped
  <2>3. ~UNCHANGED ticks
    BY <1>1
  <2> QED
    BY <1>2, <2>1, <2>2, <2>3
    DEF Work!Next, Work!Start, Work!StartReturns, Work!Stop, Work!Receive, Work!Tock, workVars
<1>4. Work!RunStage(k, s)
  BY <1>1, <1>2, <1>3, TickShaped
<1>5. /\ ticks[k].at = "stages" /\ s \in ticks[k].due
      /\ cache.done[s] = None /\ cache.aborted = None
  BY <1>4 DEF Work!RunStage, Work!CanRunStage
<1> QED
  BY <1>1, <1>2, <1>5 DEF Alone

\* While the worker runs, a stage that succeeded or that an abort put an end to is not
\* run again, for any stages, envelopes, repetitions and ticks, whatever is pruned
\* (tradeAuto.js:965-1066, 717-746).
THEOREM RunsOnce == ServicesSpec => StagesRunOnce
<1>1. WorkInv /\ [ServicesNext]_servicesVars
        => [\A k \in TickIds, s \in Stages : Work!Begins(k, s) => s \notin ended]_workVars
  BY BeginsOnce
<1> QED
  BY <1>1, WorkInvFirst, WorkInvKept, PTL
  DEF ServicesSpec, StagesRunOnce, Work!StagesRunOnce, Work!vars, workVars
=============================================================================
