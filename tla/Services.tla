------------------------------ MODULE Services ------------------------------
(***************************************************************************)
(* The services beside the trades, each on its own: a behaviour is one of  *)
(* the component that "which" names, and the others keep still.  They      *)
(* share nothing but the bound on tool calls at one time.                  *)
(***************************************************************************)
EXTENDS ManagedProcesses, Integers, FiniteSets

CONSTANTS Jobs, OfferJobs, Names, NameOf, Lines, AmountOf, Expiry,
          AutoHorizon,                                   \* Autopost
          Stages, Trigger, Terminal, EventMaxAge, DoneMaxAge, ReplayFor, RetryMax,
          StageCooldown, TickIds, MaxSessions, MaxLog,
          WorkHorizon,                                   \* TradeWorker
          Clients, Channels, MidConnect,                 \* BridgeClient
          N,                                             \* RpcPool
          GuardCooldown, GuardHorizon                    \* LnPeerGuard

\* None is none of the values it stands in for.
ASSUME NoneAssumption ==
  /\ None \notin [at : {"list", "probe"}, now : 0 .. GuardHorizon, force : BOOLEAN]
  /\ None \notin Clients /\ None \notin Names /\ None \notin Jobs
  /\ None \notin 0 .. WorkHorizon
  /\ None \notin [at : {"keepalive", "info", "stages", "call", "over"},
                  session : 1 .. MaxSessions, due : SUBSET Stages,
                  stage : Stages \cup {None}, alone : BOOLEAN]

\* The lines of an offer are numbered (autopost.js:158-177).
ASSUME AutoAssumption ==
  /\ NameOf \in [Jobs -> Names] /\ Expiry \in [Jobs -> Int]
  /\ Lines \subseteq Int /\ IsFiniteSet(Lines) /\ IsFiniteSet(Jobs)

\* rpcPool.js:44 refuses an empty list of urls.
ASSUME SizesAssumption ==
  /\ N \in Nat \ {0}
  /\ GuardCooldown \in Nat /\ GuardHorizon \in Nat
  /\ {AutoHorizon, WorkHorizon, MaxSessions, RetryMax, StageCooldown} \subseteq Nat

\* What is done is remembered for longer than an envelope repeats and stays fresh:
\* by default 40 minutes (tradeAuto.js:479-483) against 40 replays of 6 seconds
\* (tradeAuto.js:509-518) and 10 minutes (tradeAuto.js:457).
ASSUME AgesAssumption ==
  /\ {EventMaxAge, ReplayFor, DoneMaxAge} \subseteq Nat
  /\ ReplayFor + EventMaxAge <= DoneMaxAge

VARIABLES which,
          clock, table, job, claimed, progressed,
          time, log, worker, ticks, read, events, seenAt, cache, ended,
          client, current, connecting, marked, call, slipped,
          preferred, poolCall,
          guardTime, running, tick, wasConnected, lastAttempt, seen

Posts == INSTANCE Autopost WITH Horizon <- AutoHorizon, NoJob <- None

Work == INSTANCE TradeWorker WITH Cooldown <- StageCooldown, Horizon <- WorkHorizon

Bridge == INSTANCE BridgeClient

Pool == INSTANCE RpcPool WITH call <- poolCall

Guard == INSTANCE LnPeerGuard WITH
  Cooldown <- GuardCooldown, Horizon <- GuardHorizon, time <- guardTime

autoVars == <<clock, table, job, claimed, progressed>>
workVars == <<time, log, worker, ticks, read, events, seenAt, cache, ended>>
bridgeVars == <<client, current, connecting, marked, call, slipped>>
poolVars == <<preferred, poolCall>>
guardVars == <<guardTime, running, tick, wasConnected, lastAttempt, seen>>

servicesVars == <<which, autoVars, vars, workVars, bridgeVars, poolVars, guardVars>>

ServicesInit ==
  /\ which \in {"autopost", "processes", "worker", "bridge", "pool", "guard"}
  /\ Posts!Init /\ Init /\ Work!Init /\ Bridge!Init /\ Pool!Init /\ Guard!Init

\* A step of one component.
OnlyAuto ==
  /\ which = "autopost"
  /\ UNCHANGED <<which, vars, workVars, bridgeVars, poolVars, guardVars>>

OnlyProcs ==
  /\ which = "processes"
  /\ UNCHANGED <<which, autoVars, workVars, bridgeVars, poolVars, guardVars>>

OnlyWork ==
  /\ which = "worker"
  /\ UNCHANGED <<which, autoVars, vars, bridgeVars, poolVars, guardVars>>

OnlyBridge ==
  /\ which = "bridge"
  /\ UNCHANGED <<which, autoVars, vars, workVars, poolVars, guardVars>>

OnlyPool ==
  /\ which = "pool"
  /\ UNCHANGED <<which, autoVars, vars, workVars, bridgeVars, guardVars>>

OnlyGuard ==
  /\ which = "guard"
  /\ UNCHANGED <<which, autoVars, vars, workVars, bridgeVars, poolVars>>

ServicesNext ==
  \/ OnlyAuto /\ Posts!Next
  \/ OnlyProcs /\ Next
  \/ OnlyWork /\ Work!Next
  \/ OnlyBridge /\ Bridge!Next
  \/ OnlyPool /\ Pool!Next
  \/ OnlyGuard /\ Guard!Next

\* The fairness of Autopost and of TradeWorker, where they run.
Fairness ==
  /\ WF_servicesVars(OnlyAuto /\ Posts!Tick)
  /\ \A j \in Jobs : WF_servicesVars(OnlyAuto /\ Posts!Fire(j))
  /\ \A k \in TickIds : WF_servicesVars(OnlyWork /\ Work!TickStep(k))

ServicesSpec == ServicesInit /\ [][ServicesNext]_servicesVars /\ Fairness

-----------------------------------------------------------------------------
\* The values of every component keep their shape.
ShapesKept ==
  TypeOK /\ Posts!TypeOK /\ Work!TypeOK /\ Bridge!TypeOK /\ Pool!TypeOK /\ Guard!TypeOK

\* Autopost: a run that reads all its receipts posts nothing expired, taken or sold.
PostsOnlyOpen == Posts!PostsOnlyOpen

\* Autopost: the operator can stop every job that has a timer.
Stoppable == Posts!Stoppable

\* Autopost: every timer is cleared in the end.
TimersEnd == Posts!TimersEnd

\* Worker: a stage that succeeded, or whose trade was aborted, is not run again.
StagesRunOnce == Work!StagesRunOnce

\* Worker: a stage marked in flight is awaited.
MarksBacked == Work!MarksBacked

\* Worker: the flag that keeps ticks apart is given back.
FlagReleased == Work!FlagReleased

\* Bridge: a message enters the log once.
OneFeed == Bridge!OneFeed

\* Bridge: marked channels the peer has not refused or dropped are subscribed, or being
\* subscribed, after reconnects.
SubscriptionsKept == Bridge!SubscriptionsKept

\* Pool: a call fails only once it has tried every endpoint.
EveryUrlTried == Pool!EveryUrlTried

\* Guard: attempts to reconnect are a cooldown apart.
AttemptsApart == Guard!AttemptsApart
=============================================================================
