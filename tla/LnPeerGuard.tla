----------------------------- MODULE LnPeerGuard -----------------------------
(***************************************************************************)
(* LnPeerGuard (src/src/prompt/lnPeerGuard.js): keeps the Lightning node   *)
(* connected to one peer.  The timer's ticks and forced ones are kept      *)
(* apart by a busy flag; a tick lists the peers, then perhaps probes and   *)
(* connects.  The node and the network are external.                       *)
(***************************************************************************)
EXTENDS Integers

CONSTANTS Cooldown, \* reconnectCooldownMs, in intervals of the timer
          Horizon,  \* bound on the clock
          None

VARIABLES time,
          running,
          tick,         \* the tick under way (_busy), or None
          wasConnected,
          lastAttempt,  \* _lastConnectAttemptAt
          seen          \* history: found connected since the last attempt

vars == <<time, running, tick, wasConnected, lastAttempt, seen>>

Init ==
  /\ time = 0
  /\ running = FALSE
  /\ tick = None
  /\ wasConnected = FALSE
  /\ lastAttempt = -Cooldown
  /\ seen = FALSE

TickBegins(force) ==
  IF tick = None THEN tick' = [at |-> "list", now |-> time, force |-> force]
                 ELSE UNCHANGED tick

\* start runs a tick at once.
Start ==
  /\ ~running /\ running' = TRUE
  /\ TickBegins(FALSE)
  /\ UNCHANGED <<time, wasConnected, lastAttempt, seen>>

\* stop clears the timer; a tick under way goes on.
Stop ==
  /\ running /\ running' = FALSE
  /\ UNCHANGED <<time, tick, wasConnected, lastAttempt, seen>>

\* The timer fires once in every unit of time.
Interval ==
  /\ time < Horizon /\ time' = time + 1
  /\ IF running THEN TickBegins(FALSE) ELSE UNCHANGED tick
  /\ UNCHANGED <<running, wasConnected, lastAttempt, seen>>

Force ==
  /\ tick = None
  /\ TickBegins(TRUE)
  /\ UNCHANGED <<time, running, wasConnected, lastAttempt, seen>>

CooldownOver == tick.now - lastAttempt >= Cooldown

\* The peers are listed, and the peer is one of them.
Connected ==
  /\ tick # None /\ tick.at = "list"
  /\ tick' = None
  /\ wasConnected' = TRUE /\ seen' = TRUE
  /\ UNCHANGED <<time, running, lastAttempt>>

Attempts ==
  /\ tick # None /\ tick.at = "list"
  /\ tick.force \/ wasConnected \/ CooldownOver
  /\ tick' = [tick EXCEPT !.at = "probe"]
  /\ lastAttempt' = tick.now
  /\ seen' = FALSE
  /\ UNCHANGED <<time, running, wasConnected>>

CoolsDown ==
  /\ tick # None /\ tick.at = "list"
  /\ ~(tick.force \/ wasConnected \/ CooldownOver)
  /\ tick' = None
  /\ wasConnected' = FALSE
  /\ UNCHANGED <<time, running, lastAttempt, seen>>

ListFails ==
  /\ tick # None /\ tick.at = "list"
  /\ tick' = None
  /\ wasConnected' = FALSE
  /\ UNCHANGED <<time, running, lastAttempt, seen>>

\* Mutant: a probe that fails leaves the flag as it was.
StillConnected(ok) == wasConnected \/ ok

ConnectedAfter(ok) == ok

\* lnPeerProbe found it connected, or connecting said so: ok.
ProbeReturns(ok) ==
  /\ tick # None /\ tick.at = "probe"
  /\ tick' = None
  /\ wasConnected' = ConnectedAfter(ok)
  /\ seen' = ok
  /\ UNCHANGED <<time, running, lastAttempt>>

Next ==
  \/ Start \/ Stop \/ Interval \/ Force
  \/ Connected \/ Attempts \/ CoolsDown \/ ListFails
  \/ \E ok \in BOOLEAN : ProbeReturns(ok)

Spec == Init /\ [][Next]_vars

-----------------------------------------------------------------------------
TypeOK ==
  /\ time \in 0 .. Horizon
  /\ running \in BOOLEAN /\ wasConnected \in BOOLEAN /\ seen \in BOOLEAN
  /\ tick \in {None} \cup [at : {"list", "probe"}, now : 0 .. Horizon, force : BOOLEAN]
  /\ lastAttempt \in (-Cooldown) .. Horizon

\* Ticks that attempt to reconnect begin a cooldown apart, unless the peer was
\* found connected in between or the tick is forced: not after an error, a probe
\* that fails, a stop and a start, or a tick that lasted long
\* (lnPeerGuard.js:234-315).  It is the ticks, not the connects, that are apart:
\* the time is read before the peers are listed.
AttemptsApart ==
  [][lastAttempt' # lastAttempt /\ ~tick.force /\ ~seen
       => lastAttempt' - lastAttempt >= Cooldown]_vars
=============================================================================
