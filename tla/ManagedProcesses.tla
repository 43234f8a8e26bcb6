-------------------------- MODULE ManagedProcesses --------------------------
(***************************************************************************)
(* The operating-system processes the backend starts and stops by name:    *)
(* peers (src/src/peer/peerManager.js), RFQ bots (src/src/rfq/botManager.js)*)
(* and the local Solana validator                                          *)
(* (src/src/solana/localValidatorManager.js).  What the backend knows of   *)
(* them is on disk: a pid file and a json file per name.                   *)
(*                                                                         *)
(* Processes are external: one may die at any moment, and obeys SIGTERM or *)
(* SIGINT when it likes; SIGKILL counts as its death.  The system does not *)
(* hand out the pid of a dead process while a pid file still names it.     *)
(***************************************************************************)
CONSTANTS PeerNames, BotNames, ValidatorNames,
          Stores,   \* peer stores; two processes on one store corrupt it
          Pids,     \* bound on the processes at one time
          Callers,  \* tool calls at one time
          Crossable,\* bound on the names about which calls overlap
          None

VARIABLES procs,    \* procs[p]: the live process p, or None
          pidFile,  \* pidFile[n]: the pid on disk, or None
          config,   \* config[n]: the store in the json file, or None
          waits,    \* waits[w]: the process call w waits for, or None
          crossed   \* history: the names a call began about while another waited

vars == <<procs, pidFile, config, waits, crossed>>

ProcNames == PeerNames \cup BotNames \cup ValidatorNames

Init ==
  /\ procs = [p \in Pids |-> None]
  /\ pidFile = [n \in ProcNames |-> None]
  /\ config = [n \in ProcNames |-> None]
  /\ waits = [w \in Callers |-> None]
  /\ crossed = {}

IsAlive(p) == p # None /\ procs[p] # None

\* Nothing keeps two calls about one name apart.
MayCall(w, n) ==
  /\ waits[w] = None /\ w = CHOOSE v \in Callers : waits[v] = None
  /\ n \in Crossable \/ \A v \in Callers : waits[v] # None => waits[v].name # n
  /\ crossed' = IF \E v \in Callers : waits[v] # None /\ waits[v].name = n
                  THEN crossed \cup {n} ELSE crossed

FreshPids ==
  { p \in Pids : /\ procs[p] = None
                 /\ \A n \in ProcNames : pidFile[n] # p
                 /\ \A w \in Callers : waits[w] # None => waits[w].pid # p }

Alive(n, s) == [name |-> n, store |-> s, status |-> "running"]

\* spawn, then the pid and the json file.  The wait for the TCP port that
\* follows changes nothing.
Spawned(n, s) ==
  /\ FreshPids # {}
  /\ LET p == CHOOSE q \in FreshPids : TRUE
     IN  /\ procs' = [procs EXCEPT ![p] = Alive(n, s)]
         /\ pidFile' = [pidFile EXCEPT ![n] = p]
         /\ config' = [config EXCEPT ![n] = s]

-----------------------------------------------------------------------------
(* Peers *)

\* ensureStoreNotRunningElsewhere
Elsewhere(n, s) ==
  \E m \in PeerNames \ {n} : config[m] = s /\ IsAlive(pidFile[m])

\* Mutant: only the instance's own pid file is looked at.
NoOther(n, s) == ~IsAlive(pidFile[n])

\* Neither the store nor the name runs.
MayStart(n, s) == ~Elsewhere(n, s) /\ ~IsAlive(pidFile[n])

PeerStart(w, n, s) ==
  /\ MayCall(w, n) /\ n \in PeerNames
  /\ MayStart(n, s)
  /\ Spawned(n, s)
  /\ UNCHANGED waits

Stopping(n, again) ==
  [pid |-> pidFile[n], name |-> n, next |-> again, store |-> config[n]]

Signalled(p) == [procs EXCEPT ![p].status = "ending"]

\* peerStop and rfqbotStop, up to waitForExit; peerRestart and rfqbotRestart
\* read the json file first.
Stop(w, n, again) ==
  /\ MayCall(w, n) /\ n \in PeerNames \cup BotNames
  /\ IsAlive(pidFile[n])
  /\ again => config[n] # None
  /\ procs' = Signalled(pidFile[n])
  /\ waits' = [waits EXCEPT ![w] = Stopping(n, IF again THEN "start" ELSE "return")]
  /\ UNCHANGED <<pidFile, config>>

\* A stop, or the stop of a restart, that finds no live process.
StopDead(w, n) ==
  /\ MayCall(w, n)
  /\ pidFile[n] # None /\ ~IsAlive(pidFile[n])
  /\ pidFile' = [pidFile EXCEPT ![n] = None]
  /\ UNCHANGED <<procs, config, waits>>

\* Mutant: a process that ignores the signal is left alone.
NotKilled(p) == procs

\* SIGKILL, if the process has not exited in time.
Killed(p) == [procs EXCEPT ![p] = None]

\* waitForExit ends, with the process gone or out of patience; the pid file is
\* unlinked, whatever pid it holds by now.
StopReturns(w) ==
  /\ waits[w] # None /\ waits[w].next \in {"return", "start"}
  /\ procs' = Killed(waits[w].pid)
  /\ pidFile' = [pidFile EXCEPT ![waits[w].name] = None]
  /\ waits' = [waits EXCEPT ![w] = IF @.next = "start" THEN [@ EXCEPT !.next = "spawn"]
                                                       ELSE None]
  /\ UNCHANGED <<config, crossed>>

\* The second half of a restart, with the store read before the stop.
Restarted(w) ==
  LET n == waits[w].name
      s == waits[w].store
  IN  /\ waits[w] # None /\ waits[w].next = "spawn"
      /\ IF n \in BotNames \/ MayStart(n, s)
           THEN Spawned(n, s)
           ELSE UNCHANGED <<procs, pidFile, config>>
      /\ waits' = [waits EXCEPT ![w] = None]
      /\ UNCHANGED crossed

-----------------------------------------------------------------------------
(* RFQ bots: a start never looks for a running bot of the same name. *)

BotStart(w, n, s) ==
  /\ MayCall(w, n) /\ n \in BotNames
  /\ Spawned(n, s)
  /\ UNCHANGED waits

-----------------------------------------------------------------------------
(* The local validator *)

\* Nothing alive: a start spawns.
ValidatorStart(w, n, s) ==
  /\ MayCall(w, n) /\ n \in ValidatorNames
  /\ ~IsAlive(pidFile[n])
  /\ Spawned(n, s)
  /\ UNCHANGED waits

\* A stop signals and waits; so does a start that finds a validator whose port
\* stays closed, to spawn another one afterwards.
ValidatorSignal(w, n, again) ==
  /\ MayCall(w, n) /\ n \in ValidatorNames
  /\ IsAlive(pidFile[n])
  /\ procs' = Signalled(pidFile[n])
  /\ waits' = [waits EXCEPT ![w] =
                 Stopping(n, IF again THEN "respawn" ELSE "leave")]
  /\ UNCHANGED <<pidFile, config>>

\* No SIGKILL: a validator that ignores the signal runs on without a pid file.
ValidatorSignalReturns(w) ==
  LET n == waits[w].name
  IN  /\ waits[w] # None /\ waits[w].next \in {"leave", "respawn"}
      /\ \/ /\ waits[w].next = "leave"
            /\ pidFile' = [pidFile EXCEPT ![n] = None]
            /\ UNCHANGED <<procs, config>>
         \/ /\ waits[w].next = "respawn"
            /\ Spawned(n, waits[w].store)
      /\ waits' = [waits EXCEPT ![w] = None]
      /\ UNCHANGED crossed

-----------------------------------------------------------------------------
(* The environment *)

Dies(p) ==
  /\ procs[p] # None
  /\ procs' = [procs EXCEPT ![p] = None]
  /\ UNCHANGED <<pidFile, config, waits, crossed>>

\* The backend dies; the processes are detached and the files stay.
BackendRestarts ==
  /\ \E w \in Callers : waits[w] # None
  /\ waits' = [w \in Callers |-> None]
  /\ UNCHANGED <<procs, pidFile, config, crossed>>

Next ==
  \/ \E w \in Callers :
       \/ \E n \in ProcNames :
            \/ \E s \in Stores :
                 \/ PeerStart(w, n, s)
                 \/ BotStart(w, n, s)
                 \/ ValidatorStart(w, n, s)
            \/ \E again \in BOOLEAN : Stop(w, n, again) \/ ValidatorSignal(w, n, again)
            \/ StopDead(w, n)
       \/ StopReturns(w)
       \/ Restarted(w)
       \/ ValidatorSignalReturns(w)
  \/ \E p \in Pids : Dies(p)
  \/ BackendRestarts

Spec == Init /\ [][Next]_vars

-----------------------------------------------------------------------------
TypeOK ==
  /\ procs \in [Pids -> [name : ProcNames, store : Stores,
                         status : {"running", "ending"}] \cup {None}]
  /\ pidFile \in [ProcNames -> Pids \cup {None}]
  /\ config \in [ProcNames -> Stores \cup {None}]
  /\ waits \in [Callers -> {None} \cup
        [pid : Pids, name : ProcNames, store : Stores,
         next : {"return", "start", "spawn", "leave", "respawn"}]]
  /\ crossed \subseteq ProcNames

Peer(p) == procs[p] # None /\ procs[p].name \in PeerNames

\* No call about the process's name began while another waited.
Clean(p) == procs[p].name \notin crossed

\* Two peer processes run on one store, whatever names they were started under
\* and whatever stops, restarts and deaths come between, only where calls about
\* one of those names crossed (peerManager.js:200 ensureStoreNotRunningElsewhere).
OneProcessPerStore ==
  \A p, q \in Pids :
    /\ Peer(p) /\ Peer(q) /\ Clean(p) /\ Clean(q)
    /\ procs[p].store = procs[q].store
    => p = q

\* A peer that lives, and a validator nobody has signalled, can be found and
\* stopped: its pid is in the pid file of its name (peerManager.js:337, 387),
\* unless calls about that name crossed.
RunningIsRecorded ==
  \A p \in Pids :
    /\ Peer(p) /\ Clean(p) => pidFile[procs[p].name] = p
    /\ procs[p] # None /\ procs[p].name \in ValidatorNames /\ Clean(p)
         /\ procs[p].status = "running" => pidFile[procs[p].name] = p
=============================================================================
