----------------------- MODULE ManagedProcessesProofs -----------------------
(***************************************************************************)
(* For any number of names, stores, processes and calls, any of which may  *)
(* cross: of the names about which no call began while another waited, no  *)
(* two peers run on one store, and no peer is lost from its pid file.      *)
(*                                                                         *)
(* The argument: the files know every live peer of such a name             *)
(* (RunningIsRecorded, StoreKnown), so a start sees whatever it may collide *)
(* with; a stop that waits still finds its pid in the file it unlinks      *)
(* (WaitsKept), because no other call writes that file meanwhile           *)
(* (WaitsApart) and the pid is not handed out again.  A crossing gives up  *)
(* what is said of its own name and of no other.                           *)
(***************************************************************************)
EXTENDS ManagedProcesses, TLAPS

Waits == [pid : Pids, name : ProcNames, store : Stores,
          next : {"return", "start", "spawn", "leave", "respawn"}]

Kinds ==
  /\ PeerNames \cap BotNames = {} /\ PeerNames \cap ValidatorNames = {}
  /\ BotNames \cap ValidatorNames = {}
  /\ None \notin Pids /\ None \notin Stores /\ None \notin Waits
  /\ None \notin [name : ProcNames, store : Stores, status : {"running", "ending"}]

\* A pid file comes with a json file.
Written == \A n \in ProcNames : pidFile[n] # None => config[n] # None

StoreKnown ==
  \A p \in Pids : Peer(p) /\ Clean(p) => config[procs[p].name] = procs[p].store

WaitsApart ==
  \A v, w \in Callers :
    /\ waits[v] # None /\ waits[w] # None
    /\ waits[v].name = waits[w].name /\ waits[v].name \notin crossed
    => v = w

WaitsKept ==
  \A w \in Callers :
    waits[w] # None /\ waits[w].next # "spawn" /\ waits[w].name \notin crossed =>
      pidFile[waits[w].name] = waits[w].pid

Ending(p) == procs[p] # None => procs[p].status = "ending"

\* Who waits for what; a validator that is waited for has been signalled.
WaitsSignalled ==
  \A w \in Callers : waits[w] # None =>
    IF waits[w].next \in {"leave", "respawn"}
      THEN waits[w].name \in ValidatorNames /\ Ending(waits[w].pid)
      ELSE waits[w].name \in PeerNames \cup BotNames

Procs == [name : ProcNames, store : Stores, status : {"running", "ending"}]

FilesTyped ==
  /\ procs \in [Pids -> Procs \cup {None}]
  /\ pidFile \in [ProcNames -> Pids \cup {None}]
  /\ config \in [ProcNames -> Stores \cup {None}]

WaitsTyped == waits \in [Callers -> {None} \cup Waits] /\ crossed \subseteq ProcNames

FilesInv ==
  FilesTyped /\ Written /\ RunningIsRecorded /\ StoreKnown /\ OneProcessPerStore

WaitsInv == WaitsTyped /\ WaitsApart /\ WaitsKept /\ WaitsSignalled

IInv == FilesInv /\ WaitsInv

-----------------------------------------------------------------------------
\* Typed: what IInv says of types is the module's TypeOK.
LEMMA Typed == IInv => TypeOK
BY DEF IInv, FilesInv, WaitsInv, FilesTyped, WaitsTyped, Procs, Waits, TypeOK

\* What the files must find: a live peer, or a validator nobody has signalled, of
\* a name about which no calls crossed.
Sought(p) ==
  /\ Clean(p)
  /\ \/ Peer(p)
     \/ /\ procs[p] # None /\ procs[p].name \in ValidatorNames
        /\ procs[p].status = "running"

\* Names are added to those that crossed.
MoreCrossed == crossed \subseteq crossed' /\ crossed' \subseteq ProcNames

\* SoughtFound: the same, said of Sought.
LEMMA SoughtFound ==
  RunningIsRecorded <=> \A p \in Pids : Sought(p) => pidFile[procs[p].name] = p
BY DEF RunningIsRecorded, Sought

\* SpawnTyped: a new process takes a pid that nobody has or names.
LEMMA SpawnTyped ==
  ASSUME NEW n, NEW s, Spawned(n, s)
  PROVE  \E p \in FreshPids :
           /\ procs' = [procs EXCEPT ![p] = Alive(n, s)]
           /\ pidFile' = [pidFile EXCEPT ![n] = p]
           /\ config' = [config EXCEPT ![n] = s]
<1>1. (CHOOSE q \in FreshPids : TRUE) \in FreshPids
  BY DEF Spawned
<1> QED
  BY <1>1 DEF Spawned

\* NotAlive: nobody is sought whose name has a dead pid, or none, in its file.
LEMMA NotAlive ==
  ASSUME Kinds, IInv, NEW n \in ProcNames, ~IsAlive(pidFile[n]), NEW p \in Pids, Sought(p)
  PROVE  procs[p].name # n
<1>1. pidFile[procs[p].name] = p
  BY SoughtFound DEF IInv, FilesInv
<1>2. procs[p] # None /\ p # None
  BY DEF Sought, Peer, Kinds
<1> QED
  BY <1>1, <1>2 DEF IsAlive

\* SpawnKeepsFiles: a process spawned under a name nobody sought has, on a store
\* no peer that is sought has if it is a peer, leaves the files in order.
LEMMA SpawnKeepsFiles ==
  ASSUME Kinds, IInv, NEW n \in ProcNames, NEW s \in Stores, Spawned(n, s), MoreCrossed,
         \A p \in Pids : Sought(p) => procs[p].name # n,
         n \in PeerNames => \A p \in Pids : Peer(p) /\ Clean(p) => procs[p].store # s
  PROVE  FilesInv'
<1>1. PICK p \in FreshPids :
           /\ procs' = [procs EXCEPT ![p] = Alive(n, s)]
           /\ pidFile' = [pidFile EXCEPT ![n] = p]
           /\ config' = [config EXCEPT ![n] = s]
  BY SpawnTyped
<1>2. p \in Pids /\ procs[p] = None
  BY <1>1 DEF FreshPids
<1>3. FilesTyped
  BY DEF IInv, FilesInv
<1>4. Alive(n, s) \in Procs /\ Alive(n, s) # None
  BY DEF Alive, Procs, Kinds
<1>5. FilesTyped'
  BY <1>1, <1>2, <1>3, <1>4 DEF FilesTyped
<1>6. Written'
  BY <1>1, <1>2, <1>3 DEF IInv, FilesInv, FilesTyped, Written, Kinds
<1>7. ASSUME NEW q \in Pids, q # p
      PROVE  /\ procs'[q] = procs[q] /\ (Sought(q)' => Sought(q))
             /\ (Peer(q)' <=> Peer(q)) /\ (Clean(q)' => Clean(q))
  BY <1>1, <1>2, <1>3, <1>7 DEF FilesTyped, Sought, Peer, Clean, MoreCrossed
<1>8. procs'[p] = Alive(n, s) /\ procs'[p].name = n /\ procs'[p].store = s
  BY <1>1, <1>2, <1>3 DEF FilesTyped, Alive
<1>9. ASSUME NEW q \in Pids, q # p, Sought(q)
      PROVE  procs[q].name # n /\ procs[q].name \in ProcNames
  BY <1>3, <1>9 DEF FilesTyped, Sought, Peer, Procs
<1>10. ASSUME NEW q \in Pids, Sought(q)'
       PROVE  pidFile'[procs'[q].name] = q
  <2>1. CASE q = p
    BY <1>1, <1>3, <1>8, <2>1 DEF FilesTyped
  <2>2. CASE q # p
    <3>1. pidFile[procs[q].name] = q
      BY <1>7, <1>10, <2>2, SoughtFound DEF IInv, FilesInv
    <3> QED
      BY <1>1, <1>3, <1>7, <1>9, <1>10, <2>2, <3>1 DEF FilesTyped
  <2> QED
    BY <2>1, <2>2
<1>11. RunningIsRecorded'
  BY <1>10 DEF RunningIsRecorded, Sought
<1>12. StoreKnown'
  <2> SUFFICES ASSUME NEW q \in Pids, Peer(q)', Clean(q)'
               PROVE  config'[procs'[q].name] = procs'[q].store
    BY DEF StoreKnown
  <2>1. CASE q = p
    BY <1>1, <1>3, <1>8, <2>1 DEF FilesTyped
  <2>2. CASE q # p
    <3>1. config[procs[q].name] = procs[q].store /\ Sought(q)
      BY <1>7, <2>2 DEF IInv, FilesInv, StoreKnown, Sought
    <3> QED
      BY <1>1, <1>3, <1>7, <1>9, <2>2, <3>1 DEF FilesTyped
  <2> QED
    BY <2>1, <2>2
<1>13. OneProcessPerStore'
  <2> SUFFICES ASSUME NEW q \in Pids, NEW r \in Pids, Peer(q)', Peer(r)',
                      Clean(q)', Clean(r)', procs'[q].store = procs'[r].store
               PROVE  q = r
    BY DEF OneProcessPerStore
  <2>1. CASE q # p /\ r # p
    BY <1>7, <2>1 DEF IInv, FilesInv, OneProcessPerStore
  <2>2. ASSUME NEW x \in Pids, x # p, Peer(x)', Clean(x)', Peer(p)',
               procs'[x].store = s
        PROVE  FALSE
    BY <1>7, <1>8, <2>2 DEF Peer
  <2> QED
    BY <1>2, <1>8, <2>1, <2>2
<1> QED
  BY <1>5, <1>6, <1>11, <1>12, <1>13 DEF FilesInv

\* SpawnKeepsWaits: it touches no process that is waited for, and no file of
\* another name.
LEMMA SpawnKeepsWaits ==
  ASSUME Kinds, IInv, NEW n \in ProcNames, NEW s \in Stores, Spawned(n, s),
         NEW w \in Callers, waits[w] # None
  PROVE  /\ waits[w].name # n => pidFile'[waits[w].name] = pidFile[waits[w].name]
         /\ procs'[waits[w].pid] = procs[waits[w].pid]
<1>1. PICK p \in FreshPids :
           /\ procs' = [procs EXCEPT ![p] = Alive(n, s)]
           /\ pidFile' = [pidFile EXCEPT ![n] = p]
  BY SpawnTyped
<1>2. p \in Pids /\ waits[w].pid # p
  BY <1>1 DEF FreshPids
<1>3. waits[w] \in Waits /\ FilesTyped
  BY DEF IInv, FilesInv, WaitsInv, WaitsTyped
<1>4. waits[w].name \in ProcNames /\ waits[w].pid \in Pids
  BY <1>3 DEF Waits
<1> QED
  BY <1>1, <1>2, <1>3, <1>4 DEF FilesTyped

\* ShrinkKeepsFiles: so do steps that end or signal processes, and unlink a pid
\* file only where nobody is left to be sought.
LEMMA ShrinkKeepsFiles ==
  ASSUME Kinds, IInv, FilesTyped', config' = config, MoreCrossed,
         \A p \in Pids : procs'[p] # None =>
           /\ procs[p] # None
           /\ procs'[p].name = procs[p].name /\ procs'[p].store = procs[p].store
           /\ procs'[p].status = "running" => procs[p].status = "running",
         \A n \in ProcNames : pidFile'[n] # pidFile[n] =>
           /\ pidFile'[n] = None
           /\ \A p \in Pids : Sought(p) /\ procs'[p] # None => procs[p].name # n
  PROVE  FilesInv'
<1>1. ASSUME NEW p \in Pids
      PROVE  /\ Peer(p)' /\ Clean(p)' => Clean(p)
             /\ Peer(p)' => /\ Peer(p) /\ procs'[p].name = procs[p].name
                            /\ procs'[p].store = procs[p].store
             /\ Sought(p)' => /\ Sought(p) /\ procs'[p].name = procs[p].name
                              /\ procs'[p] # None
             /\ Sought(p) => procs[p].name \in ProcNames
  <2>1. FilesTyped
    BY DEF IInv, FilesInv
  <2> QED
    BY <2>1 DEF FilesTyped, Procs, Peer, Sought, Clean, MoreCrossed
<1>2. Written'
  BY DEF IInv, FilesInv, Written
<1>3. ASSUME NEW p \in Pids, Sought(p)' PROVE pidFile'[procs'[p].name] = p
  BY <1>1, <1>3, SoughtFound DEF IInv, FilesInv
<1>4. RunningIsRecorded'
  BY <1>3 DEF RunningIsRecorded, Sought
<1>5. StoreKnown'
  BY <1>1 DEF IInv, FilesInv, StoreKnown
<1>6. OneProcessPerStore'
  BY <1>1 DEF IInv, FilesInv, OneProcessPerStore
<1> QED
  BY <1>2, <1>4, <1>5, <1>6 DEF FilesInv

\* What a step leaves of the file and the process a call waits for.
Undisturbed(x) ==
  /\ x.next # "spawn" /\ x.name \notin crossed' => pidFile'[x.name] = x.pid
  /\ x.next \in {"leave", "respawn"} =>
       (procs'[x.pid] # None => procs'[x.pid].status = "ending")

Placed(x) ==
  IF x.next \in {"leave", "respawn"} THEN x.name \in ValidatorNames
                                     ELSE x.name \in PeerNames \cup BotNames

\* OneWaits: a step of one call keeps what is said of the calls that wait, if
\* the others are undisturbed and it waits for a name of its own.
LEMMA OneWaits ==
  ASSUME IInv, NEW w \in Callers, NEW x \in {None} \cup Waits, MoreCrossed,
         waits' = [waits EXCEPT ![w] = x],
         \A v \in Callers : v # w /\ waits[v] # None => Undisturbed(waits[v]),
         x # None => /\ Undisturbed(x) /\ Placed(x)
                     /\ \A v \in Callers : v # w /\ waits[v] # None =>
                          waits[v].name # x.name \/ x.name \in crossed'
  PROVE  WaitsInv'
<1>1. WaitsTyped
  BY DEF IInv, WaitsInv
<1>2. WaitsTyped'
  BY <1>1 DEF WaitsTyped, MoreCrossed
<1>3. ASSUME NEW v \in Callers
      PROVE  waits'[v] = IF v = w THEN x ELSE waits[v]
  BY <1>1, <1>3 DEF WaitsTyped
<1>4. ASSUME NEW v \in Callers, waits'[v] # None
      PROVE  Undisturbed(waits'[v]) /\ Placed(waits'[v])
  <2>1. CASE v = w
    BY <1>3, <1>4, <2>1
  <2>2. CASE v # w
    <3>1. Placed(waits[v])
      BY <1>3, <1>4, <2>2 DEF IInv, WaitsInv, WaitsSignalled, Placed
    <3> QED
      BY <1>3, <1>4, <2>2, <3>1
  <2> QED
    BY <2>1, <2>2
<1>5. WaitsApart'
  BY <1>3 DEF IInv, WaitsInv, WaitsApart, MoreCrossed
<1>6. WaitsKept'
  BY <1>4 DEF WaitsKept, Undisturbed
<1>7. WaitsSignalled'
  BY <1>4 DEF WaitsSignalled, Undisturbed, Placed, Ending
<1> QED
  BY <1>2, <1>5, <1>6, <1>7 DEF WaitsInv

-----------------------------------------------------------------------------
(* The steps *)

\* Others: a call waits for a name other than the one a new call is about, or the
\* two cross.
LEMMA Others ==
  ASSUME IInv, NEW w \in Callers, NEW n \in ProcNames, MayCall(w, n)
  PROVE  /\ waits[w] = None /\ MoreCrossed
         /\ \A v \in Callers : waits[v] # None => waits[v].name # n \/ n \in crossed'
BY DEF MayCall, MoreCrossed, IInv, WaitsInv, WaitsTyped

\* Untouched: nothing changes for a call that waits if its process stays, and its
\* file unless it crossed.
LEMMA Untouched ==
  ASSUME IInv, NEW v \in Callers, waits[v] # None, MoreCrossed,
         waits[v].name \notin crossed' =>
           pidFile'[waits[v].name] = pidFile[waits[v].name],
         \/ procs'[waits[v].pid] = procs[waits[v].pid]
         \/ procs'[waits[v].pid] = None
         \/ procs'[waits[v].pid].status = "ending"
  PROVE  Undisturbed(waits[v])
BY DEF IInv, WaitsInv, WaitsKept, WaitsSignalled, Undisturbed, Ending, MoreCrossed

\* WaitsStay: a step of no call keeps what is said of the calls, if it leaves
\* them undisturbed.
LEMMA WaitsStay ==
  ASSUME IInv, UNCHANGED waits, MoreCrossed,
         \A v \in Callers : waits[v] # None => Undisturbed(waits[v])
  PROVE  WaitsInv'
<1>1. WaitsTyped' /\ WaitsApart'
  BY DEF IInv, WaitsInv, WaitsTyped, WaitsApart, MoreCrossed
<1>2. WaitsKept'
  BY DEF WaitsKept, Undisturbed
<1>3. WaitsSignalled'
  BY DEF IInv, WaitsInv, WaitsSignalled, Undisturbed, Ending
<1> QED
  BY <1>1, <1>2, <1>3 DEF WaitsInv

\* Started: a start that spawns a process keeps the invariant.
LEMMA Started ==
  ASSUME Kinds, IInv, NEW w \in Callers, NEW n \in ProcNames, NEW s \in Stores,
         MayCall(w, n), Spawned(n, s), UNCHANGED waits,
         \A p \in Pids : Sought(p) => procs[p].name # n,
         n \in PeerNames => \A p \in Pids : Peer(p) /\ Clean(p) => procs[p].store # s
  PROVE  IInv'
<1> MoreCrossed
  BY Others
<1>1. FilesInv'
  BY SpawnKeepsFiles
<1>2. ASSUME NEW v \in Callers, waits[v] # None PROVE Undisturbed(waits[v])
  <2>1. waits[v].name # n \/ n \in crossed'
    BY <1>2, Others
  <2> QED
    BY <1>2, <2>1, SpawnKeepsWaits, Untouched
<1>3. WaitsInv'
  BY <1>2, WaitsStay
<1> QED
  BY <1>1, <1>3 DEF IInv

\* StoreFree: MayStart sees whoever is sought on the store or under the name.
LEMMA StoreFree ==
  ASSUME Kinds, IInv, NEW n \in PeerNames, NEW s \in Stores, MayStart(n, s)
  PROVE  /\ \A p \in Pids : Sought(p) => procs[p].name # n
         /\ \A p \in Pids : Peer(p) /\ Clean(p) => procs[p].store # s
<1>1. ASSUME NEW p \in Pids, Sought(p) PROVE procs[p].name # n
  BY <1>1, NotAlive DEF MayStart, ProcNames
<1>2. ASSUME NEW p \in Pids, Peer(p), Clean(p), procs[p].store = s PROVE FALSE
  <2>1. Sought(p) /\ procs[p].name \in PeerNames /\ procs[p] # None
    BY <1>2 DEF Sought, Peer
  <2>2. procs[p].name # n
    BY <1>1, <2>1
  <2>3. pidFile[procs[p].name] = p /\ config[procs[p].name] = s
    BY <1>2, <2>1, SoughtFound DEF IInv, FilesInv, StoreKnown
  <2>4. IsAlive(pidFile[procs[p].name])
    BY <2>1, <2>3 DEF IsAlive, Kinds
  <2> QED
    BY <2>1, <2>2, <2>3, <2>4 DEF MayStart, Elsewhere
<1> QED
  BY <1>1, <1>2

\* SignalKept: a stop that signals and begins to wait keeps the invariant.
LEMMA SignalKept ==
  ASSUME Kinds, IInv, NEW w \in Callers, NEW n \in ProcNames,
         MayCall(w, n), IsAlive(pidFile[n]), procs' = Signalled(pidFile[n]),
         NEW x \in Waits, x.pid = pidFile[n], x.name = n, x.next # "spawn", Placed(x),
         waits' = [waits EXCEPT ![w] = x], UNCHANGED <<pidFile, config>>
  PROVE  IInv'
<1> MoreCrossed
  BY Others
<1>1. FilesTyped /\ pidFile[n] \in Pids /\ procs[pidFile[n]] \in Procs
  BY DEF IInv, FilesInv, FilesTyped, IsAlive, Kinds
<1>2. /\ procs'[pidFile[n]] \in Procs /\ procs'[pidFile[n]].status = "ending"
      /\ procs'[pidFile[n]].name = procs[pidFile[n]].name
      /\ procs'[pidFile[n]].store = procs[pidFile[n]].store
      /\ \A p \in Pids : p # pidFile[n] => procs'[p] = procs[p]
  BY <1>1 DEF FilesTyped, Signalled, Procs
<1>3. FilesTyped'
  BY <1>1, <1>2 DEF FilesTyped, Signalled
<1>4. FilesInv'
  <2>1. procs[pidFile[n]] # None
    BY DEF IsAlive
  <2> QED
    BY <1>2, <1>3, <2>1, ShrinkKeepsFiles
<1>5. ASSUME NEW v \in Callers, waits[v] # None PROVE Undisturbed(waits[v])
  <2>1. waits[v].pid \in Pids
    BY <1>5 DEF IInv, WaitsInv, WaitsTyped, Waits
  <2> QED
    BY <1>2, <1>5, <2>1, Untouched
<1>6. Undisturbed(x)
  BY <1>2 DEF Undisturbed
<1>7. WaitsInv'
  <2>1. \A v \in Callers : waits[v] # None => waits[v].name # n \/ n \in crossed'
    BY Others
  <2> QED
    BY <1>5, <1>6, <2>1, OneWaits
<1> QED
  BY <1>4, <1>7 DEF IInv

\* StartSteps: peers, bots and validators are started.
LEMMA StartSteps ==
  ASSUME Kinds, IInv, NEW w \in Callers, NEW n \in ProcNames, NEW s \in Stores,
         PeerStart(w, n, s) \/ BotStart(w, n, s) \/ ValidatorStart(w, n, s)
  PROVE  IInv'
<1>1. CASE PeerStart(w, n, s)
  <2>1. /\ n \in PeerNames /\ MayCall(w, n) /\ MayStart(n, s)
        /\ Spawned(n, s) /\ UNCHANGED waits
    BY <1>1 DEF PeerStart
  <2> QED
    BY <2>1, StoreFree, Started
<1>2. CASE BotStart(w, n, s)
  <2>1. n \in BotNames /\ MayCall(w, n) /\ Spawned(n, s) /\ UNCHANGED waits
    BY <1>2 DEF BotStart
  <2>2. n \notin PeerNames /\ n \notin ValidatorNames
    BY <2>1 DEF Kinds
  <2>3. \A p \in Pids : Sought(p) => procs[p].name # n
    BY <2>2 DEF Sought, Peer
  <2> QED
    BY <2>1, <2>2, <2>3, Started
<1>3. CASE ValidatorStart(w, n, s)
  <2>1. /\ n \in ValidatorNames /\ MayCall(w, n) /\ ~IsAlive(pidFile[n])
        /\ Spawned(n, s) /\ UNCHANGED waits
    BY <1>3 DEF ValidatorStart
  <2>2. n \notin PeerNames
    BY <2>1 DEF Kinds
  <2>3. \A p \in Pids : Sought(p) => procs[p].name # n
    BY <2>1, NotAlive
  <2> QED
    BY <2>1, <2>2, <2>3, Started
<1> QED
  BY <1>1, <1>2, <1>3

\* StopSteps: a process is signalled, by a stop, a restart or a start of a
\* validator whose port is closed.
LEMMA StopSteps ==
  ASSUME Kinds, IInv, NEW w \in Callers, NEW n \in ProcNames, NEW again \in BOOLEAN,
         Stop(w, n, again) \/ ValidatorSignal(w, n, again)
  PROVE  IInv'
<1>1. MayCall(w, n) /\ IsAlive(pidFile[n]) /\ procs' = Signalled(pidFile[n])
      /\ UNCHANGED <<pidFile, config>>
  BY DEF Stop, ValidatorSignal
<1>2. pidFile[n] \in Pids /\ config[n] \in Stores
  BY <1>1 DEF IInv, FilesInv, FilesTyped, Written, IsAlive, Kinds
<1>3. CASE Stop(w, n, again)
  <2> DEFINE x == Stopping(n, IF again THEN "start" ELSE "return")
  <2>1. /\ x \in Waits /\ x.pid = pidFile[n] /\ x.name = n /\ x.next # "spawn"
        /\ x.next \notin {"leave", "respawn"}
    BY <1>2 DEF Stopping, Waits
  <2>2. n \in PeerNames \cup BotNames /\ waits' = [waits EXCEPT ![w] = x]
    BY <1>3 DEF Stop
  <2>3. Placed(x)
    BY <2>1, <2>2 DEF Placed
  <2> HIDE DEF x
  <2> QED
    BY <1>1, <2>1, <2>2, <2>3, SignalKept
<1>4. CASE ValidatorSignal(w, n, again)
  <2> DEFINE x == Stopping(n, IF again THEN "respawn" ELSE "leave")
  <2>1. /\ x \in Waits /\ x.pid = pidFile[n] /\ x.name = n /\ x.next # "spawn"
        /\ x.next \in {"leave", "respawn"}
    BY <1>2 DEF Stopping, Waits
  <2>2. n \in ValidatorNames /\ waits' = [waits EXCEPT ![w] = x]
    BY <1>4 DEF ValidatorSignal
  <2>3. Placed(x)
    BY <2>1, <2>2 DEF Placed
  <2> HIDE DEF x
  <2> QED
    BY <1>1, <2>1, <2>2, <2>3, SignalKept
<1> QED
  BY <1>3, <1>4

\* DeadStep: the pid file of a dead process goes.
LEMMA DeadStep ==
  ASSUME Kinds, IInv, NEW w \in Callers, NEW n \in ProcNames, StopDead(w, n)
  PROVE  IInv'
<1>1. /\ MayCall(w, n) /\ ~IsAlive(pidFile[n])
      /\ pidFile' = [pidFile EXCEPT ![n] = None] /\ UNCHANGED <<procs, config, waits>>
  BY DEF StopDead
<1> MoreCrossed
  BY <1>1, Others
<1>2. FilesTyped /\ FilesTyped'
  BY <1>1 DEF IInv, FilesInv, FilesTyped
<1>3. \A p \in Pids : Sought(p) => procs[p].name # n
  BY <1>1, NotAlive
<1>4. \A m \in ProcNames : pidFile'[m] = IF m = n THEN None ELSE pidFile[m]
  BY <1>1, <1>2 DEF FilesTyped
<1>5. FilesInv'
  BY <1>1, <1>2, <1>3, <1>4, ShrinkKeepsFiles
<1>6. ASSUME NEW v \in Callers, waits[v] # None PROVE Undisturbed(waits[v])
  <2>1. (waits[v].name # n \/ n \in crossed') /\ waits[v].name \in ProcNames
    BY <1>1, <1>6, Others DEF IInv, WaitsInv, WaitsTyped, Waits
  <2> QED
    BY <1>1, <1>4, <1>6, <2>1, Untouched
<1> QED
  BY <1>1, <1>5, <1>6, WaitsStay DEF IInv

\* WaitEnds: the process a call waited for has gone, and its pid file.
LEMMA WaitEnds ==
  ASSUME Kinds, IInv, NEW w \in Callers, StopReturns(w)
  PROVE  IInv'
<1> DEFINE p == waits[w].pid
           n == waits[w].name
           x == IF waits[w].next = "start" THEN [waits[w] EXCEPT !.next = "spawn"]
                                           ELSE None
<1>1. /\ waits[w] # None /\ waits[w].next \in {"return", "start"}
      /\ procs' = [procs EXCEPT ![p] = None] /\ pidFile' = [pidFile EXCEPT ![n] = None]
      /\ config' = config /\ crossed' = crossed
  BY DEF StopReturns, Killed
<1> MoreCrossed
  BY <1>1 DEF MoreCrossed, IInv, WaitsInv, WaitsTyped
<1>2. FilesTyped /\ waits[w] \in Waits /\ p \in Pids /\ n \in ProcNames
  BY <1>1 DEF IInv, FilesInv, WaitsInv, WaitsTyped, Waits
<1>3. /\ \A q \in Pids : procs'[q] = IF q = p THEN None ELSE procs[q]
      /\ \A m \in ProcNames : pidFile'[m] = IF m = n THEN None ELSE pidFile[m]
      /\ FilesTyped'
  BY <1>1, <1>2 DEF FilesTyped
<1>4. n \notin crossed => pidFile[n] = p
  BY <1>1 DEF IInv, WaitsInv, WaitsKept
<1>5. \A q \in Pids : Sought(q) /\ procs'[q] # None => procs[q].name # n
  BY <1>3, <1>4, SoughtFound DEF IInv, FilesInv, Sought, Clean
<1>6. FilesInv'
  BY <1>1, <1>3, <1>5, ShrinkKeepsFiles
<1>7. waits' = [waits EXCEPT ![w] = x]
  BY DEF StopReturns, IInv, WaitsInv, WaitsTyped
<1>8. x \in {None} \cup Waits
  BY <1>2 DEF Waits
<1>9. x # None => x.name = n /\ x.pid = p /\ x.next = "spawn"
  BY <1>1, <1>2 DEF Waits
<1>10. Placed(waits[w])
  BY <1>1 DEF IInv, WaitsInv, WaitsSignalled, Placed
<1>11. x # None => Undisturbed(x) /\ Placed(x)
  BY <1>1, <1>9, <1>10 DEF Undisturbed, Placed
<1>12. ASSUME NEW v \in Callers, v # w, waits[v] # None
       PROVE  Undisturbed(waits[v]) /\ (waits[v].name # n \/ n \in crossed')
  <2>1. waits[v].name # n \/ n \in crossed'
    BY <1>1, <1>12 DEF IInv, WaitsInv, WaitsApart
  <2>2. waits[v].name \in ProcNames /\ waits[v].pid \in Pids
    BY <1>12 DEF IInv, WaitsInv, WaitsTyped, Waits
  <2> QED
    BY <1>3, <1>12, <2>1, <2>2, Untouched
<1> HIDE DEF x, n, p
<1>13. WaitsInv'
  BY <1>7, <1>8, <1>9, <1>11, <1>12, OneWaits
<1> QED
  BY <1>6, <1>13 DEF IInv

\* CallEnds: a call that waited returns; the other calls are undisturbed.
LEMMA CallEnds ==
  ASSUME IInv, NEW w \in Callers, waits' = [waits EXCEPT ![w] = None], MoreCrossed,
         \A v \in Callers : v # w /\ waits[v] # None => Undisturbed(waits[v])
  PROVE  WaitsInv'
<1> DEFINE x == None
<1>1. x \in {None} \cup Waits /\ waits' = [waits EXCEPT ![w] = x] /\ ~(x # None)
  OBVIOUS
<1> HIDE DEF x
<1> QED
  BY <1>1, OneWaits

\* SpawnEnds: a call that waited spawns a process and returns.
LEMMA SpawnEnds ==
  ASSUME Kinds, IInv, NEW w \in Callers, waits[w] # None, NEW s \in Stores,
         Spawned(waits[w].name, s), waits' = [waits EXCEPT ![w] = None],
         UNCHANGED crossed,
         \A p \in Pids : Sought(p) => procs[p].name # waits[w].name,
         waits[w].name \in PeerNames =>
           \A p \in Pids : Peer(p) /\ Clean(p) => procs[p].store # s
  PROVE  IInv'
<1> MoreCrossed
  BY DEF MoreCrossed, IInv, WaitsInv, WaitsTyped
<1>1. waits[w].name \in ProcNames
  BY DEF IInv, WaitsInv, WaitsTyped, Waits
<1>2. FilesInv'
  BY <1>1, SpawnKeepsFiles
<1>3. ASSUME NEW v \in Callers, v # w, waits[v] # None PROVE Undisturbed(waits[v])
  <2>1. waits[v].name # waits[w].name \/ waits[v].name \in crossed'
    BY <1>3 DEF IInv, WaitsInv, WaitsApart, MoreCrossed
  <2> QED
    BY <1>1, <1>3, <2>1, SpawnKeepsWaits, Untouched
<1>4. WaitsInv'
  BY <1>3, CallEnds
<1> QED
  BY <1>2, <1>4 DEF IInv

\* RestartStep: the second half of a restart.
LEMMA RestartStep ==
  ASSUME Kinds, IInv, NEW w \in Callers, Restarted(w)
  PROVE  IInv'
<1>1. /\ waits[w] # None /\ waits[w].next = "spawn"
      /\ waits' = [waits EXCEPT ![w] = None] /\ crossed' = crossed
  BY DEF Restarted
<1> MoreCrossed
  BY <1>1 DEF MoreCrossed, IInv, WaitsInv, WaitsTyped
<1>2. waits[w].name \in PeerNames \cup BotNames /\ waits[w].store \in Stores
  BY <1>1 DEF IInv, WaitsInv, WaitsTyped, WaitsSignalled, Waits
<1>3. CASE waits[w].name \in BotNames
  <2>1. Spawned(waits[w].name, waits[w].store)
    BY <1>3 DEF Restarted
  <2>2. waits[w].name \notin PeerNames /\ waits[w].name \notin ValidatorNames
    BY <1>3 DEF Kinds
  <2>3. \A p \in Pids : Sought(p) => procs[p].name # waits[w].name
    BY <2>2 DEF Sought, Peer
  <2> QED
    BY <1>1, <1>2, <2>1, <2>2, <2>3, SpawnEnds
<1>4. CASE waits[w].name \in PeerNames /\ MayStart(waits[w].name, waits[w].store)
  <2>1. Spawned(waits[w].name, waits[w].store)
    BY <1>4 DEF Restarted
  <2> QED
    BY <1>1, <1>2, <1>4, <2>1, StoreFree, SpawnEnds
<1>5. CASE UNCHANGED <<procs, pidFile, config>>
  <2>1. FilesInv'
    BY <1>5, ShrinkKeepsFiles DEF IInv, FilesInv, FilesTyped
  <2>2. \A v \in Callers : waits[v] # None => Undisturbed(waits[v])
    BY <1>5, Untouched
  <2> QED
    BY <1>1, <2>1, <2>2, CallEnds DEF IInv
<1> QED
  BY <1>2, <1>3, <1>4, <1>5 DEF Restarted

\* ValidatorStep: the wait for a signalled validator ends, whatever it did.
LEMMA ValidatorStep ==
  ASSUME Kinds, IInv, NEW w \in Callers, ValidatorSignalReturns(w)
  PROVE  IInv'
<1> DEFINE n == waits[w].name
<1>1. /\ waits[w] # None /\ waits[w].next \in {"leave", "respawn"}
      /\ waits' = [waits EXCEPT ![w] = None] /\ crossed' = crossed
  BY DEF ValidatorSignalReturns
<1> MoreCrossed
  BY <1>1 DEF MoreCrossed, IInv, WaitsInv, WaitsTyped
<1>2. /\ n \in ProcNames /\ n \in ValidatorNames /\ n \notin PeerNames
      /\ waits[w].store \in Stores /\ Ending(waits[w].pid)
      /\ n \notin crossed => pidFile[n] = waits[w].pid
  BY <1>1 DEF IInv, WaitsInv, WaitsTyped, WaitsKept, WaitsSignalled, Waits, Kinds
<1>3. ASSUME NEW p \in Pids, Sought(p) PROVE procs[p].name # n
  <2>1. procs[p].name = n => p = waits[w].pid
    BY <1>2, <1>3, SoughtFound DEF IInv, FilesInv, Sought, Clean
  <2> QED
    BY <1>2, <1>3, <2>1 DEF Sought, Peer, Ending
<1>4. CASE waits[w].next = "leave"
  <2>1. pidFile' = [pidFile EXCEPT ![n] = None] /\ UNCHANGED <<procs, config>>
    BY <1>4 DEF ValidatorSignalReturns
  <2>2. /\ \A m \in ProcNames : pidFile'[m] = IF m = n THEN None ELSE pidFile[m]
        /\ FilesTyped'
    BY <2>1 DEF IInv, FilesInv, FilesTyped
  <2>3. FilesInv'
    BY <1>3, <2>1, <2>2, ShrinkKeepsFiles
  <2>4. ASSUME NEW v \in Callers, v # w, waits[v] # None PROVE Undisturbed(waits[v])
    <3>1. (waits[v].name # n \/ n \in crossed') /\ waits[v].name \in ProcNames
      BY <1>1, <2>4 DEF IInv, WaitsInv, WaitsTyped, WaitsApart, Waits
    <3> QED
      BY <2>1, <2>2, <2>4, <3>1, Untouched
  <2> QED
    BY <1>1, <2>3, <2>4, CallEnds DEF IInv
<1>5. CASE waits[w].next = "respawn"
  <2>1. Spawned(n, waits[w].store)
    BY <1>5 DEF ValidatorSignalReturns
  <2> QED
    BY <1>1, <1>2, <1>3, <2>1, SpawnEnds
<1> QED
  BY <1>1, <1>4, <1>5

\* WorldSteps: a process dies, or the backend.
LEMMA WorldSteps ==
  ASSUME Kinds, IInv, (\E p \in Pids : Dies(p)) \/ BackendRestarts
  PROVE  IInv'
<1>1. ASSUME NEW p \in Pids, Dies(p) PROVE IInv'
  <2>1. procs' = [procs EXCEPT ![p] = None] /\ UNCHANGED <<pidFile, config, waits, crossed>>
    BY <1>1 DEF Dies
  <2> MoreCrossed
    BY <2>1 DEF MoreCrossed, IInv, WaitsInv, WaitsTyped
  <2>2. /\ \A q \in Pids : procs'[q] = IF q = p THEN None ELSE procs[q]
        /\ FilesTyped'
    BY <2>1 DEF IInv, FilesInv, FilesTyped
  <2>3. FilesInv'
    BY <2>1, <2>2, ShrinkKeepsFiles
  <2>4. ASSUME NEW v \in Callers, waits[v] # None PROVE Undisturbed(waits[v])
    <3>1. waits[v].pid \in Pids
      BY <2>4 DEF IInv, WaitsInv, WaitsTyped, Waits
    <3> QED
      BY <2>1, <2>2, <2>4, <3>1, Untouched
  <2> QED
    BY <2>1, <2>3, <2>4, WaitsStay DEF IInv
<1>2. CASE BackendRestarts
  <2>1. waits' = [w \in Callers |-> None] /\ UNCHANGED <<procs, pidFile, config, crossed>>
    BY <1>2 DEF BackendRestarts
  <2> MoreCrossed
    BY <2>1 DEF MoreCrossed, IInv, WaitsInv, WaitsTyped
  <2>2. FilesInv'
    BY <2>1, ShrinkKeepsFiles DEF IInv, FilesInv, FilesTyped
  <2>3. WaitsInv'
    BY <2>1 DEF MoreCrossed, WaitsInv, WaitsTyped, WaitsApart, WaitsKept, WaitsSignalled
  <2> QED
    BY <2>2, <2>3 DEF IInv
<1> QED
  BY <1>1, <1>2

\* Inductive: every step keeps IInv.
LEMMA Inductive ==
  ASSUME Kinds, IInv, [Next]_vars
  PROVE  IInv'
<1>1. CASE Next
  <2>1. ASSUME NEW w \in Callers, NEW n \in ProcNames, NEW s \in Stores,
               PeerStart(w, n, s) \/ BotStart(w, n, s) \/ ValidatorStart(w, n, s)
        PROVE  IInv'
    BY <2>1, StartSteps
  <2>2. ASSUME NEW w \in Callers, NEW n \in ProcNames, NEW again \in BOOLEAN,
               Stop(w, n, again) \/ ValidatorSignal(w, n, again)
        PROVE  IInv'
    BY <2>2, StopSteps
  <2>3. ASSUME NEW w \in Callers, NEW n \in ProcNames, StopDead(w, n) PROVE IInv'
    BY <2>3, DeadStep
  <2>4. ASSUME NEW w \in Callers,
               StopReturns(w) \/ Restarted(w) \/ ValidatorSignalReturns(w)
        PROVE  IInv'
    BY <2>4, WaitEnds, RestartStep, ValidatorStep
  <2> QED
    BY <1>1, <2>1, <2>2, <2>3, <2>4, WorldSteps DEF Next
<1>2. CASE UNCHANGED vars
  <2> MoreCrossed
    BY <1>2 DEF MoreCrossed, IInv, WaitsInv, WaitsTyped, vars
  <2>1. FilesInv'
    BY <1>2, ShrinkKeepsFiles DEF IInv, FilesInv, FilesTyped, vars
  <2>2. \A v \in Callers : waits[v] # None => Undisturbed(waits[v])
    BY <1>2, Untouched DEF vars
  <2> QED
    BY <1>2, <2>1, <2>2, WaitsStay DEF IInv, vars
<1> QED
  BY <1>1, <1>2

\* Begins: nothing runs and no file is there at first.
LEMMA Begins ==
  ASSUME Kinds, Init
  PROVE  IInv
<1>1. FilesInv
  BY DEF Init, FilesInv, FilesTyped, Written, RunningIsRecorded, StoreKnown,
         OneProcessPerStore, Peer
<1>2. WaitsInv
  BY DEF Init, WaitsInv, WaitsTyped, WaitsApart, WaitsKept, WaitsSignalled
<1> QED
  BY <1>1, <1>2 DEF IInv

\* KindsInvariant: IInv holds always.
LEMMA KindsInvariant ==
  ASSUME Kinds
  PROVE  Spec => []IInv
<1>1. Init => IInv
  BY Begins
<1>2. IInv /\ [Next]_vars => IInv'
  BY Inductive
<1> QED
  BY <1>1, <1>2, PTL DEF Spec

-----------------------------------------------------------------------------
\* OneProcessPerStore: a start sees every peer on its store
\* (ensureStoreNotRunningElsewhere), through stops, restarts and deaths, if no
\* calls crossed about its own name or the peer's.
THEOREM StoresKeptApart ==
  ASSUME Kinds
  PROVE  Spec => []OneProcessPerStore
<1>1. IInv => OneProcessPerStore
  BY DEF IInv, FilesInv
<1> QED
  BY <1>1, KindsInvariant, PTL

\* RunningIsRecorded: no stop unlinks the pid file of a peer that lives, or of a
\* validator nobody has signalled, and no start overwrites it, unless calls about
\* its own name crossed; what crosses elsewhere does no harm.
THEOREM RunningRecorded ==
  ASSUME Kinds
  PROVE  Spec => []RunningIsRecorded
<1>1. IInv => RunningIsRecorded
  BY DEF IInv, FilesInv
<1> QED
  BY <1>1, KindsInvariant, PTL

\* TypeOK: the files and the calls keep their shape.
THEOREM ProcessesTyped ==
  ASSUME Kinds
  PROVE  Spec => []TypeOK
<1> QED
  BY Typed, KindsInvariant, PTL
=============================================================================
