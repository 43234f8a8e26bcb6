---------------------------- MODULE BridgeClient ----------------------------
(***************************************************************************)
(* The backend's standing connection to its peer process: ScBridgeClient   *)
(* (src/src/sc-bridge/client.js) and the reconnecting, the channels marked *)
(* as subscribed and the sc_* tools of executor.js that share it.          *)
(*                                                                         *)
(* Every call to the peer has a timeout, and a timeout, an error or a      *)
(* close resets the client for all its callers; the next tool makes a new  *)
(* client.  The peer is external: a subscribe adds to what its connection  *)
(* is sent, or replaces it ("some runtimes", executor.js:2936), or is      *)
(* refused, and a refusal looks like any reply; a leave takes away, or is  *)
(* refused.                                                                *)
(***************************************************************************)
EXTENDS Integers, FiniteSets

CONSTANTS Clients,  \* bound on the ScBridgeClient objects
          Channels,
          Callers,  \* tool calls at one time
          MidConnect, \* whether a stack_stop may come in the middle of a connect
          None

VARIABLES client,     \* the objects with their sockets, and what the peer sends them
          current,    \* _sc
          connecting, \* _scConnecting
          marked,     \* _scSubscribed
          call,       \* the tool calls
          slipped     \* history: marked, but not asked for (by a dry run), or
                      \* refused, or dropped for another list by the peer

vars == <<client, current, connecting, marked, call, slipped>>

NewClient == [at |-> "new", open |-> FALSE, feeds |-> FALSE, asked |-> {}, subs |-> {}]
NoCall == [tool |-> None, channel |-> None, at |-> "idle", on |-> None, asked |-> {}]

Init ==
  /\ client = [c \in Clients |-> NewClient]
  /\ current = None /\ connecting = None
  /\ marked = {}
  /\ call = [w \in Callers |-> NoCall]
  /\ slipped = {}

-----------------------------------------------------------------------------
(* ScBridgeClient *)

\* Mutant: a reset forgets the socket and leaves its handlers on.
ResetKeepsHandlers(c) == [client[c] EXCEPT !.at = "closed"]

\* _resetConnection: handlers off. The socket may stay open, but nobody listens.
Reset(c) == [NewClient EXCEPT !.at = "closed"]

\* _rejectAllPending, and those who await the connect: their tools throw.
Rejected(c) == [w \in Callers |-> IF call[w].on = c THEN NoCall ELSE call[w]]

\* The listener on "close".
WithoutCurrent(c) == IF current = c THEN None ELSE current

\* _rpc, or its throw if the client is closed.
Rpc(w, c, what, asked) ==
  call' = [call EXCEPT ![w] =
    IF client[c].at = "closed" THEN NoCall ELSE [@ EXCEPT !.at = what, !.on = c, !.asked = asked]]

\* The socket is dead; nobody has been told.
SocketDies(c) ==
  /\ client[c].open
  /\ client' = [client EXCEPT ![c].open = FALSE]
  /\ UNCHANGED <<current, connecting, marked, call, slipped>>

Closes(c) ==
  /\ client[c].at = "up" /\ ~client[c].open
  /\ client' = [client EXCEPT ![c] = Reset(c)]
  /\ call' = Rejected(c)
  /\ current' = WithoutCurrent(c)
  /\ UNCHANGED <<connecting, marked, slipped>>

Awaits(w) == call[w].at \in {"stats", "join", "leave", "subscribe", "send"}

RpcTimesOut(w) ==
  LET c == call[w].on
  IN  /\ Awaits(w)
      /\ client' = [client EXCEPT ![c] = Reset(c)]
      /\ call' = Rejected(c)
      /\ current' = WithoutCurrent(c)
      /\ UNCHANGED <<connecting, marked, slipped>>

-----------------------------------------------------------------------------
(* _scEnsurePersistent *)

IsOpen(c) == c # None /\ client[c].at = "up" /\ client[c].open

Waiting(tool, ch, at, c) == [tool |-> tool, channel |-> ch, at |-> at, on |-> c, asked |-> {}]

\* The current client, or the connect under way, or a new one; a stale client is
\* closed.
Ensure(w, tool, ch) ==
  LET stale == current # None /\ ~IsOpen(current)
      live == IF stale THEN [client EXCEPT ![current] = Reset(current)] ELSE client
      others == IF stale THEN Rejected(current) ELSE call
  IN  \/ /\ IsOpen(current)
         /\ call' = [call EXCEPT ![w] = Waiting(tool, ch, "go", current)]
         /\ UNCHANGED <<client, current, connecting>>
      \/ /\ ~IsOpen(current) /\ connecting # None
         /\ client' = live
         /\ current' = None
         /\ call' = [others EXCEPT ![w] = Waiting(tool, ch, "connect", connecting)]
         /\ UNCHANGED connecting
      \/ /\ ~IsOpen(current) /\ connecting = None
         /\ \E d \in Clients : client[d].at = "new"
         /\ LET c == CHOOSE d \in Clients : client[d].at = "new"
            IN  /\ client' = [live EXCEPT ![c].at = "opening", ![c].open = TRUE]
                /\ connecting' = c
                /\ current' = None
                /\ call' = [others EXCEPT ![w] = Waiting(tool, ch, "connect", c)]

Going(c) == [w \in Callers |->
  IF call[w].on = c /\ call[w].at = "connect" THEN [call[w] EXCEPT !.at = "go"] ELSE call[w]]

\* The peer's list after a subscribe: refused, added or replaced.
Lists(subs, asked) == {subs, subs \cup asked, asked}

\* Marks the peer has been asked for or had, and does not list.
SlippedAfter(subs, asked, list) == (slipped \cup (marked \cap (subs \cup asked))) \ list

\* Mutant: a new connection starts without the channels of the old one.
ReappliedNone == {}

Reapplied == marked

\* hello and auth_ok; the listeners go on, the marked channels are asked for.
Opens(c) ==
  /\ client[c].at = "opening" /\ client[c].open
  /\ client' = [client EXCEPT ![c].feeds = TRUE, ![c].asked = Reapplied,
                              ![c].at = IF Reapplied = {} THEN "up" ELSE "subscribing"]
  /\ IF Reapplied = {}
     THEN current' = c /\ connecting' = None /\ call' = Going(c)
     ELSE UNCHANGED <<current, connecting, call>>
  /\ UNCHANGED <<marked, slipped>>

\* The reply to that is not looked at.
Connected(c, list) ==
  /\ client[c].at = "subscribing" /\ client[c].open
  /\ client' = [client EXCEPT ![c].at = "up", ![c].subs = list, ![c].asked = {}]
  /\ current' = c /\ connecting' = None
  /\ call' = Going(c)
  /\ slipped' = SlippedAfter({}, client[c].asked, list)
  /\ UNCHANGED marked

\* No hello in time, an error, a close, or no reply to the subscribe.
ConnectFails(c) ==
  /\ client[c].at \in {"opening", "subscribing"}
  /\ client' = [client EXCEPT ![c] = Reset(c)]
  /\ connecting' = None
  /\ call' = Rejected(c)
  /\ UNCHANGED <<current, marked, slipped>>

-----------------------------------------------------------------------------
(* The tools *)

\* sc_subscribe marks first.
BeginSubscribe(w, ch) ==
  /\ call[w] = NoCall
  /\ Ensure(w, "subscribe", ch)
  /\ marked' = marked \cup {ch}
  /\ UNCHANGED slipped

DryRun(ch) ==
  /\ marked' = marked \cup {ch}
  /\ slipped' = slipped \cup ({ch} \ marked)
  /\ UNCHANGED <<client, current, connecting, call>>

\* "use" stands for the send tools and for _scEnsureChannelSubscribed.
Begin(w, tool, ch) ==
  /\ call[w] = NoCall /\ tool \in {"join", "leave", "use"}
  /\ Ensure(w, tool, ch)
  /\ UNCHANGED <<marked, slipped>>

Go(w) ==
  LET c == call[w].on
      ch == call[w].channel
  IN  /\ call[w].at = "go"
      /\ \/ call[w].tool = "subscribe" /\ Rpc(w, c, "stats", {}) /\ UNCHANGED marked
         \/ call[w].tool = "join" /\ Rpc(w, c, "join", {}) /\ UNCHANGED marked
         \/ call[w].tool = "leave" /\ Rpc(w, c, "leave", {}) /\ UNCHANGED marked
         \/ call[w].tool = "use" /\ ch \in marked /\ Rpc(w, c, "send", {}) /\ UNCHANGED marked
         \/ /\ call[w].tool = "use" /\ ch \notin marked
            /\ marked' = marked \cup {ch}
            /\ Rpc(w, c, "subscribe", {ch})
      /\ UNCHANGED <<client, current, connecting, slipped>>

\* What the peer sends to the connection the call is on.
Subs(w) == IF call[w].on = None THEN {} ELSE client[call[w].on].subs

Replies(w, what) ==
  /\ call[w].at = what
  /\ client[call[w].on].open

\* What the peer says it has, if it does, and all that is marked, is asked for.
StatsReply(w, existing) ==
  /\ Replies(w, "stats")
  /\ Rpc(w, call[w].on, "subscribe", existing \cup marked)
  /\ UNCHANGED <<client, current, connecting, marked, slipped>>

JoinReply(w) ==
  /\ Replies(w, "join")
  /\ marked' = marked \cup {call[w].channel}
  /\ Rpc(w, call[w].on, "subscribe", {call[w].channel})
  /\ UNCHANGED <<client, current, connecting, slipped>>

LeaveReply(w, refused) ==
  /\ Replies(w, "leave")
  /\ marked' = marked \ {call[w].channel}
  /\ slipped' = slipped \ {call[w].channel}
  /\ client' = [client EXCEPT ![call[w].on].subs =
                    IF refused THEN @ ELSE @ \ {call[w].channel}]
  /\ call' = [call EXCEPT ![w] = NoCall]
  /\ UNCHANGED <<current, connecting>>

SubscribeReply(w, list) ==
  /\ Replies(w, "subscribe")
  /\ client' = [client EXCEPT ![call[w].on].subs = list]
  /\ slipped' = SlippedAfter(client[call[w].on].subs, call[w].asked, list)
  /\ IF call[w].tool = "use" THEN Rpc(w, call[w].on, "send", {})
                             ELSE call' = [call EXCEPT ![w] = NoCall]
  /\ UNCHANGED <<current, connecting, marked>>

SendReply(w) ==
  /\ Replies(w, "send")
  /\ call' = [call EXCEPT ![w] = NoCall]
  /\ UNCHANGED <<client, current, connecting, marked, slipped>>

\* stack_stop closes the client; a connect under way is forgotten, and goes on.
StackStop ==
  /\ current # None \/ connecting # None
  /\ MidConnect \/ connecting = None
  /\ IF current = None THEN UNCHANGED <<client, call>>
     ELSE client' = [client EXCEPT ![current] = Reset(current)] /\ call' = Rejected(current)
  /\ current' = None /\ connecting' = None
  /\ UNCHANGED <<marked, slipped>>

Next ==
  \/ \E w \in Callers :
       \/ \E ch \in Channels :
            \/ BeginSubscribe(w, ch)
            \/ \E tool \in {"join", "leave", "use"} : Begin(w, tool, ch)
       \/ Go(w)
       \/ \E existing \in {{}, Subs(w)} : StatsReply(w, existing)
       \/ \E list \in Lists(Subs(w), call[w].asked) : SubscribeReply(w, list)
       \/ \E refused \in BOOLEAN : LeaveReply(w, refused)
       \/ JoinReply(w) \/ SendReply(w)
       \/ RpcTimesOut(w)
  \/ \E ch \in Channels : DryRun(ch)
  \/ \E c \in Clients :
       \/ SocketDies(c) \/ Closes(c) \/ Opens(c) \/ ConnectFails(c)
       \/ \E list \in Lists({}, client[c].asked) : Connected(c, list)
  \/ StackStop

Spec == Init /\ [][Next]_vars

-----------------------------------------------------------------------------
TypeOK ==
  /\ client \in [Clients -> [at : {"new", "opening", "subscribing", "up", "closed"},
                             open : BOOLEAN, feeds : BOOLEAN,
                             asked : SUBSET Channels, subs : SUBSET Channels]]
  /\ current \in Clients \cup {None} /\ connecting \in Clients \cup {None}
  /\ marked \subseteq Channels /\ slipped \subseteq marked
  /\ call \in [Callers -> [tool : {"subscribe", "join", "leave", "use", None},
                           channel : Channels \cup {None},
                           at : {"idle", "connect", "go", "stats", "join", "leave",
                                 "subscribe", "send"},
                           on : Clients \cup {None}, asked : SUBSET Channels]]

\* A message of the peer enters the log once: never do two connections feed it,
\* however time-outs, closes nobody has seen yet and concurrent callers come
\* between (executor.js:1563-1605, sc-bridge/client.js:25-33).
OneFeed ==
  Cardinality({ c \in Clients : client[c].feeds /\ client[c].open }) <= 1

Asking(w, c, ch) ==
  \/ call[w].at = "subscribe" /\ call[w].on = c /\ ch \in call[w].asked
  \/ call[w].tool = "subscribe" /\ call[w].channel = ch

\* A channel that is marked is one the peer sends, or is being asked for: a tool
\* that finds it marked may rely on it (executor.js:1609-1617). Reconnects, calls
\* that fail half way and other callers keep it so; only a dry run of sc_subscribe,
\* a refusal that nobody looks at and another call's list that takes its place do
\* not, and what slipped so is kept again once the peer lists it
\* (executor.js:1588-1592, 2933-2956, sc-bridge/client.js:158-166).
SubscriptionsKept ==
  IsOpen(current) =>
    \A ch \in marked \ slipped :
      ch \in client[current].subs \/ \E w \in Callers : Asking(w, current, ch)
=============================================================================
