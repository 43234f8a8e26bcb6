-------------------------- MODULE NegotiationProofs --------------------------
(***************************************************************************)
(* For any number of makers and RFQs, losses and restarts: a taker never   *)
(* has accepts of two quotes abroad, and accepts TERMS only of the maker   *)
(* whose quote it accepted.                                                *)
(*                                                                         *)
(* The argument: every QUOTE_ACCEPT in any log is about the quote the      *)
(* listing lock holds, and the lock never goes over to another quote.  So  *)
(* only that quote's maker ever posts an invite and joins the swap         *)
(* channel, and only its TERMS get there; the TERMS other makers post      *)
(* reach nobody.                                                           *)
(***************************************************************************)
EXTENDS Negotiation, FiniteSetTheorems, TLAPS

Apart == Taker \notin Makers /\ None \notin Makers

Shape ==
  /\ log = [p \in Peers |-> log[p]]
  /\ last = [p \in Peers |-> last[p]]
  /\ locked \in Quotes \cup {NoQuote}

\* What _buildContexts keeps is in the log.
LastInLog ==
  \A p \in Peers :
    /\ DOMAIN last[p] = Kinds(p)
    /\ \A k \in Kinds(p) : last[p][k] \in log[p] /\ last[p][k].kind = k

\* m is the maker of the quote that is locked.
Chosen(m) == locked \in Quotes /\ m = locked.maker

Backed(p, e) ==
  /\ e.kind = "quote_accept" => locked \in Quotes /\ e = QuoteAccept(locked)
  /\ e.kind = "terms" => Chosen(e.by) \/ (e.by = p /\ p # Taker)
  /\ e.kind = "accept" /\ p = Taker => Chosen(e.to)

LogsBacked == \A p \in Peers : \A e \in log[p] : Backed(p, e)

Sound(c) ==
  /\ c.env.kind \in {"terms", "accept", "auth"}
  /\ c.env.kind = "terms" => Chosen(c.env.by)
  /\ c.env.kind = "accept" => c.to # Taker

NetSound == \A c \in net : Sound(c)

JoinedChosen == \A m \in Makers \cap joined : Chosen(m)

IInv == Shape /\ LastInLog /\ LogsBacked /\ NetSound /\ JoinedChosen

-----------------------------------------------------------------------------
\* The lock stays, or is taken while it is free.
LockStays == locked' = locked \/ (locked = NoQuote /\ locked' \in Quotes)

\* ChosenStays: the chosen maker stays the chosen one.
LEMMA ChosenStays ==
  ASSUME Apart, LockStays
  PROVE  /\ NoQuote \notin Quotes
         /\ locked \in Quotes => locked' = locked
         /\ \A m : Chosen(m) => Chosen(m)'
<1>1. NoQuote \notin Quotes
  BY DEF NoQuote, Quotes, Apart
<1> QED
  BY <1>1 DEF LockStays, Chosen

\* NewOnly: it is enough to look at what a step puts into logs, net and channel.
LEMMA NewOnly ==
  ASSUME Apart, IInv, LockStays, Shape', LastInLog',
         \A p \in Peers : \A e \in log'[p] : e \in log[p] \/ Backed(p, e)',
         \A c \in net' : c \in net \/ Sound(c)',
         \A m \in Makers \cap joined' : m \in joined \/ Chosen(m)'
  PROVE  IInv'
<1>1. ASSUME NEW p \in Peers, NEW e \in log'[p] PROVE Backed(p, e)'
  <2>1. CASE e \in log[p]
    <3>1. Backed(p, e)
      BY <2>1 DEF IInv, LogsBacked
    <3> QED
      BY <3>1, ChosenStays DEF Backed, QuoteAccept
  <2> QED
    BY <1>1, <2>1
<1>2. ASSUME NEW c \in net' PROVE Sound(c)'
  <2>1. CASE c \in net
    <3>1. Sound(c)
      BY <2>1 DEF IInv, NetSound
    <3> QED
      BY <3>1, ChosenStays DEF Sound
  <2> QED
    BY <1>2, <2>1
<1>3. ASSUME NEW m \in Makers \cap joined' PROVE Chosen(m)'
  BY <1>3, ChosenStays DEF IInv, JoinedChosen
<1> QED
  BY <1>1, <1>2, <1>3 DEF IInv, LogsBacked, NetSound, JoinedChosen

\* LogGrows: what logging one envelope does.
LEMMA LogGrows ==
  ASSUME IInv, NEW ps, NEW e, Logged(ps, e)
  PROVE  /\ log' = [p \in Peers |-> log'[p]] /\ last' = [p \in Peers |-> last'[p]]
         /\ LastInLog'
         /\ \A p \in Peers : \A f \in log'[p] : f \in log[p] \/ (f = e /\ p \in ps)
<1>1. \A p \in Peers : log'[p] = IF p \in ps THEN log[p] \cup {e} ELSE log[p]
  BY DEF Logged
<1>2. \A p \in Peers : last'[p] =
        IF p \in ps
          THEN [k \in DOMAIN last[p] \cup {e.kind} |-> IF k = e.kind THEN e ELSE last[p][k]]
          ELSE last[p]
  BY DEF Logged
<1>3. ASSUME NEW p \in Peers
      PROVE  /\ DOMAIN last'[p] = Kinds(p)'
             /\ \A k \in Kinds(p)' : last'[p][k] \in log'[p] /\ last'[p][k].kind = k
  <2>1. Kinds(p)' = IF p \in ps THEN Kinds(p) \cup {e.kind} ELSE Kinds(p)
    BY <1>1 DEF Kinds
  <2>2. /\ DOMAIN last[p] = Kinds(p)
        /\ \A k \in Kinds(p) : last[p][k] \in log[p] /\ last[p][k].kind = k
    BY DEF IInv, LastInLog
  <2>3. CASE p \in ps
    <3>1. last'[p] = [k \in Kinds(p) \cup {e.kind} |->
                        IF k = e.kind THEN e ELSE last[p][k]]
      BY <1>2, <2>2, <2>3
    <3>2. log'[p] = log[p] \cup {e} /\ Kinds(p)' = Kinds(p) \cup {e.kind}
      BY <1>1, <2>1, <2>3
    <3>3. DOMAIN last'[p] = Kinds(p)'
      BY <3>1, <3>2
    <3>4. ASSUME NEW k \in Kinds(p)'
          PROVE  last'[p][k] \in log'[p] /\ last'[p][k].kind = k
      <4>1. CASE k = e.kind
        BY <3>1, <3>2, <4>1
      <4>2. CASE k # e.kind
        <5>1. k \in Kinds(p) /\ last'[p][k] = last[p][k]
          BY <3>1, <3>2, <3>4, <4>2
        <5> QED
          BY <2>2, <3>2, <5>1
      <4> QED
        BY <4>1, <4>2
    <3> QED
      BY <3>3, <3>4
  <2>4. CASE p \notin ps
    BY <1>1, <1>2, <2>1, <2>2, <2>4
  <2> QED
    BY <2>3, <2>4
<1>4. LastInLog'
  BY <1>3 DEF LastInLog
<1>5. log' = [p \in Peers |-> log'[p]] /\ last' = [p \in Peers |-> last'[p]]
  BY DEF Logged
<1> QED
  BY <1>1, <1>4, <1>5

\* Posted: an envelope for the swap channel reaches those who joined, if its
\* signer did.
LEMMA Posted ==
  ASSUME NEW e, Post(e)
  PROVE  /\ Logged({e.by}, e)
         /\ \A c \in net' : c \in net \/ (c.env = e /\ c.to # e.by /\ e.by \in joined)
BY DEF Post, Copies, Audience

\* Quiet: a step that logs nothing may do what it likes with sound copies.
LEMMA Quiet ==
  ASSUME Apart, IInv, UNCHANGED <<log, last, locked>>,
         \A c \in net' : c \in net \/ Sound(c)',
         \A m \in Makers \cap joined' : m \in joined \/ Chosen(m)'
  PROVE  IInv'
<1>1. Shape' /\ LastInLog' /\ LockStays
  BY DEF IInv, Shape, LastInLog, LockStays, Kinds
<1>2. \A p \in Peers : \A e \in log'[p] : e \in log[p]
  OBVIOUS
<1> QED
  BY <1>1, <1>2, NewOnly

\* Logging: a step that logs one envelope keeps IInv if the envelope is backed.
LEMMA Logging ==
  ASSUME Apart, IInv, NEW ps, NEW e, Logged(ps, e), LockStays,
         \A p \in Peers : p \in ps => Backed(p, e)',
         \A c \in net' : c \in net \/ Sound(c)',
         \A m \in Makers \cap joined' : m \in joined \/ Chosen(m)'
  PROVE  IInv'
<1>1. /\ log' = [p \in Peers |-> log'[p]] /\ last' = [p \in Peers |-> last'[p]]
      /\ LastInLog'
      /\ \A p \in Peers : \A f \in log'[p] : f \in log[p] \/ (f = e /\ p \in ps)
  BY LogGrows
<1>2. locked' \in Quotes \cup {NoQuote}
  BY DEF LockStays, IInv, Shape
<1>3. Shape'
  BY <1>1, <1>2 DEF Shape
<1>4. \A p \in Peers : \A f \in log'[p] : f \in log[p] \/ Backed(p, f)'
  BY <1>1
<1> QED
  BY <1>1, <1>3, <1>4, NewOnly

\* Announced: the same for what goes to the RFQ channel and needs no backing.
LEMMA Announced ==
  ASSUME Apart, IInv, NEW e, NEW f, Announce(e, f), LockStays,
         e.kind \notin {"terms", "accept"},
         e.kind = "quote_accept" => locked' \in Quotes /\ e = QuoteAccept(locked'),
         UNCHANGED net, \A m \in Makers \cap joined' : m \in joined \/ Chosen(m)'
  PROVE  IInv'
<1>1. PICK lost \in SUBSET (Peers \ {e.by}) : Logged(Peers \ lost, e)
  BY DEF Announce
<1>2. \A p \in Peers : Backed(p, e)'
  BY DEF Backed, QuoteAccept
<1> QED
  BY <1>1, <1>2, Logging

\* OwnAccept: the accept a maker answers is about its own, locked quote.
LEMMA OwnAccept ==
  ASSUME Apart, IInv, NEW m \in Makers, NEW q \in Quotes, MyAccept(m, q)
  PROVE  Chosen(m)
<1>1. QuoteAccept(q) \in log[m] /\ q.maker = m /\ m \in Peers
  BY DEF MyAccept, Peers
<1>2. Backed(m, QuoteAccept(q))
  BY <1>1 DEF IInv, LogsBacked
<1>3. locked \in Quotes /\ QuoteAccept(q) = QuoteAccept(locked)
  BY <1>2 DEF Backed, QuoteAccept, Env
<1>4. QuoteAccept(q).re = q /\ QuoteAccept(locked).re = locked
  BY DEF QuoteAccept, Env
<1> QED
  BY <1>1, <1>3, <1>4 DEF Chosen

\* TermsKnown: the latest TERMS are in the log.
LEMMA TermsKnown ==
  ASSUME IInv, NEW p \in Peers, HasTerms(p)
  PROVE  /\ Latest(p, "terms") \in log[p] /\ Latest(p, "terms").kind = "terms"
         /\ Backed(p, Latest(p, "terms"))
<1>1. "terms" \in Kinds(p)
  BY DEF HasTerms, Knows
<1>2. Latest(p, "terms") \in log[p] /\ Latest(p, "terms").kind = "terms"
  BY <1>1 DEF IInv, LastInLog, Latest
<1> QED
  BY <1>2 DEF IInv, LogsBacked

-----------------------------------------------------------------------------
\* MakerSteps: what makers do keeps IInv.
LEMMA MakerSteps ==
  ASSUME Apart, IInv, NEW m \in Makers, MakerStep(m)
  PROVE  IInv'
<1>0. m \in Peers /\ m # Taker
  BY DEF Peers, Apart
<1>1. ASSUME NEW r \in Rfqs, PostQuote(m, r) PROVE IInv'
  <2> DEFINE e == Quote([maker |-> m, rfq |-> r])
  <2>1. Announce(e, 0) /\ UNCHANGED <<net, joined, locked>>
    BY <1>1 DEF PostQuote
  <2>2. e.kind = "quote"
    BY DEF Quote, Env
  <2> HIDE DEF e
  <2> QED
    BY <2>1, <2>2, Announced DEF LockStays
<1>2. ASSUME NEW q \in Quotes, SendInvite(m, q) PROVE IInv'
  <2> DEFINE e == Env("swap_invite", m, Taker, q)
  <2>1. Chosen(m)
    BY <1>2, OwnAccept DEF SendInvite, InviteDue
  <2>2. /\ Announce(e, 0) \/ Announce(e, 1)
        /\ joined' \in {joined, joined \cup {m}} /\ UNCHANGED <<net, locked>>
    BY <1>2 DEF SendInvite
  <2>3. e.kind = "swap_invite"
    BY DEF Env
  <2>4. LockStays /\ \A x \in Makers \cap joined' : x \in joined \/ Chosen(x)'
    BY <2>1, <2>2 DEF LockStays, Chosen
  <2> HIDE DEF e
  <2> QED
    BY <2>2, <2>3, <2>4, Announced
<1>3. ASSUME NEW q \in Quotes, InviteExists(m, q) PROVE IInv'
  BY <1>3, Quiet DEF InviteExists
<1>4. CASE PostTerms(m)
  <2>1. PICK e : e = Terms(m, Latest(m, "quote").re)
    OBVIOUS
  <2>2. Post(e) /\ UNCHANGED <<joined, locked>>
    BY <1>4, <2>1 DEF PostTerms
  <2>3. e.kind = "terms" /\ e.by = m
    BY <2>1 DEF Terms, Env
  <2>4. /\ Logged({m}, e)
        /\ \A c \in net' : c \in net \/ (c.env = e /\ m \in joined)
    BY <2>2, <2>3, Posted
  <2>5. \A p \in Peers : p \in {m} => Backed(p, e)'
    BY <1>0, <2>3 DEF Backed
  <2>6. m \in joined => Chosen(m)'
    BY <2>2 DEF IInv, JoinedChosen, Chosen
  <2>7. \A c \in net' : c \in net \/ Sound(c)'
    BY <2>3, <2>4, <2>6 DEF Sound
  <2> QED
    BY <2>2, <2>4, <2>5, <2>7, Logging DEF LockStays
<1>5. CASE ReplayTerms(m)
  <2>1. /\ HasTerms(m) /\ m \in joined /\ UNCHANGED <<log, last, joined, locked>>
        /\ net' = net \cup Copies(Latest(m, "terms"), m)
    BY <1>5 DEF ReplayTerms
  <2>2. PICK t : t = Latest(m, "terms")
    OBVIOUS
  <2>3. t.kind = "terms" /\ Backed(m, t)
    BY <1>0, <2>1, <2>2, TermsKnown
  <2>4. Chosen(m)
    BY <2>1 DEF IInv, JoinedChosen
  <2>5. Chosen(t.by)'
    BY <2>1, <2>3, <2>4 DEF Backed, Chosen
  <2>6. \A c \in net' : c \in net \/ c.env = t
    BY <2>1, <2>2 DEF Copies
  <2>7. \A c \in net' : c \in net \/ Sound(c)'
    BY <2>3, <2>5, <2>6 DEF Sound
  <2> QED
    BY <2>1, <2>7, Quiet
<1> QED
  BY <1>1, <1>2, <1>3, <1>4, <1>5 DEF MakerStep

\* TakerSteps: what the taker does keeps IInv.
LEMMA TakerSteps ==
  ASSUME Apart, IInv, TakerStep
  PROVE  IInv'
<1>0. Taker \in Peers /\ Taker \notin Makers
  BY DEF Peers, Apart
<1>1. ASSUME NEW r \in Rfqs, PostRfq(r) PROVE IInv'
  <2>1. Announce(Rfq(r), 0) /\ UNCHANGED <<net, joined, locked>>
    BY <1>1 DEF PostRfq
  <2>2. Rfq(r).kind = "rfq"
    BY DEF Rfq, Env
  <2> QED
    BY <2>1, <2>2, Announced DEF LockStays
<1>2. ASSUME NEW q \in Quotes, AcceptQuote(q) PROVE IInv'
  <2>1. PICK e : e = QuoteAccept(q)
    OBVIOUS
  <2>2. /\ Announce(e, 0) /\ UNCHANGED <<net, joined>>
        /\ locked \in {NoQuote, q} /\ locked' = q
    BY <1>2, <2>1 DEF AcceptQuote, LockFree
  <2>3. e.kind = "quote_accept"
    BY <2>1 DEF QuoteAccept, Env
  <2>4. LockStays
    BY <2>2 DEF LockStays
  <2>5. locked' \in Quotes /\ e = QuoteAccept(locked')
    BY <2>1, <2>2 DEF QuoteAccept
  <2> QED
    BY <2>2, <2>3, <2>4, <2>5, Announced
<1>3. ASSUME NEW i \in log[Taker], JoinInvite(i) PROVE IInv'
  <2>1. /\ UNCHANGED <<log, last, locked>> /\ joined' = joined \cup {Taker}
        /\ \A c \in net' : c \in net \/ c.env = Auth(i.by)
    BY <1>3 DEF JoinInvite, JoinChannel
  <2>2. Auth(i.by).kind = "auth"
    BY DEF Auth, Env
  <2>3. \A c \in net' : c \in net \/ Sound(c)'
    BY <2>1, <2>2 DEF Sound
  <2>4. \A m \in Makers \cap joined' : m \in joined
    BY <1>0, <2>1
  <2> QED
    BY <2>1, <2>3, <2>4, Quiet
<1>4. CASE Ping
  <2>1. PICK m : m = Latest(Taker, "swap_invite").by
    OBVIOUS
  <2>2. /\ UNCHANGED <<log, last, locked, joined>>
        /\ \A c \in net' : c \in net \/ c.env = Auth(m)
    BY <1>4, <2>1 DEF Ping
  <2>3. Auth(m).kind = "auth"
    BY DEF Auth, Env
  <2>4. \A c \in net' : c \in net \/ Sound(c)'
    BY <2>2, <2>3 DEF Sound
  <2> QED
    BY <2>2, <2>4, Quiet
<1>5. CASE WaitTimesOut
  BY <1>5, Quiet DEF WaitTimesOut
<1>6. CASE AcceptTerms
  <2>1. PICK t : t = Latest(Taker, "terms")
    OBVIOUS
  <2>2. HasTerms(Taker) /\ Post(Accept(t)) /\ UNCHANGED <<joined, locked>>
    BY <1>6, <2>1 DEF AcceptTerms, AcceptDue
  <2>3. t.kind = "terms" /\ Backed(Taker, t)
    BY <1>0, <2>1, <2>2, TermsKnown
  <2>4. Chosen(t.by)
    BY <2>3 DEF Backed
  <2>5. PICK e : e = Accept(t)
    OBVIOUS
  <2>6. e.kind = "accept" /\ e.by = Taker /\ e.to = t.by
    BY <2>5 DEF Accept, Env
  <2>7. /\ Logged({Taker}, e)
        /\ \A c \in net' : c \in net \/ (c.env = e /\ c.to # Taker)
    BY <2>2, <2>5, <2>6, Posted
  <2>8. \A p \in Peers : p \in {Taker} => Backed(p, e)'
    BY <2>2, <2>4, <2>6 DEF Backed, Chosen
  <2>9. \A c \in net' : c \in net \/ Sound(c)'
    BY <2>6, <2>7 DEF Sound
  <2> QED
    BY <2>2, <2>7, <2>8, <2>9, Logging DEF LockStays
<1> QED
  BY <1>1, <1>2, <1>3, <1>4, <1>5, <1>6 DEF TakerStep

\* WorldSteps: restarts, the sidechannel and time keep IInv.
LEMMA WorldSteps ==
  ASSUME Apart, IInv,
         \/ \E p \in Peers : Restart(p)
         \/ \E c \in net : Deliver(c) \/ Lose(c)
         \/ Expire
  PROVE  IInv'
<1>1. ASSUME NEW p \in Peers, Restart(p) PROVE IInv'
  <2>1. /\ UNCHANGED <<net, joined, locked>>
        /\ log' = [log EXCEPT ![p] = {}]
        /\ last' = [last EXCEPT ![p] = [k \in {} |-> NoQuote]]
    BY <1>1 DEF Restart
  <2>2. log = [x \in Peers |-> log[x]] /\ last = [x \in Peers |-> last[x]]
    BY DEF IInv, Shape
  <2>3. \A x \in Peers : /\ log'[x] = IF x = p THEN {} ELSE log[x]
                         /\ last'[x] = IF x = p THEN [k \in {} |-> NoQuote] ELSE last[x]
    BY <2>1, <2>2
  <2>4. log' = [x \in Peers |-> log'[x]] /\ last' = [x \in Peers |-> last'[x]]
    BY <2>1, <2>2
  <2>5. Shape'
    BY <2>1, <2>4 DEF IInv, Shape
  <2>6. ASSUME NEW x \in Peers
        PROVE  /\ DOMAIN last'[x] = Kinds(x)'
               /\ \A k \in Kinds(x)' : last'[x][k] \in log'[x] /\ last'[x][k].kind = k
    <3>1. CASE x = p
      <4>1. Kinds(x)' = {} /\ DOMAIN last'[x] = {}
        BY <2>3, <3>1 DEF Kinds
      <4> QED
        BY <4>1
    <3>2. CASE x # p
      <4>1. Kinds(x)' = Kinds(x) /\ last'[x] = last[x] /\ log'[x] = log[x]
        BY <2>3, <3>2 DEF Kinds
      <4> QED
        BY <4>1 DEF IInv, LastInLog
    <3> QED
      BY <3>1, <3>2
  <2>7. LastInLog'
    BY <2>6 DEF LastInLog
  <2>8. \A x \in Peers : \A e \in log'[x] : e \in log[x]
    BY <2>3
  <2> QED
    BY <2>1, <2>5, <2>7, <2>8, NewOnly DEF LockStays
<1>2. ASSUME NEW c \in net, Deliver(c) PROVE IInv'
  <2>1. UNCHANGED <<joined, locked>> /\ \A x \in net' : x \in net
    BY <1>2 DEF Deliver
  <2>2. \/ UNCHANGED <<log, last>>
        \/ c.env.kind # "auth" /\ Logged({c.to}, c.env)
    BY <1>2 DEF Deliver
  <2>3. CASE UNCHANGED <<log, last>>
    BY <2>1, <2>3, Quiet
  <2>4. CASE c.env.kind # "auth" /\ Logged({c.to}, c.env)
    <3>1. Sound(c)
      BY DEF IInv, NetSound
    <3>2. \A p \in Peers : p \in {c.to} => Backed(p, c.env)'
      BY <2>1, <2>4, <3>1 DEF Sound, Backed, Chosen
    <3> QED
      BY <2>1, <2>4, <3>2, Logging DEF LockStays
  <2> QED
    BY <2>2, <2>3, <2>4
<1>3. ASSUME NEW c \in net, Lose(c) PROVE IInv'
  BY <1>3, Quiet DEF Lose
<1>4. CASE Expire
  BY <1>4, Quiet DEF Expire
<1> QED
  BY <1>1, <1>2, <1>3, <1>4

-----------------------------------------------------------------------------
\* Begins: the initial state satisfies IInv.
LEMMA Begins ==
  ASSUME Apart, Init
  PROVE  IInv
<1>1. Shape /\ NetSound /\ JoinedChosen
  BY DEF Init, Shape, NetSound, JoinedChosen
<1>2. \A p \in Peers : log[p] = {} /\ last[p] = [k \in {} |-> NoQuote]
  BY DEF Init
<1>3. \A p \in Peers : Kinds(p) = {} /\ DOMAIN last[p] = {}
  BY <1>2 DEF Kinds
<1> QED
  BY <1>1, <1>2, <1>3 DEF IInv, LastInLog, LogsBacked

\* Inductive: every step keeps IInv.
LEMMA Inductive ==
  ASSUME Apart, IInv, [Next]_vars
  PROVE  IInv'
<1>1. CASE Next
  BY <1>1, MakerSteps, TakerSteps, WorldSteps DEF Next
<1>2. CASE UNCHANGED vars
  BY <1>2, Quiet DEF vars
<1> QED
  BY <1>1, <1>2

\* Always: IInv is an invariant of the negotiation.
LEMMA Always == ASSUME Apart PROVE Spec => []IInv
<1>1. Init => IInv
  BY Begins
<1>2. IInv /\ [Next]_vars => IInv'
  BY Inductive
<1> QED
  BY <1>1, <1>2, PTL DEF Spec

\* Accepts of two quotes of a trade are never abroad, whatever is lost, restarted
\* or reposted: the listing lock in the receipts outlives the worker's own lock
\* (executor.js:4046-4132, tradeAuto.js:2013).
THEOREM OneQuoteCommitted == ASSUME Apart PROVE Spec => []OneCommitment
<1>1. IInv => OneCommitment
  BY DEF IInv, LogsBacked, Backed, OneCommitment
<1> QED
  BY <1>1, Always, PTL

\* A taker binds itself only to TERMS signed by the maker whose quote it locked:
\* that maker alone invites it, so that its channel carries no other TERMS
\* (tradeAuto.js:1810-1813, 1856-1920, executor.js:5044-5106).
THEOREM BoundToItsMaker == ASSUME Apart PROVE Spec => []AcceptsItsMaker
<1>1. ASSUME IInv PROVE AcceptsItsMaker
  <2>1. Taker \in Peers /\ NoQuote \notin Quotes
    BY DEF Peers, NoQuote, Quotes, Apart
  <2> QED
    BY <1>1, <2>1 DEF IInv, LogsBacked, Backed, Chosen, AcceptsItsMaker
<1>2. IInv => AcceptsItsMaker
  BY <1>1
<1> QED
  BY <1>2, Always, PTL
-----------------------------------------------------------------------------
(***************************************************************************)
(* The types: an envelope carries what its kind says, wherever it is, so   *)
(* that what is taken from the latest quote, TERMS or invite is a quote or *)
(* a maker.                                                                *)
(***************************************************************************)
Bounded ==
  /\ PingMax \in Nat /\ ReplayMax \in Nat /\ MaxFaults \in Nat
  /\ IsFiniteSet(Makers)

Proper(e) ==
  /\ e \in Envs
  /\ e.kind \in {"quote", "terms"} => e.re \in Quotes
  /\ e.kind \in {"terms", "swap_invite"} => e.by \in Makers

Copy(c) ==
  /\ c \in [env : Envs, to : Peers]
  /\ Proper(c.env) /\ (c.env.kind = "auth" => c.to \in Makers)

LogsProper == \A p \in Peers : \A e \in log[p] : Proper(e)

NetProper == \A c \in net : Copy(c)

TypedInv == TypeOK /\ LogsProper /\ NetProper

\* EnvProper: an envelope of known parties and contents is proper.
LEMMA EnvProper ==
  ASSUME NEW kind \in Kind \cup {"auth"}, NEW by \in Peers, NEW to \in Peers \cup {None},
         NEW re \in [maker : Makers \cup {None}, rfq : Rfqs \cup {None}],
         kind \in {"quote", "terms"} => re \in Quotes,
         kind \in {"terms", "swap_invite"} => by \in Makers
  PROVE  Proper(Env(kind, by, to, re))
BY DEF Proper, Env, Envs

\* QuoteFits: a quote, or none, is something an envelope may be about.
LEMMA QuoteFits ==
  ASSUME NEW q \in Quotes \cup {NoQuote}
  PROVE  q \in [maker : Makers \cup {None}, rfq : Rfqs \cup {None}]
BY DEF Quotes, NoQuote

\* FaultsTyped: faults are counted by a number, whatever number of peers miss a message.
LEMMA FaultsTyped ==
  ASSUME Bounded, faults \in 0 .. MaxFaults, NEW n \in Nat, Faulty(n)
  PROVE  faults' \in 0 .. MaxFaults
BY DEF Faulty, Bounded

\* MissedTyped: the peers that miss a message can be counted.
LEMMA MissedTyped ==
  ASSUME Bounded, NEW lost \in SUBSET Peers
  PROVE  Cardinality(lost) \in Nat
<1>1. IsFiniteSet(Peers)
  BY FS_AddElement DEF Bounded, Peers
<1> QED
  BY <1>1, FS_Subset, FS_CardinalityType

\* LoggedTyped: logging a proper envelope keeps the logs proper.
LEMMA LoggedTyped ==
  ASSUME TypedInv, IInv, NEW ps, NEW e, Logged(ps, e), Proper(e)
  PROVE  LogsProper' /\ \A p \in Peers : log'[p] \subseteq Envs /\ DOMAIN last'[p] = Kinds(p)'
<1>1. /\ LastInLog'
      /\ \A p \in Peers : \A f \in log'[p] : f \in log[p] \/ (f = e /\ p \in ps)
  BY LogGrows
<1>2. LogsProper'
  BY <1>1 DEF TypedInv, LogsProper, Proper
<1> QED
  BY <1>1, <1>2 DEF LogsProper, Proper, LastInLog

\* QuietTyped: so does a step that logs nothing.
LEMMA QuietTyped ==
  ASSUME TypedInv, UNCHANGED <<log, last>>
  PROVE  LogsProper' /\ \A p \in Peers : log'[p] \subseteq Envs /\ DOMAIN last'[p] = Kinds(p)'
BY DEF TypedInv, LogsProper, TypeOK, Kinds

\* AnnouncedTyped: a proper envelope for the RFQ channel keeps logs and faults typed.
LEMMA AnnouncedTyped ==
  ASSUME Bounded, TypedInv, IInv, NEW e, NEW f \in Nat, Announce(e, f), Proper(e)
  PROVE  /\ LogsProper'
         /\ \A p \in Peers : log'[p] \subseteq Envs /\ DOMAIN last'[p] = Kinds(p)'
         /\ faults' \in 0 .. MaxFaults
<1>1. PICK lost \in SUBSET (Peers \ {e.by}) :
        Faulty(f + Cardinality(lost)) /\ Logged(Peers \ lost, e)
  BY DEF Announce
<1>2. PICK n : n = f + Cardinality(lost)
  OBVIOUS
<1>3. lost \in SUBSET Peers
  OBVIOUS
<1>4. n \in Nat /\ Faulty(n)
  BY <1>1, <1>2, <1>3, MissedTyped
<1>5. faults' \in 0 .. MaxFaults
  BY <1>4, FaultsTyped DEF TypedInv, TypeOK
<1> QED
  BY <1>1, <1>5, LoggedTyped

\* LatestProper: the latest of a kind a peer knows is a proper envelope of the kind.
LEMMA LatestProper ==
  ASSUME TypedInv, IInv, NEW p \in Peers, NEW k, k \in Kinds(p)
  PROVE  Proper(Latest(p, k)) /\ Latest(p, k).kind = k
BY DEF IInv, LastInLog, Latest, TypedInv, LogsProper

\* PostedTyped: a proper envelope for the swap channel keeps log and net proper.
LEMMA PostedTyped ==
  ASSUME TypedInv, IInv, NEW e, Post(e), Proper(e), e.kind # "auth"
  PROVE  /\ LogsProper' /\ NetProper'
         /\ \A p \in Peers : log'[p] \subseteq Envs /\ DOMAIN last'[p] = Kinds(p)'
<1>1. Logged({e.by}, e) /\ net' = net \cup Copies(e, e.by)
  BY DEF Post
<1>2. \A c \in Copies(e, e.by) : c = [env |-> e, to |-> c.to] /\ c.to \in Peers
  BY DEF Copies, Audience, TypedInv, TypeOK
<1>3. \A c \in Copies(e, e.by) : Copy(c)
  BY <1>2 DEF Copy, Proper
<1>4. NetProper'
  BY <1>1, <1>3 DEF TypedInv, NetProper, Copy, Proper
<1> QED
  BY <1>1, <1>4, LoggedTyped

\* NetTyped: proper copies are copies of envelopes for peers.
LEMMA NetTyped == NetProper => net \subseteq [env : Envs, to : Peers]
BY DEF NetProper, Copy

\* MakerTypes: what makers do keeps the types.
LEMMA MakerTypes ==
  ASSUME Apart, Bounded, IInv, TypedInv, NEW m \in Makers, MakerStep(m)
  PROVE  TypedInv'
<1>0. m \in Peers /\ Taker \in Peers
  BY DEF Peers
<1>1. ASSUME NEW r \in Rfqs, PostQuote(m, r) PROVE TypedInv'
  <2>1. PICK q \in Quotes : q = [maker |-> m, rfq |-> r]
    BY DEF Quotes
  <2>2. Proper(Quote(q))
    <3>1. q.maker \in Peers /\ "quote" \in Kind
      BY <1>0, <2>1 DEF Kind
    <3> QED
      BY <1>0, <3>1, QuoteFits, EnvProper DEF Quote
  <2>3. PICK e : e = Quote(q)
    OBVIOUS
  <2>4. Announce(e, 0) /\ UNCHANGED <<net, joined, authed, locked, wait, replays, expired>>
    BY <1>1, <2>1, <2>3 DEF PostQuote
  <2>5. /\ LogsProper' /\ faults' \in 0 .. MaxFaults
        /\ \A p \in Peers : log'[p] \subseteq Envs /\ DOMAIN last'[p] = Kinds(p)'
    BY <2>2, <2>3, <2>4, AnnouncedTyped
  <2> QED
    BY <2>4, <2>5 DEF TypedInv, TypeOK, NetProper
<1>2. ASSUME NEW q \in Quotes, SendInvite(m, q) PROVE TypedInv'
  <2>1. PICK e : e = Env("swap_invite", m, Taker, q)
    OBVIOUS
  <2>2. Proper(e)
    <3>1. "swap_invite" \in Kind
      BY DEF Kind
    <3> QED
      BY <1>0, <2>1, <3>1, QuoteFits, EnvProper
  <2>3. /\ \E f \in {0, 1} : Announce(e, f)
        /\ joined' \in {joined, joined \cup {m}}
        /\ UNCHANGED <<net, authed, locked, wait, replays, expired>>
    BY <1>2, <2>1 DEF SendInvite
  <2>4. /\ LogsProper' /\ faults' \in 0 .. MaxFaults
        /\ \A p \in Peers : log'[p] \subseteq Envs /\ DOMAIN last'[p] = Kinds(p)'
    BY <2>2, <2>3, AnnouncedTyped
  <2> QED
    BY <1>0, <2>3, <2>4 DEF TypedInv, TypeOK, NetProper
<1>3. ASSUME NEW q \in Quotes, InviteExists(m, q) PROVE TypedInv'
  BY <1>3, QuietTyped DEF InviteExists, TypedInv, TypeOK, NetProper
<1>4. CASE PostTerms(m)
  <2>1. PICK q : q = Latest(m, "quote").re
    OBVIOUS
  <2>2. q \in Quotes
    BY <1>0, <1>4, <2>1, LatestProper DEF PostTerms, TermsDue, Proper
  <2>3. PICK e : e = Terms(m, q)
    OBVIOUS
  <2>4. Proper(e) /\ e.kind # "auth"
    <3>1. "terms" \in Kind
      BY DEF Kind
    <3>2. Proper(Terms(m, q))
      BY <1>0, <2>2, <3>1, QuoteFits, EnvProper DEF Terms
    <3> QED
      BY <2>3, <3>2 DEF Terms, Env
  <2>5. Post(e) /\ UNCHANGED <<joined, authed, locked, wait, replays, expired, faults>>
    BY <1>4, <2>1, <2>3 DEF PostTerms
  <2>6. /\ LogsProper' /\ NetProper'
        /\ \A p \in Peers : log'[p] \subseteq Envs /\ DOMAIN last'[p] = Kinds(p)'
    BY <2>4, <2>5, PostedTyped
  <2>7. net' \subseteq [env : Envs, to : Peers]
    BY <2>6 DEF NetProper, Copy
  <2> QED
    BY <2>5, <2>6, <2>7 DEF TypedInv, TypeOK
<1>5. CASE ReplayTerms(m)
  <2>1. PICK t : t = Latest(m, "terms")
    OBVIOUS
  <2>2. Proper(t) /\ t.kind = "terms"
    BY <1>0, <1>5, <2>1, LatestProper DEF ReplayTerms, HasTerms, Knows
  <2>3. /\ net' = net \cup Copies(t, m) /\ ReplaysLeft(m)
        /\ replays' = [replays EXCEPT ![m] = @ + 1]
        /\ UNCHANGED <<log, last, joined, authed, locked, wait, expired, faults>>
    BY <1>5, <2>1 DEF ReplayTerms
  <2>4. \A c \in Copies(t, m) : c = [env |-> t, to |-> c.to] /\ c.to \in Peers
    BY DEF Copies, Audience, TypedInv, TypeOK
  <2>5. \A c \in Copies(t, m) : Copy(c)
    BY <2>2, <2>4 DEF Copy, Proper
  <2>6. NetProper'
    BY <2>3, <2>5 DEF TypedInv, NetProper, Copy, Proper
  <2>7. replays' \in [Makers -> 0 .. ReplayMax]
    BY <2>3 DEF TypedInv, TypeOK, ReplaysLeft, Bounded
  <2>8. net' \subseteq [env : Envs, to : Peers]
    BY <2>6 DEF NetProper, Copy
  <2>9. LogsProper' /\ \A p \in Peers : log'[p] \subseteq Envs /\ DOMAIN last'[p] = Kinds(p)'
    BY <2>3, QuietTyped
  <2> QED
    BY <2>3, <2>6, <2>7, <2>8, <2>9 DEF TypedInv, TypeOK
<1> QED
  BY <1>1, <1>2, <1>3, <1>4, <1>5 DEF MakerStep

\* TakerTypes: so does what the taker does.
LEMMA TakerTypes ==
  ASSUME Apart, Bounded, IInv, TypedInv, TakerStep
  PROVE  TypedInv'
<1>0. Taker \in Peers /\ Makers \subseteq Peers
  BY DEF Peers
<1>1. ASSUME NEW r \in Rfqs, PostRfq(r) PROVE TypedInv'
  <2>1. PICK e : e = Rfq(r)
    OBVIOUS
  <2>2. Proper(e)
    <3>1. "rfq" \in Kind /\ [maker |-> None, rfq |-> r] \in
                              [maker : Makers \cup {None}, rfq : Rfqs \cup {None}]
      BY DEF Kind
    <3> QED
      BY <1>0, <2>1, <3>1, EnvProper DEF Rfq
  <2>3. Announce(e, 0) /\ UNCHANGED <<net, joined, authed, locked, wait, replays, expired>>
    BY <1>1, <2>1 DEF PostRfq
  <2>4. /\ LogsProper' /\ faults' \in 0 .. MaxFaults
        /\ \A p \in Peers : log'[p] \subseteq Envs /\ DOMAIN last'[p] = Kinds(p)'
    BY <2>2, <2>3, AnnouncedTyped
  <2> QED
    BY <2>3, <2>4 DEF TypedInv, TypeOK, NetProper
<1>2. ASSUME NEW q \in Quotes, AcceptQuote(q) PROVE TypedInv'
  <2>1. PICK e : e = QuoteAccept(q)
    OBVIOUS
  <2>2. Proper(e)
    <3>1. "quote_accept" \in Kind /\ q.maker \in Peers
      BY <1>0 DEF Kind, Quotes
    <3> QED
      BY <1>0, <2>1, <3>1, QuoteFits, EnvProper DEF QuoteAccept
  <2>3. /\ Announce(e, 0) /\ locked' = q
        /\ UNCHANGED <<net, joined, authed, wait, replays, expired>>
    BY <1>2, <2>1 DEF AcceptQuote
  <2>4. /\ LogsProper' /\ faults' \in 0 .. MaxFaults
        /\ \A p \in Peers : log'[p] \subseteq Envs /\ DOMAIN last'[p] = Kinds(p)'
    BY <2>2, <2>3, AnnouncedTyped
  <2> QED
    BY <2>3, <2>4 DEF TypedInv, TypeOK, NetProper
<1>3. ASSUME NEW x \in Makers
      PROVE  Copy([env |-> Auth(x), to |-> x])
  <2>1. Proper(Auth(x))
    BY <1>0, QuoteFits, EnvProper DEF Auth
  <2> QED
    BY <1>0, <2>1 DEF Copy, Proper
<1>4. ASSUME NEW i \in log[Taker], JoinInvite(i) PROVE TypedInv'
  <2>1. i.by \in Makers
    BY <1>0, <1>4 DEF JoinInvite, JoinChannel, TypedInv, LogsProper, Proper
  <2>2. /\ joined' = joined \cup {Taker}
        /\ \A c \in net' : c \in net \/ c = [env |-> Auth(i.by), to |-> i.by]
        /\ UNCHANGED <<log, last, authed, locked, wait, replays, expired, faults>>
    BY <1>4 DEF JoinInvite, JoinChannel
  <2>3. \A c \in net' : Copy(c)
    BY <1>3, <2>1, <2>2 DEF TypedInv, NetProper
  <2>4. NetProper' /\ net' \subseteq [env : Envs, to : Peers]
    BY <2>3 DEF NetProper, Copy, Proper
  <2>5. LogsProper' /\ \A p \in Peers : log'[p] \subseteq Envs /\ DOMAIN last'[p] = Kinds(p)'
    BY <2>2, QuietTyped
  <2> QED
    BY <1>0, <2>2, <2>4, <2>5 DEF TypedInv, TypeOK
<1>5. CASE Ping
  <2>1. PICK m : m = Latest(Taker, "swap_invite").by
    OBVIOUS
  <2>2. Knows(Taker, "swap_invite") => m \in Makers
    BY <1>0, <2>1, LatestProper DEF Knows, Proper
  <2>3. /\ \A c \in net' : c \in net \/ (m \in Makers /\ c = [env |-> Auth(m), to |-> m])
        /\ UNCHANGED <<log, last, joined, authed, locked, replays, expired, faults>>
    BY <1>5, <2>1, <2>2 DEF Ping
  <2>4. \A c \in net' : Copy(c)
    BY <1>3, <2>3 DEF TypedInv, NetProper
  <2>5. NetProper' /\ net' \subseteq [env : Envs, to : Peers]
    BY <2>4 DEF NetProper, Copy, Proper
  <2>6. wait' \in [pings : 0 .. PingMax, timedOut : BOOLEAN]
    BY <1>5 DEF Ping, PingsLeft, TypedInv, TypeOK, Bounded
  <2>7. LogsProper' /\ \A p \in Peers : log'[p] \subseteq Envs /\ DOMAIN last'[p] = Kinds(p)'
    BY <2>3, QuietTyped
  <2> QED
    BY <2>3, <2>5, <2>6, <2>7 DEF TypedInv, TypeOK
<1>6. CASE WaitTimesOut
  <2>1. wait' \in [pings : 0 .. PingMax, timedOut : BOOLEAN]
    BY <1>6 DEF WaitTimesOut, TypedInv, TypeOK
  <2> QED
    BY <1>6, <2>1, QuietTyped DEF WaitTimesOut, TypedInv, TypeOK, NetProper
<1>7. CASE AcceptTerms
  <2>1. PICK t : t = Latest(Taker, "terms")
    OBVIOUS
  <2>2. Proper(t) /\ t.kind = "terms"
    BY <1>0, <1>7, <2>1, LatestProper DEF AcceptTerms, AcceptDue, HasTerms, Knows
  <2>3. PICK e : e = Accept(t)
    OBVIOUS
  <2>4. Proper(e) /\ e.kind # "auth"
    <3>1. "accept" \in Kind /\ t.by \in Peers /\ t.re \in Quotes
      BY <1>0, <2>2 DEF Kind, Proper
    <3>2. t.re \in [maker : Makers \cup {None}, rfq : Rfqs \cup {None}]
      BY <3>1, QuoteFits
    <3>3. Proper(Accept(t))
      BY <1>0, <3>1, <3>2, EnvProper DEF Accept
    <3> QED
      BY <2>3, <3>3 DEF Accept, Env
  <2>5. /\ Post(e) /\ wait' = NoWait
        /\ UNCHANGED <<joined, authed, locked, replays, expired, faults>>
    BY <1>7, <2>1, <2>3 DEF AcceptTerms
  <2>6. /\ LogsProper' /\ NetProper'
        /\ \A p \in Peers : log'[p] \subseteq Envs /\ DOMAIN last'[p] = Kinds(p)'
    BY <2>4, <2>5, PostedTyped
  <2>7. net' \subseteq [env : Envs, to : Peers]
    BY <2>6 DEF NetProper, Copy
  <2>8. wait' \in [pings : 0 .. PingMax, timedOut : BOOLEAN]
    BY <2>5 DEF NoWait, Bounded
  <2> QED
    BY <2>5, <2>6, <2>7, <2>8 DEF TypedInv, TypeOK
<1> QED
  BY <1>1, <1>2, <1>4, <1>5, <1>6, <1>7 DEF TakerStep

\* WorldTypes: so do restarts, the sidechannel and time.
LEMMA WorldTypes ==
  ASSUME Apart, Bounded, IInv, TypedInv,
         \/ \E p \in Peers : Restart(p)
         \/ \E c \in net : Deliver(c) \/ Lose(c)
         \/ Expire
  PROVE  TypedInv'
<1>1. ASSUME NEW p \in Peers, Restart(p) PROVE TypedInv'
  <2>1. log = [x \in Peers |-> log[x]] /\ last = [x \in Peers |-> last[x]]
    BY DEF IInv, Shape
  <2>2. \A x \in Peers : /\ log'[x] = IF x = p THEN {} ELSE log[x]
                         /\ last'[x] = IF x = p THEN [k \in {} |-> NoQuote] ELSE last[x]
    BY <1>1, <2>1 DEF Restart
  <2>3. ASSUME NEW x \in Peers
        PROVE  log'[x] \subseteq Envs /\ DOMAIN last'[x] = Kinds(x)'
    <3>1. CASE x = p
      <4>1. log'[x] = {} /\ Kinds(x)' = {} /\ DOMAIN last'[x] = {}
        BY <2>2, <3>1 DEF Kinds
      <4> QED
        BY <4>1
    <3>2. CASE x # p
      <4>1. Kinds(x)' = Kinds(x) /\ last'[x] = last[x] /\ log'[x] = log[x]
        BY <2>2, <3>2 DEF Kinds
      <4> QED
        BY <4>1 DEF TypedInv, TypeOK
    <3> QED
      BY <3>1, <3>2
  <2>4. LogsProper'
    BY <2>2 DEF TypedInv, LogsProper, Proper
  <2>5. faults' \in 0 .. MaxFaults
    BY <1>1 DEF Restart, Faulty, TypedInv, TypeOK, Bounded
  <2>6. wait' \in [pings : 0 .. PingMax, timedOut : BOOLEAN]
    BY <1>1 DEF Restart, NoWait, TypedInv, TypeOK, Bounded
  <2>7. replays' \in [Makers -> 0 .. ReplayMax]
    BY <1>1 DEF Restart, TypedInv, TypeOK, Bounded
  <2>8. UNCHANGED <<net, joined, authed, locked, expired>>
    BY <1>1 DEF Restart
  <2> QED
    BY <2>3, <2>4, <2>5, <2>6, <2>7, <2>8 DEF TypedInv, TypeOK, NetProper
<1>2. ASSUME NEW c \in net, Deliver(c) PROVE TypedInv'
  <2>1. Copy(c)
    BY DEF TypedInv, NetProper
  <2>2. net' = net \ {c} /\ UNCHANGED <<joined, locked, wait, replays, expired, faults>>
    BY <1>2 DEF Deliver
  <2>3. /\ UNCHANGED <<log, last>> \/ Logged({c.to}, c.env)
        /\ authed' = authed \/ (c.env.kind = "auth" /\ authed' \subseteq authed \cup {c.to})
    BY <1>2 DEF Deliver
  <2>4. LogsProper' /\ \A p \in Peers : log'[p] \subseteq Envs /\ DOMAIN last'[p] = Kinds(p)'
    BY <2>1, <2>3, QuietTyped, LoggedTyped DEF Copy
  <2>5. authed' \subseteq Makers
    BY <2>1, <2>3 DEF Copy, TypedInv, TypeOK
  <2>6. NetProper' /\ net' \subseteq [env : Envs, to : Peers]
    BY <2>2 DEF TypedInv, TypeOK, NetProper, Copy, Proper
  <2> QED
    BY <2>2, <2>4, <2>5, <2>6 DEF TypedInv, TypeOK
<1>3. ASSUME NEW c \in net, Lose(c) PROVE TypedInv'
  <2>1. /\ net' = net \ {c} /\ Faulty(1)
        /\ UNCHANGED <<log, last, joined, authed, locked, wait, replays, expired>>
    BY <1>3 DEF Lose
  <2>2. faults' \in 0 .. MaxFaults
    BY <2>1, FaultsTyped DEF TypedInv, TypeOK
  <2>3. NetProper' /\ net' \subseteq [env : Envs, to : Peers]
    BY <2>1 DEF TypedInv, TypeOK, NetProper, Copy, Proper
  <2>4. LogsProper' /\ \A p \in Peers : log'[p] \subseteq Envs /\ DOMAIN last'[p] = Kinds(p)'
    BY <2>1, QuietTyped
  <2> QED
    BY <2>1, <2>2, <2>3, <2>4 DEF TypedInv, TypeOK
<1>4. CASE Expire
  <2>1. /\ expired' = { e.re : e \in { f \in UNION { log[p] : p \in Peers } : f.kind = "quote" } }
        /\ UNCHANGED <<log, last, net, joined, authed, locked, wait, replays, faults>>
    BY <1>4 DEF Expire
  <2>2. \A p \in Peers : \A e \in log[p] : e.kind = "quote" => e.re \in Quotes
    BY DEF TypedInv, LogsProper, Proper
  <2>3. expired' \subseteq Quotes
    BY <2>1, <2>2
  <2> QED
    BY <2>1, <2>3, QuietTyped DEF TypedInv, TypeOK, NetProper
<1> QED
  BY <1>1, <1>2, <1>3, <1>4

\* The state of a negotiation keeps its shape: what TERMS and ACCEPT take from the
\* latest quote, TERMS or invite in a log is always there and of its kind
\* (tradeAuto.js:1147, executor.js:4889-4900, 5065-5072).
THEOREM NegotiationTyped == ASSUME Apart, Bounded PROVE Spec => []TypeOK
<1>1. Init => IInv /\ TypedInv
  <2>1. ASSUME Init PROVE TypedInv
    <3>1. \A p \in Peers : log[p] = {} /\ last[p] = [k \in {} |-> NoQuote]
      BY <2>1 DEF Init
    <3>2. \A p \in Peers : Kinds(p) = {} /\ DOMAIN last[p] = {}
      BY <3>1 DEF Kinds
    <3>3. LogsProper /\ NetProper
      BY <2>1, <3>1 DEF Init, LogsProper, NetProper
    <3>4. wait \in [pings : 0 .. PingMax, timedOut : BOOLEAN]
      BY <2>1 DEF Init, NoWait, Bounded
    <3>5. replays \in [Makers -> 0 .. ReplayMax] /\ faults \in 0 .. MaxFaults
      BY <2>1 DEF Init, Bounded
    <3> QED
      BY <2>1, <3>1, <3>2, <3>3, <3>4, <3>5 DEF Init, TypedInv, TypeOK
  <2> QED
    BY <2>1, Begins
<1>2. IInv /\ TypedInv /\ [Next]_vars => IInv' /\ TypedInv'
  <2>1. ASSUME IInv, TypedInv, Next PROVE TypedInv'
    BY <2>1, MakerTypes, TakerTypes, WorldTypes DEF Next
  <2>2. ASSUME TypedInv, UNCHANGED vars PROVE TypedInv'
    BY <2>2 DEF vars, TypedInv, TypeOK, LogsProper, NetProper, Kinds
  <2> QED
    BY <2>1, <2>2, Inductive
<1>3. TypedInv => TypeOK
  BY DEF TypedInv
<1> QED
  BY <1>1, <1>2, <1>3, PTL DEF Spec
=============================================================================
