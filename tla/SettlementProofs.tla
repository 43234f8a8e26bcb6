--------------------------- MODULE SettlementProofs ---------------------------
(***************************************************************************)
(* Settlement implements EscrowPromise, and its receipts are never ahead   *)
(* of the chain, for any hashes, retries, faults and crashes.              *)
(*                                                                         *)
(* The argument: a step between two awaits acts on what an earlier step of *)
(* the same tool, or of the other peer, has established.  So the invariant *)
(* says of every tool in flight (awaited or left behind), every envelope   *)
(* on its way and every entry of a log what must have happened for it to   *)
(* be there: the invoice issued, the deposit made, the payment sent, the   *)
(* preimage saved.  None of these facts is ever undone, so a step that     *)
(* adds no call, envelope or entry keeps what is said of them, and each    *)
(* action is left with what it adds itself.                                *)
(***************************************************************************)
EXTENDS Settlement, WellFoundedInduction, TLAPS

\* The facts calls, envelopes and logs speak of.
Issued(h) == h \in Hashes /\ ln[h] # "none"
Paid(h) == h \in Hashes /\ ln[h] = "paid"
Deposited(h) == Issued(h) /\ chain[h] # "none"

\* The taker has recorded a preimage.
HasPreimage == rcpt["taker"].preimage # NoHash

\* What a running tool relies on at its step.
CallOK(c) ==
  /\ c.tool = "ln_invoice" =>
       /\ c.peer = "maker" /\ c.pc \in {"create", "post"}
       /\ c.pc = "post" => Issued(c.hash)
  /\ c.tool = "ln_route_precheck" =>
       /\ c.peer = "taker" /\ c.pc \in {"route", "post", "fail"}
       /\ Issued(c.hash)
       /\ c.pc = "post" => routed # {}
  /\ c.tool = "sol_escrow" =>
       /\ c.peer = "maker" /\ c.pc \in {"gate", "send", "record", "post"}
       /\ Issued(c.hash)
       /\ c.pc # "gate" => routed # {}
       /\ c.pc \in {"record", "post"} => Deposited(c.hash)
  /\ c.tool = "ln_pay" =>
       /\ c.peer = "taker" /\ c.pc \in {"verify", "pay", "record", "post"}
       /\ c.pc # "verify" => Deposited(c.hash)
       /\ c.pc \in {"record", "post"} => Paid(c.hash)
       /\ c.pc = "post" => HasPreimage
  /\ c.tool = "sol_claim" =>
       /\ c.peer = "taker" /\ c.pc \in {"send", "record", "post"}
       /\ Paid(c.hash)
       /\ c.pc # "send" => chain[c.hash] = "claimed"
  /\ c.tool = "cancel" => c.pc \in {"check", "post", "record"}

\* An envelope never says more than what has happened.
EnvOK(m) ==
  /\ m.kind = "ln_invoice" => Issued(m.hash)
  /\ m.kind = "precheck_ok" => routed # {}
  /\ m.kind = "sol_escrow_created" => Deposited(m.hash)
  /\ m.kind = "ln_paid" => Paid(m.hash) /\ HasPreimage
  /\ m.kind = "sol_claimed" => m.hash \in Hashes /\ chain[m.hash] = "claimed"

\* A tick reads no more than there is.
ViewOK == \A p \in Peers : view[p] <= Len(log[p])
CallsOK == \A c \in calls : CallOK(c)
\* TERMS and ACCEPT are not sent again.
NetOK == \A m \in net : EnvOK(m) /\ m.kind # "agreed"
\* The envelopes in the log of p.
Entries(p) == { log[p][i] : i \in DOMAIN log[p] }
LogOK == \A p \in Peers : \A e \in Entries(p) : EnvOK(e)

\* A deposit follows an invoice and a precheck, a claim the payment.
ChainOK ==
  \A h \in Hashes :
    /\ chain[h] # "none" => Issued(h) /\ routed # {}
    /\ chain[h] = "claimed" => Paid(h)

RoutedOK == \A h \in routed : Issued(h)

\* A recorded preimage is that of a payment, the maker's row names an invoice.
RcptOK ==
  /\ HasPreimage => Paid(rcpt["taker"].preimage)
  /\ (\E h \in Hashes : Issued(h)) => Issued(rcpt["maker"].hash)

Facts == ViewOK /\ CallsOK /\ NetOK /\ LogOK /\ ChainOK /\ RoutedOK /\ RcptOK /\ ReceiptsHonest

\* The inductive invariant.
GInv == TypeOK /\ Facts

-----------------------------------------------------------------------------
\* Least: a nonempty set of naturals has a least element.
LEMMA Least ==
  ASSUME NEW T, T \subseteq Nat, T # {}
  PROVE  \E x \in T : \A y \in T : x <= y
<1>1. PICK R : R = OpToRel(<, Nat)
  OBVIOUS
<1>2. PICK x \in T : \A y \in T : ~ (<<y, x>> \in R)
  BY <1>1, NatLessThanWellFounded, WFMin
<1>3. \A y \in T : y < x => <<y, x>> \in R
  BY <1>1 DEF OpToRel
<1>4. \A y \in T : y \in Nat /\ x \in Nat /\ ~(y < x)
  BY <1>2, <1>3
<1>5. \A y \in T : x <= y
  BY <1>4, SMT
<1> QED
  BY <1>5

\* Greatest: a nonempty set of indices has a last one.
LEMMA Greatest ==
  ASSUME NEW n \in Nat, NEW T, T \subseteq 1 .. n, T # {}
  PROVE  \E x \in T : \A y \in T : y <= x
<1> DEFINE U == {n - y : y \in T}
<1>1. \A y \in T : y \in Nat /\ n - y \in Nat /\ n - y \in U
  OBVIOUS
<1>2. U \subseteq Nat /\ U # {}
  BY <1>1
<1> HIDE DEF U
<1>3. PICK u \in U : \A v \in U : u <= v
  BY <1>2, Least
<1>4. PICK x \in T : u = n - x
  BY DEF U
<1>5. \A y \in T : n - x <= n - y
  BY <1>1, <1>3, <1>4
<1>6. \A y \in T : y <= x
  BY <1>1, <1>5
<1> QED
  BY <1>6

\* LatestIn: the latest hash of a kind is that of an entry of this kind.
LEMMA LatestIn ==
  ASSUME NEW S, NEW s \in Seq(S), NEW k, Saw(s, k)
  PROVE  \E i \in DOMAIN s : s[i].kind = k /\ LatestHash(s, k) = s[i].hash
<1> DEFINE T == { i \in DOMAIN s : s[i].kind = k }
           Last(i) == s[i].kind = k /\ \A j \in DOMAIN s : s[j].kind = k => j <= i
<1>1. Len(s) \in Nat /\ T \subseteq 1 .. Len(s) /\ T # {}
  BY DEF Saw
<1>2. PICK x \in T : \A y \in T : y <= x
  BY <1>1, Greatest
<1>3. x \in DOMAIN s /\ Last(x)
  BY <1>2
<1>4. PICK i : i = CHOOSE j \in DOMAIN s : Last(j)
  OBVIOUS
<1>5. i \in DOMAIN s /\ Last(i)
  BY <1>3, <1>4
<1>6. LatestHash(s, k) = s[i].hash
  BY <1>4 DEF LatestHash
<1> QED
  BY <1>5, <1>6

-----------------------------------------------------------------------------
CallRecs ==
  [peer : Peers, tool : Tools, try : Nat, hash : Hashes \cup {NoHash},
   pc : {"create", "route", "gate", "send", "verify", "pay", "check",
         "record", "post", "fail"}]

WorkTyped ==
  /\ calls \subseteq CallRecs
  /\ awaited \in [Peers -> Tools \cup {"none"}]
  /\ tries \in [Peers -> [Tools -> Nat]]
  /\ done \in [Peers -> SUBSET Tools]
  /\ aborted \in [Peers -> BOOLEAN]

RcptRecs ==
  [state : {"terms", "accepted", "invoice", "escrow",
            "ln_paid", "claimed", "refunded", "canceled"},
   hash : Hashes \cup {NoHash}, preimage : Hashes \cup {NoHash}]

WorldTyped ==
  /\ now \in Nat
  /\ chain \in [Hashes -> {"none", "locked", "claimed", "refunded"}]
  /\ ln \in [Hashes -> {"none", "open", "paid"}]
  /\ routed \subseteq Hashes
  /\ rcpt \in [Peers -> RcptRecs]

NetTyped ==
  /\ net \subseteq Messages
  /\ log \in [Peers -> Seq(Messages)]
  /\ view \in [Peers -> Nat]
  /\ posted \in Nat /\ faults \in Nat

\* Types: TypeOK in three groups.
LEMMA Types == TypeOK <=> WorkTyped /\ WorldTyped /\ NetTyped
BY DEF TypeOK, WorkTyped, WorldTyped, NetTyped, CallRecs, RcptRecs

\* TypesNext: the same of the next state.
LEMMA TypesNext == TypeOK' <=> WorkTyped' /\ WorldTyped' /\ NetTyped'
BY DEF TypeOK, WorkTyped, WorldTyped, NetTyped, CallRecs, RcptRecs

\* What happened stays so.
Onward ==
  /\ \A h \in Hashes :
       /\ ln[h] # "none" => ln'[h] # "none"
       /\ ln[h] = "paid" => ln'[h] = "paid"
       /\ chain[h] # "none" => chain'[h] # "none"
       /\ chain[h] \in {"claimed", "refunded"} => chain'[h] = chain[h]
  /\ routed \subseteq routed'
  /\ HasPreimage => HasPreimage'

\* CallStays: what a tool relies on stays.
LEMMA CallStays == ASSUME Onward, NEW c, CallOK(c) PROVE CallOK(c)'
<1>1. \A h : /\ Issued(h) => Issued(h)'
             /\ Paid(h) => Paid(h)'
             /\ Deposited(h) => Deposited(h)'
  BY DEF Onward, Issued, Paid, Deposited
<1>2. routed # {} => routed' # {}
  BY DEF Onward
<1>3. HasPreimage => HasPreimage'
  BY DEF Onward
<1>4. \A h : Paid(h) /\ chain[h] = "claimed" => chain'[h] = "claimed"
  BY DEF Onward, Paid
<1> QED
  BY <1>1, <1>2, <1>3, <1>4 DEF CallOK

\* EnvStays: what an envelope says stays true.
LEMMA EnvStays == ASSUME Onward, NEW m, EnvOK(m) PROVE EnvOK(m)'
<1>1. \A h : /\ Issued(h) => Issued(h)'
             /\ Paid(h) => Paid(h)'
             /\ Deposited(h) => Deposited(h)'
             /\ h \in Hashes /\ chain[h] = "claimed" => chain'[h] = "claimed"
  BY DEF Onward, Issued, Paid, Deposited
<1>2. (routed # {} => routed' # {}) /\ (HasPreimage => HasPreimage')
  BY DEF Onward
<1> QED
  BY <1>1, <1>2 DEF EnvOK

\* Keeps: it is enough to look at what a step adds.
LEMMA Keeps ==
  ASSUME GInv, TypeOK', Onward,
         ViewOK', ChainOK', RoutedOK', RcptOK', ReceiptsHonest',
         \A c \in calls' : c \in calls \/ CallOK(c)',
         \A m \in net' : m \in net \/ (EnvOK(m)' /\ m.kind # "agreed"),
         \A p \in Peers : \A e \in Entries(p)' : e \in Entries(p) \/ EnvOK(e)'
  PROVE  GInv'
<1>1. CallsOK'
  BY CallStays DEF GInv, Facts, CallsOK
<1>2. NetOK'
  BY EnvStays DEF GInv, Facts, NetOK
<1>3. LogOK'
  BY EnvStays DEF GInv, Facts, LogOK
<1> QED
  BY <1>1, <1>2, <1>3 DEF GInv, Facts

\* StandStill: a step of the tools or the workers that changes nothing outside.
LEMMA StandStill ==
  ASSUME GInv, UNCHANGED <<world, net, log, rcpt, routed>>,
         WorkTyped', view' \in [Peers -> Nat], posted' \in Nat, faults' \in Nat,
         ViewOK',
         \A c \in calls' : c \in calls \/ CallOK(c)'
  PROVE  GInv'
<1>1. UNCHANGED <<now, chain, ln>>
  BY DEF world
<1>2. TypeOK'
  <2>1. WorldTyped'
    BY <1>1, Types DEF GInv, WorldTyped
  <2>2. NetTyped'
    BY Types DEF GInv, NetTyped
  <2> QED
    BY <2>1, <2>2, TypesNext
<1>3. Onward
  BY <1>1 DEF Onward, HasPreimage
<1>4. ChainOK' /\ RoutedOK'
  BY <1>1 DEF GInv, Facts, ChainOK, RoutedOK, Issued, Paid
<1>5. RcptOK' /\ ReceiptsHonest'
  BY <1>1 DEF GInv, Facts, RcptOK, ReceiptsHonest, HasPreimage, Issued, Paid
<1>6. \A p \in Peers : Entries(p)' = Entries(p)
  BY DEF Entries
<1> QED
  BY <1>2, <1>3, <1>4, <1>5, <1>6, Keeps

-----------------------------------------------------------------------------
\* CtxIn: a tick's snapshot holds entries of the log.
LEMMA CtxIn ==
  ASSUME GInv, NEW p \in Peers
  PROVE  /\ Ctx(p) \in Seq(Messages)
         /\ \A i \in DOMAIN Ctx(p) : i \in DOMAIN log[p] /\ Ctx(p)[i] = log[p][i]
<1>1. /\ log[p] \in Seq(Messages) /\ view[p] \in Nat /\ view[p] <= Len(log[p])
      /\ Len(log[p]) \in Nat
  BY Types DEF GInv, Facts, NetTyped, ViewOK
<1> QED
  BY <1>1 DEF Ctx

\* CtxLatest: so what the worker reads of a kind it has seen is backed.
LEMMA CtxLatest ==
  ASSUME GInv, NEW p \in Peers, NEW k, Saw(Ctx(p), k)
  PROVE  \E e \in Messages : EnvOK(e) /\ e.kind = k /\ e.hash = LatestHash(Ctx(p), k)
<1>1. PICK i \in DOMAIN Ctx(p) : /\ Ctx(p)[i].kind = k
                                 /\ LatestHash(Ctx(p), k) = Ctx(p)[i].hash
  BY CtxIn, LatestIn
<1>2. i \in DOMAIN log[p] /\ Ctx(p)[i] = log[p][i]
  BY CtxIn
<1>3. log[p][i] \in Entries(p)
  BY <1>2 DEF Entries
<1>4. EnvOK(log[p][i])
  BY <1>3 DEF GInv, Facts, LogOK
<1>5. log[p][i] \in Messages
  BY <1>2, Types DEF GInv, NetTyped
<1> QED
  BY <1>1, <1>2, <1>4, <1>5

-----------------------------------------------------------------------------
\* A call the worker itself makes to post CANCEL.
Canceling(d) == d.tool = "cancel" /\ d.pc = "check"

\* Fails: what the worker does when a stage fails.
LEMMA Fails ==
  ASSUME WorkTyped, NEW p \in Peers, NEW s \in Tools, NEW rest,
         rest \subseteq CallRecs, StageFailed(p, s, rest), UNCHANGED tries
  PROVE  /\ WorkTyped' /\ rest \subseteq calls'
         /\ \A d \in calls' : d \in rest \/ Canceling(d)
<1>1. Call(p, "cancel", 0, "check", NoHash) \in CallRecs
  BY DEF Call, CallRecs, Tools
<1>2. Canceling(Call(p, "cancel", 0, "check", NoHash))
  BY DEF Canceling, Call
<1>3. "cancel" \in Tools
  BY DEF Tools
<1>4. \/ calls' = rest /\ awaited' = [awaited EXCEPT ![p] = "none"]
      \/ /\ calls' = rest \cup {Call(p, "cancel", 0, "check", NoHash)}
         /\ awaited' = [awaited EXCEPT ![p] = "cancel"]
  BY DEF StageFailed, RetryOrAbort, Abort
<1>5. /\ done' \in {done, [done EXCEPT ![p] = @ \cup {s}]}
      /\ aborted' \in {aborted, [aborted EXCEPT ![p] = TRUE]}
  BY DEF StageFailed, RetryOrAbort, Abort
<1>6. calls' \subseteq CallRecs /\ awaited' \in [Peers -> Tools \cup {"none"}]
  BY <1>1, <1>3, <1>4 DEF WorkTyped
<1>7. done' \in [Peers -> SUBSET Tools]
  BY <1>5 DEF WorkTyped
<1>8. aborted' \in [Peers -> BOOLEAN]
  BY <1>5 DEF WorkTyped
<1>9. WorkTyped'
  BY <1>6, <1>7, <1>8 DEF WorkTyped
<1> QED
  BY <1>2, <1>4, <1>9

\* Throws: what a tool that throws leaves behind.
LEMMA Throws ==
  ASSUME WorkTyped, NEW c \in calls, Throw(c)
  PROVE  /\ WorkTyped' /\ \A d \in calls : d # c => d \in calls'
         /\ \A d \in calls' :
              \/ d \in calls \ {c} \/ Canceling(d)
              \/ c.tool = "ln_route_precheck" /\ d = [c EXCEPT !.pc = "fail"]
<1>1. c \in CallRecs
  BY DEF WorkTyped
<1>2. c.peer \in Peers /\ c.tool \in Tools /\ UNCHANGED tries
  BY <1>1 DEF CallRecs, Throw
<1>3. CASE UNCHANGED <<awaited, done, aborted>>
  <2>1. [c EXCEPT !.pc = "fail"] \in CallRecs
    BY <1>1 DEF CallRecs
  <2>2. \/ calls' = calls \ {c}
        \/ /\ c.tool = "ln_route_precheck"
           /\ calls' = (calls \ {c}) \cup {[c EXCEPT !.pc = "fail"]}
        \/ StageFailed(c.peer, c.tool, calls \ {c})
    BY DEF Throw
  <2>3. CASE StageFailed(c.peer, c.tool, calls \ {c})
    <3>1. PICK rest : rest = calls \ {c}
      OBVIOUS
    <3> QED
      BY <1>2, <2>3, <3>1, Fails DEF WorkTyped
  <2>4. CASE ~StageFailed(c.peer, c.tool, calls \ {c})
    <3>1. WorkTyped'
      BY <1>2, <1>3, <2>1, <2>2, <2>4 DEF WorkTyped
    <3> QED
      BY <2>2, <2>4, <3>1
  <2> QED
    BY <2>3, <2>4
<1>4. CASE ~UNCHANGED <<awaited, done, aborted>>
  <2>1. PICK rest : rest = calls \ {c}
    OBVIOUS
  <2>2. StageFailed(c.peer, c.tool, rest)
    BY <1>4, <2>1 DEF Throw
  <2> QED
    BY <1>2, <2>1, <2>2, Fails DEF WorkTyped
<1> QED
  BY <1>3, <1>4

\* Returns: a tool that returns is gone.
LEMMA Returns ==
  ASSUME WorkTyped, NEW c \in calls, Return(c)
  PROVE  WorkTyped' /\ calls' = calls \ {c}
<1>1. c.peer \in Peers /\ c.tool \in Tools
  BY DEF WorkTyped, CallRecs
<1>2. calls' = calls \ {c} /\ UNCHANGED <<tries, aborted>>
  BY DEF Return
<1>3. /\ awaited' \in {awaited, [awaited EXCEPT ![c.peer] = "none"]}
      /\ done' \in {done, [done EXCEPT ![c.peer] = @ \cup {c.tool}]}
  BY DEF Return
<1>4. awaited' \in [Peers -> Tools \cup {"none"}]
  BY <1>3 DEF WorkTyped
<1>5. done' \in [Peers -> SUBSET Tools]
  BY <1>1, <1>3 DEF WorkTyped
<1> QED
  BY <1>2, <1>4, <1>5 DEF WorkTyped

\* Advances: a tool goes to its next step.
LEMMA Advances ==
  ASSUME WorkTyped, NEW c \in calls,
         NEW pc \in {"create", "route", "gate", "send", "verify", "pay", "check",
                     "record", "post", "fail"},
         Advance(c, pc)
  PROVE  /\ WorkTyped' /\ calls' = (calls \ {c}) \cup {[c EXCEPT !.pc = pc]}
         /\ [c EXCEPT !.pc = pc] \in CallRecs
<1>1. c \in CallRecs /\ [c EXCEPT !.pc = pc] \in CallRecs
  BY DEF WorkTyped, CallRecs
<1> QED
  BY <1>1 DEF WorkTyped, Advance, worker

\* Starts: the worker starts a stage.
LEMMA Starts ==
  ASSUME GInv, NEW p \in Peers, NEW s \in Tools, NEW h \in Hashes \cup {NoHash},
         NEW pc \in {"create", "route", "gate", "send", "verify"},
         Start(p, s, pc, h),
         \A n : CallOK(Call(p, s, n, pc, h))
  PROVE  GInv'
<1>1. WorkTyped /\ NetTyped
  BY Types DEF GInv
<1>2. tries[p] \in [Tools -> Nat] /\ tries[p][s] \in Nat
  BY <1>1 DEF WorkTyped
<1>3. PICK c : c = Call(p, s, tries[p][s] + 1, pc, h)
  OBVIOUS
<1>4. c \in CallRecs
  BY <1>2, <1>3 DEF Call, CallRecs
<1>5. calls' = calls \cup {c} /\ awaited' = [awaited EXCEPT ![p] = s]
      /\ tries' = [tries EXCEPT ![p][s] = @ + 1]
      /\ UNCHANGED <<world, net, log, rcpt, done, aborted, posted, routed, faults>>
      /\ view' = [view EXCEPT ![p] = 0]
  BY <1>3 DEF Start
<1>6. tries' \in [Peers -> [Tools -> Nat]]
  BY <1>1, <1>2, <1>5 DEF WorkTyped
<1>7. WorkTyped'
  BY <1>1, <1>4, <1>5, <1>6 DEF WorkTyped
<1>8. view' \in [Peers -> Nat] /\ posted' \in Nat /\ faults' \in Nat
  BY <1>1, <1>5 DEF NetTyped
<1>9. ViewOK'
  <2>1. \A q \in Peers : Len(log[q]) \in Nat
    BY <1>1 DEF NetTyped
  <2> QED
    BY <1>1, <1>5, <2>1 DEF GInv, Facts, ViewOK, NetTyped
<1>10. Onward
  BY <1>5 DEF world, Onward, HasPreimage
<1>11. CallOK(c)'
  BY <1>3, <1>10, CallStays
<1>12. \A d \in calls' : d \in calls \/ CallOK(d)'
  BY <1>5, <1>11
<1> QED
  BY <1>5, <1>7, <1>8, <1>9, <1>12, StandStill

-----------------------------------------------------------------------------
(* The stages of the workers *)

\* StageSteps: starting stages keeps GInv.
LEMMA StageSteps == ASSUME GInv, Stage PROVE GInv'
<1>0. /\ WorkTyped /\ WorldTyped /\ NetTyped
      /\ "maker" \in Peers /\ "taker" \in Peers
  BY Types DEF GInv, Peers
<1>1. ASSUME NEW p \in Peers, Tick(p) PROVE GInv'
  <2>1. \A q \in Peers : Len(log[q]) \in Nat
    BY <1>0 DEF NetTyped
  <2>2. /\ UNCHANGED <<world, net, log, rcpt, routed, posted, faults, calls, worker>>
        /\ view' = [view EXCEPT ![p] = Len(log[p])]
    BY <1>1 DEF Tick
  <2>3. view' \in [Peers -> Nat] /\ ViewOK'
    BY <1>0, <2>1, <2>2 DEF GInv, Facts, ViewOK, NetTyped
  <2>4. WorkTyped' /\ \A c \in calls' : c \in calls
    BY <1>0, <2>2 DEF WorkTyped, worker
  <2>5. posted' \in Nat /\ faults' \in Nat
    BY <1>0, <2>2 DEF NetTyped
  <2> QED
    BY <2>2, <2>3, <2>4, <2>5, StandStill
<1>2. CASE StartInvoice
  <2>1. Start("maker", "ln_invoice", "create", NoHash)
    BY <1>2 DEF StartInvoice
  <2>2. \A n : CallOK(Call("maker", "ln_invoice", n, "create", NoHash))
    BY DEF CallOK, Call
  <2> QED
    BY <1>0, <2>1, <2>2, Starts DEF Tools, MakerStages
<1>3. CASE StartPrecheck
  <2>1. PICK h : h = LatestHash(Ctx("taker"), "ln_invoice")
    OBVIOUS
  <2>2. Saw(Ctx("taker"), "ln_invoice") /\ Start("taker", "ln_route_precheck", "route", h)
    BY <1>3, <2>1 DEF StartPrecheck
  <2>3. Issued(h)
    BY <1>0, <2>1, <2>2, CtxLatest DEF EnvOK
  <2>4. \A n : CallOK(Call("taker", "ln_route_precheck", n, "route", h))
    BY <2>3 DEF CallOK, Call
  <2> QED
    BY <1>0, <2>2, <2>3, <2>4, Starts DEF Tools, TakerStages, Issued
<1>4. CASE StartEscrow
  <2>1. PICK h : h = LatestHash(Ctx("maker"), "ln_invoice")
    OBVIOUS
  <2>2. Saw(Ctx("maker"), "ln_invoice") /\ Start("maker", "sol_escrow", "gate", h)
    BY <1>4, <2>1 DEF StartEscrow, EscrowDue
  <2>3. Issued(h)
    BY <1>0, <2>1, <2>2, CtxLatest DEF EnvOK
  <2>4. \A n : CallOK(Call("maker", "sol_escrow", n, "gate", h))
    BY <2>3 DEF CallOK, Call
  <2> QED
    BY <1>0, <2>2, <2>3, <2>4, Starts DEF Tools, MakerStages, Issued
<1>5. CASE EscrowHeldBack
  <2> DEFINE C == Call("maker", "cancel", 0, "check", NoHash)
  <2>1. /\ UNCHANGED <<world, net, log, rcpt, posted, routed, faults>>
        /\ view' = [view EXCEPT !["maker"] = 0]
        /\ tries' \in {tries, [tries EXCEPT !["maker"]["sol_escrow"] = @ + 1]}
    BY <1>5 DEF EscrowHeldBack
  <2>2. /\ calls' \in {calls, calls \cup {C}}
        /\ awaited' \in {[awaited EXCEPT !["maker"] = "none"],
                         [awaited EXCEPT !["maker"] = "cancel"]}
        /\ done' \in {done, [done EXCEPT !["maker"] = @ \cup {"sol_escrow"}]}
        /\ aborted' \in {aborted, [aborted EXCEPT !["maker"] = TRUE]}
    BY <1>5 DEF EscrowHeldBack, RetryOrAbort, Abort
  <2>3. "sol_escrow" \in Tools /\ "cancel" \in Tools
    BY DEF Tools, MakerStages
  <2>4. C \in CallRecs
    BY <1>0, <2>3 DEF Call, CallRecs
  <2>5. CallOK(C)'
    BY DEF CallOK, Call
  <2> HIDE DEF C
  <2>6. tries["maker"] \in [Tools -> Nat] /\ tries["maker"]["sol_escrow"] \in Nat
    BY <1>0, <2>3 DEF WorkTyped
  <2>7. tries' \in [Peers -> [Tools -> Nat]]
    <3>1. \/ tries' = tries
          \/ tries' = [tries EXCEPT !["maker"]["sol_escrow"] = @ + 1]
      BY <2>1
    <3>2. tries["maker"]["sol_escrow"] + 1 \in Nat
      BY <2>6
    <3>3. [tries EXCEPT !["maker"]["sol_escrow"] = @ + 1] \in [Peers -> [Tools -> Nat]]
      BY <1>0, <2>3, <2>6, <3>2 DEF WorkTyped
    <3> QED
      BY <1>0, <3>1, <3>3 DEF WorkTyped
  <2>8. calls' \subseteq CallRecs /\ awaited' \in [Peers -> Tools \cup {"none"}]
    <3>1. calls' \subseteq CallRecs
      BY <1>0, <2>2, <2>4 DEF WorkTyped
    <3>2. \/ awaited' = [awaited EXCEPT !["maker"] = "none"]
          \/ awaited' = [awaited EXCEPT !["maker"] = "cancel"]
      BY <2>2
    <3>3. awaited' \in [Peers -> Tools \cup {"none"}]
      BY <1>0, <2>3, <3>2 DEF WorkTyped
    <3> QED
      BY <3>1, <3>3
  <2>9. done' \in [Peers -> SUBSET Tools] /\ aborted' \in [Peers -> BOOLEAN]
    <3>1. \/ done' = done
          \/ done' = [done EXCEPT !["maker"] = @ \cup {"sol_escrow"}]
      BY <2>2
    <3>2. done' \in [Peers -> SUBSET Tools]
      BY <1>0, <2>3, <3>1 DEF WorkTyped
    <3>3. aborted' = aborted \/ aborted' = [aborted EXCEPT !["maker"] = TRUE]
      BY <2>2
    <3>4. aborted' \in [Peers -> BOOLEAN]
      BY <1>0, <3>3 DEF WorkTyped
    <3> QED
      BY <3>2, <3>4
  <2>10. WorkTyped'
    BY <2>7, <2>8, <2>9 DEF WorkTyped
  <2>11. \A q \in Peers : Len(log[q]) \in Nat
    BY <1>0 DEF NetTyped
  <2>12. view' \in [Peers -> Nat] /\ ViewOK' /\ posted' \in Nat /\ faults' \in Nat
    BY <1>0, <2>1, <2>11 DEF GInv, Facts, ViewOK, NetTyped
  <2>13. \A d \in calls' : d \in calls \/ CallOK(d)'
    BY <2>2, <2>5
  <2> QED
    BY <2>1, <2>10, <2>12, <2>13, StandStill
<1>6. CASE StartPay
  <2>1. PICK h : h = IF LatestHash(Ctx("taker"), "ln_invoice")
                          = LatestHash(Ctx("taker"), "sol_escrow_created")
                       THEN LatestHash(Ctx("taker"), "ln_invoice") ELSE NoHash
    OBVIOUS
  <2>2. Saw(Ctx("taker"), "ln_invoice") /\ Start("taker", "ln_pay", "verify", h)
    BY <1>6, <2>1 DEF StartPay
  <2>3. h \in Hashes \cup {NoHash}
    BY <1>0, <2>1, <2>2, CtxLatest DEF EnvOK, Issued
  <2>4. \A n : CallOK(Call("taker", "ln_pay", n, "verify", h))
    BY DEF CallOK, Call
  <2> QED
    BY <1>0, <2>2, <2>3, <2>4, Starts DEF Tools, TakerStages
<1>7. CASE StartClaim
  <2>1. PICK h : h = rcpt["taker"].preimage
    OBVIOUS
  <2>2. h # NoHash /\ Start("taker", "sol_claim", "send", h)
    BY <1>7, <2>1 DEF StartClaim
  <2>3. Paid(h)
    BY <2>1, <2>2 DEF GInv, Facts, RcptOK, HasPreimage
  <2>4. \A n : CallOK(Call("taker", "sol_claim", n, "send", h))
    BY <2>3 DEF CallOK, Call
  <2> QED
    BY <1>0, <2>2, <2>3, <2>4, Starts DEF Tools, TakerStages, Paid
<1> QED
  BY <1>1, <1>2, <1>3, <1>4, <1>5, <1>6, <1>7 DEF Stage

-----------------------------------------------------------------------------
(* The steps of the tools *)

\* Acts: a step of a tool that posts nothing.
LEMMA Acts ==
  ASSUME GInv, UNCHANGED <<net, log, view, posted>>, faults' \in Nat,
         WorldTyped', WorkTyped', Onward, ChainOK', RoutedOK', RcptOK', ReceiptsHonest',
         \A c \in calls' : c \in calls \/ CallOK(c)'
  PROVE  GInv'
<1>1. NetTyped'
  BY Types DEF GInv, NetTyped
<1>2. TypeOK'
  BY <1>1, TypesNext
<1>3. ViewOK'
  BY DEF GInv, Facts, ViewOK
<1>4. \A p \in Peers : Entries(p)' = Entries(p)
  BY DEF Entries
<1> QED
  BY <1>2, <1>3, <1>4, Keeps

\* Leaves: a tool that throws leaves calls that may run on.
LEMMA Leaves ==
  ASSUME GInv, Onward, NEW c \in calls, Throw(c)
  PROVE  WorkTyped' /\ \A d \in calls' : d \in calls \/ CallOK(d)'
<1>1. CallOK(c) /\ WorkTyped
  BY Types DEF GInv, Facts, CallsOK
<1>2. \A d : Canceling(d) => CallOK(d)'
  BY DEF Canceling, CallOK
<1>3. CASE c.tool = "ln_route_precheck"
  <2>1. PICK d : d = [c EXCEPT !.pc = "fail"]
    OBVIOUS
  <2>2. /\ d.tool = "ln_route_precheck" /\ d.pc = "fail"
        /\ d.peer = c.peer /\ d.hash = c.hash
    BY <1>1, <1>3, <2>1 DEF WorkTyped, CallRecs
  <2>3. CallOK(d)
    BY <1>1, <1>3, <2>2 DEF CallOK
  <2>4. CallOK(d)'
    BY <2>3, CallStays
  <2> QED
    BY <1>1, <1>2, <2>1, <2>4, Throws
<1>4. CASE c.tool # "ln_route_precheck"
  BY <1>1, <1>2, <1>4, Throws
<1> QED
  BY <1>3, <1>4

\* Proceeds: a tool that goes on may do so.
LEMMA Proceeds ==
  ASSUME GInv, NEW c \in calls,
         NEW pc \in {"create", "route", "gate", "send", "verify", "pay", "check",
                     "record", "post", "fail"},
         Advance(c, pc),
         \A d : /\ d.tool = c.tool /\ d.pc = pc /\ d.peer = c.peer /\ d.hash = c.hash
                => CallOK(d)'
  PROVE  WorkTyped' /\ \A d \in calls' : d \in calls \/ CallOK(d)'
<1>1. WorkTyped
  BY Types DEF GInv
<1>2. PICK d : d = [c EXCEPT !.pc = pc]
  OBVIOUS
<1>3. d.tool = c.tool /\ d.pc = pc /\ d.peer = c.peer /\ d.hash = c.hash
  BY <1>1, <1>2 DEF WorkTyped, CallRecs
<1>4. CallOK(d)'
  BY <1>3
<1>5. WorkTyped' /\ calls' = (calls \ {c}) \cup {d}
  BY <1>1, <1>2, Advances
<1> QED
  BY <1>4, <1>5

\* Still: a step of a tool that touches nothing outside.
LEMMA Still ==
  ASSUME GInv, UNCHANGED <<world, net, log, rcpt, view, posted, routed>>,
         faults' \in Nat, WorkTyped',
         \A c \in calls' : c \in calls \/ CallOK(c)'
  PROVE  GInv'
<1>1. view' \in [Peers -> Nat] /\ posted' \in Nat /\ ViewOK'
  BY Types DEF GInv, NetTyped, Facts, ViewOK
<1> QED
  BY <1>1, StandStill

\* Unmoved: nothing outside changed, so all that happened still has.
LEMMA Unmoved == ASSUME UNCHANGED <<world, rcpt, routed>> PROVE Onward
BY DEF Onward, HasPreimage, world

\* Faulty: a fault is counted.
LEMMA Faulty == ASSUME GInv, Fault \/ UNCHANGED faults PROVE faults' \in Nat
BY Types DEF GInv, NetTyped, Fault

\* QuietSteps: steps of tools that only look.
LEMMA QuietSteps ==
  ASSUME GInv, NEW c \in calls,
         \/ EscrowGate(c) \/ EscrowSendTwice(c) \/ PayVerify(c)
         \/ ClaimRefused(c) \/ CancelCheck(c) \/ ToolFails(c)
  PROVE  GInv'
<1>1. CallOK(c)
  BY DEF GInv, Facts, CallsOK
<1>2. faults' \in Nat
  BY Faulty DEF EscrowGate, EscrowSendTwice, PayVerify, ClaimRefused, CancelCheck, ToolFails
<1>3. UNCHANGED <<world, net, log, rcpt, view, posted, routed>>
  BY DEF EscrowGate, EscrowSendTwice, PayVerify, ClaimRefused, CancelCheck, ToolFails
<1>4. Onward
  BY <1>3, Unmoved
<1>5. CASE Throw(c)
  BY <1>2, <1>3, <1>4, <1>5, Leaves, Still
<1>6. CASE EscrowGate(c) /\ ~Throw(c)
  <2>1. c.tool = "sol_escrow" /\ Advance(c, "send") /\ ToolGate(log["maker"], c.hash)
    BY <1>6 DEF EscrowGate, AtStep
  <2>2. PICK e \in Entries("maker") : e.kind = "precheck_ok"
    BY <2>1 DEF ToolGate, Entries
  <2>3. routed # {}
    BY <2>2 DEF GInv, Facts, LogOK, EnvOK, Peers
  <2>4. \A d : /\ d.tool = c.tool /\ d.pc = "send" /\ d.peer = c.peer /\ d.hash = c.hash
               => CallOK(d)
    BY <1>1, <2>1, <2>3 DEF CallOK
  <2> QED
    BY <1>2, <1>3, <1>4, <2>1, <2>4, CallStays, Proceeds, Still
<1>7. CASE PayVerify(c) /\ ~Throw(c)
  <2>1. c.tool = "ln_pay" /\ Advance(c, "pay") /\ PrePayOk(c.hash)
    BY <1>7 DEF PayVerify, AtStep
  <2>2. c.hash \in Hashes \cup {NoHash}
    BY Types DEF GInv, WorkTyped, CallRecs
  <2>3. Deposited(c.hash)
    BY <2>1, <2>2 DEF PrePayOk, Deposited, GInv, Facts, ChainOK
  <2>4. \A d : /\ d.tool = c.tool /\ d.pc = "pay" /\ d.peer = c.peer /\ d.hash = c.hash
               => CallOK(d)
    BY <1>1, <2>1, <2>3 DEF CallOK
  <2> QED
    BY <1>2, <1>3, <1>4, <2>1, <2>4, CallStays, Proceeds, Still
<1>8. CASE CancelCheck(c) /\ ~Throw(c)
  <2>1. c.tool = "cancel" /\ Advance(c, "post")
    BY <1>8 DEF CancelCheck, AtStep
  <2>2. \A d : d.tool = c.tool /\ d.pc = "post" => CallOK(d)
    BY <2>1 DEF CallOK
  <2> QED
    BY <1>2, <1>3, <1>4, <2>1, <2>2, CallStays, Proceeds, Still
<1> QED
  BY <1>5, <1>6, <1>7, <1>8 DEF EscrowSendTwice, ClaimRefused, ToolFails

\* InvoiceStep: the LN node issues an invoice.
LEMMA InvoiceStep == ASSUME GInv, NEW c \in calls, CreateInvoice(c) PROVE GInv'
<1>0. WorkTyped /\ WorldTyped /\ NetTyped /\ CallOK(c) /\ "maker" \in Peers
  BY Types DEF GInv, Facts, CallsOK, Peers
<1>1. /\ c.tool = "ln_invoice" /\ UNCHANGED <<now, chain, net, log, worker, view, posted, routed, faults>>
      /\ c \in CallRecs
  BY <1>0 DEF CreateInvoice, AtStep, WorkTyped
<1>2. PICK h \in Hashes : /\ ln[h] = "none"
                          /\ ln' = [ln EXCEPT ![h] = "open"]
                          /\ rcpt' = RecordInvoice(h)
                          /\ calls' = (calls \ {c}) \cup {[c EXCEPT !.pc = "post", !.hash = h]}
  BY DEF CreateInvoice
<1>3. PICK d : d = [c EXCEPT !.pc = "post", !.hash = h]
  OBVIOUS
<1>4. /\ d \in CallRecs /\ d.tool = "ln_invoice" /\ d.pc = "post" /\ d.hash = h
      /\ d.peer = c.peer
  BY <1>1, <1>3 DEF CallRecs
<1>5. WorkTyped'
  BY <1>0, <1>1, <1>2, <1>3, <1>4 DEF WorkTyped, worker
<1>6. rcpt' \in [Peers -> RcptRecs]
  BY <1>0, <1>2 DEF WorldTyped, RcptRecs, RecordInvoice
<1>7. WorldTyped'
  BY <1>0, <1>1, <1>2, <1>6 DEF WorldTyped
<1>8. /\ rcpt'["maker"].hash = h /\ rcpt'["maker"].state = "invoice"
      /\ rcpt'["taker"] = rcpt["taker"]
  BY <1>0, <1>2 DEF WorldTyped, RcptRecs, RecordInvoice, Peers
<1>9. Onward
  BY <1>0, <1>1, <1>2, <1>8 DEF Onward, HasPreimage, WorldTyped
<1>10. /\ \A g : /\ Issued(g) => Issued(g)'
                 /\ Paid(g) => Paid(g)'
       /\ Issued(h)'
  BY <1>0, <1>2, <1>9 DEF Onward, Issued, Paid, WorldTyped
<1>11. ChainOK' /\ RoutedOK'
  BY <1>1, <1>10 DEF GInv, Facts, ChainOK, RoutedOK
<1>12. RcptOK'
  BY <1>8, <1>10 DEF GInv, Facts, RcptOK, HasPreimage
<1>13. ReceiptsHonest'
  BY <1>1, <1>8 DEF GInv, Facts, ReceiptsHonest, Peers
<1>14. CallOK(d)'
  BY <1>0, <1>1, <1>4, <1>10 DEF CallOK
<1>15. \A x \in calls' : x \in calls \/ CallOK(x)'
  BY <1>2, <1>3, <1>14
<1> QED
  BY <1>0, <1>1, <1>5, <1>7, <1>9, <1>11, <1>12, <1>13, <1>15, Acts DEF NetTyped

\* RouteStep: a route precheck succeeds.
LEMMA RouteStep == ASSUME GInv, NEW c \in calls, RoutePrecheck(c) PROVE GInv'
<1>0. WorkTyped /\ WorldTyped /\ NetTyped /\ CallOK(c)
  BY Types DEF GInv, Facts, CallsOK
<1>1. /\ c.tool = "ln_route_precheck" /\ Advance(c, "post")
      /\ routed' = routed \cup {c.hash}
      /\ UNCHANGED <<world, net, log, rcpt, view, posted, faults>>
  BY DEF RoutePrecheck, AtStep
<1>2. Issued(c.hash)
  BY <1>0, <1>1 DEF CallOK
<1>3. WorldTyped'
  BY <1>0, <1>1, <1>2 DEF WorldTyped, world, Issued
<1>4. Onward
  BY <1>1 DEF Onward, HasPreimage, world
<1>5. \A g : (Issued(g) <=> Issued(g)') /\ (Paid(g) <=> Paid(g)')
  BY <1>1 DEF Issued, Paid, world
<1>6. ChainOK' /\ RoutedOK'
  BY <1>1, <1>2, <1>5 DEF GInv, Facts, ChainOK, RoutedOK, world
<1>7. RcptOK' /\ ReceiptsHonest'
  BY <1>1, <1>5 DEF GInv, Facts, RcptOK, ReceiptsHonest, HasPreimage, world
<1>8. \A d : /\ d.tool = c.tool /\ d.pc = "post" /\ d.peer = c.peer /\ d.hash = c.hash
             => CallOK(d)'
  BY <1>0, <1>1, <1>2, <1>5 DEF CallOK
<1>9. WorkTyped' /\ \A d \in calls' : d \in calls \/ CallOK(d)'
  BY <1>1, <1>8, Proceeds
<1> QED
  BY <1>0, <1>1, <1>3, <1>4, <1>6, <1>7, <1>9, Acts DEF NetTyped

\* ChainMoved: what a deposit that moves must not upset.
LEMMA ChainMoved ==
  ASSUME GInv, NEW h \in Hashes, NEW to \in {"locked", "claimed", "refunded"},
         chain' = [chain EXCEPT ![h] = to], UNCHANGED <<now, ln, routed>>,
         Issued(h), routed # {},
         \/ to = "locked" /\ chain[h] = "none"
         \/ to = "claimed" /\ chain[h] = "locked" /\ Paid(h)
         \/ to = "refunded" /\ chain[h] = "locked",
         HasPreimage => HasPreimage'
  PROVE  /\ Onward /\ ChainOK' /\ RoutedOK' /\ Deposited(h)' /\ chain'[h] = to
         /\ chain' \in [Hashes -> {"none", "locked", "claimed", "refunded"}]
<1>1. WorldTyped
  BY Types DEF GInv
<1>2. \A g \in Hashes : chain'[g] = IF g = h THEN to ELSE chain[g]
  BY <1>1 DEF WorldTyped
<1>3. Onward
  BY <1>2 DEF Onward
<1>4. \A g : (Issued(g) <=> Issued(g)') /\ (Paid(g) <=> Paid(g)')
  BY DEF Issued, Paid
<1>5. ChainOK' /\ RoutedOK'
  BY <1>2, <1>4 DEF GInv, Facts, ChainOK, RoutedOK
<1>6. Deposited(h)'
  BY <1>2, <1>4 DEF Deposited
<1>7. chain' \in [Hashes -> {"none", "locked", "claimed", "refunded"}]
  BY <1>1 DEF WorldTyped
<1> QED
  BY <1>2, <1>3, <1>5, <1>6, <1>7

\* EscrowStep: the deposit goes on chain.
LEMMA EscrowStep == ASSUME GInv, NEW c \in calls, EscrowSend(c) PROVE GInv'
<1>0. WorkTyped /\ WorldTyped /\ NetTyped /\ CallOK(c)
  BY Types DEF GInv, Facts, CallsOK
<1>1. /\ c.tool = "sol_escrow" /\ c.pc = "send" /\ chain[c.hash] = "none"
      /\ chain' = [chain EXCEPT ![c.hash] = "locked"]
      /\ UNCHANGED <<now, ln, net, log, rcpt, view, posted, routed>>
      /\ (Advance(c, "record") \/ Throw(c))
      /\ UNCHANGED faults \/ Fault
  BY DEF EscrowSend, AtStep
<1>2. Issued(c.hash) /\ c.hash \in Hashes /\ routed # {}
  BY <1>0, <1>1 DEF CallOK, Issued
<1>3. /\ Onward /\ ChainOK' /\ RoutedOK' /\ Deposited(c.hash)' /\ Issued(c.hash)'
      /\ chain' \in [Hashes -> {"none", "locked", "claimed", "refunded"}]
  BY <1>1, <1>2, ChainMoved DEF HasPreimage, Issued
<1>4. WorldTyped'
  BY <1>0, <1>1, <1>3 DEF WorldTyped
<1>5. RcptOK' /\ ReceiptsHonest'
  BY <1>0, <1>1, <1>2 DEF GInv, Facts, RcptOK, ReceiptsHonest, HasPreimage, Issued, Paid, WorldTyped
<1>6. \A d : /\ d.tool = c.tool /\ d.pc = "record" /\ d.peer = c.peer /\ d.hash = c.hash
             => CallOK(d)'
  BY <1>0, <1>1, <1>2, <1>3 DEF CallOK
<1>7. WorkTyped' /\ \A d \in calls' : d \in calls \/ CallOK(d)'
  BY <1>1, <1>3, <1>6, Leaves, Proceeds
<1>8. faults' \in Nat
  BY <1>1, Faulty
<1> QED
  BY <1>1, <1>3, <1>4, <1>5, <1>7, <1>8, Acts

\* Recorded: what a step that writes the receipts must not upset.
LEMMA Recorded ==
  ASSUME GInv, UNCHANGED <<world, routed>>, rcpt' \in [Peers -> RcptRecs],
         HasPreimage => HasPreimage',
         HasPreimage' => Paid(rcpt'["taker"].preimage),
         rcpt'["maker"].hash = rcpt["maker"].hash \/ Issued(rcpt'["maker"].hash),
         \A p \in Peers :
           \/ rcpt'[p].state \notin {"claimed", "refunded"}
           \/ rcpt'[p].state = rcpt[p].state
           \/ \E h \in Hashes : chain[h] = rcpt'[p].state
  PROVE  WorldTyped' /\ Onward /\ ChainOK' /\ RoutedOK' /\ RcptOK' /\ ReceiptsHonest'
<1>0. WorldTyped /\ UNCHANGED <<now, chain, ln>>
  BY Types DEF GInv, world
<1>1. WorldTyped'
  BY <1>0 DEF WorldTyped
<1>2. Onward
  BY <1>0 DEF Onward
<1>3. \A g : (Issued(g) <=> Issued(g)') /\ (Paid(g) <=> Paid(g)')
  BY <1>0 DEF Issued, Paid
<1>4. ChainOK' /\ RoutedOK'
  BY <1>0, <1>3 DEF GInv, Facts, ChainOK, RoutedOK
<1>5. PICK r, s : r = rcpt'["taker"].preimage /\ s = rcpt'["maker"].hash
  OBVIOUS
<1>6. (HasPreimage' => Paid(r)') /\ ((\E h \in Hashes : Issued(h)) => Issued(s)')
  BY <1>3, <1>5 DEF GInv, Facts, RcptOK
<1>7. RcptOK'
  BY <1>3, <1>5, <1>6 DEF RcptOK
<1>8. ReceiptsHonest'
  BY <1>0 DEF GInv, Facts, ReceiptsHonest
<1> QED
  BY <1>1, <1>2, <1>4, <1>7, <1>8

\* RecordSteps: the tools write the receipts.
LEMMA RecordSteps ==
  ASSUME GInv, NEW c \in calls,
         EscrowRecord(c) \/ PayRecord(c) \/ ClaimRecord(c) \/ CancelRecord(c)
  PROVE  GInv'
<1>0. /\ WorkTyped /\ WorldTyped /\ NetTyped /\ CallOK(c)
      /\ "maker" \in Peers /\ "taker" \in Peers /\ c.peer \in Peers
      /\ NoHash \notin Hashes
  BY Types, SettlementAssumption DEF GInv, Facts, CallsOK, Peers, WorkTyped, CallRecs
<1>1. UNCHANGED <<world, net, log, view, posted, routed, faults>> /\ faults' \in Nat
  BY <1>0 DEF EscrowRecord, PayRecord, ClaimRecord, CancelRecord, NetTyped
<1>2. CASE EscrowRecord(c)
  <2>1. /\ c.tool = "sol_escrow" /\ c.pc = "record" /\ Advance(c, "post")
        /\ rcpt' = [rcpt EXCEPT !["maker"].hash = c.hash, !["maker"].state = "escrow"]
    BY <1>2 DEF EscrowRecord, AtStep
  <2>2. Issued(c.hash) /\ Deposited(c.hash) /\ routed # {} /\ c.hash \in Hashes
    BY <1>0, <2>1 DEF CallOK, Issued
  <2>3. /\ rcpt' \in [Peers -> RcptRecs]
        /\ rcpt'["taker"] = rcpt["taker"]
        /\ rcpt'["maker"].hash = c.hash /\ rcpt'["maker"].state = "escrow"
    BY <1>0, <2>1, <2>2 DEF WorldTyped, RcptRecs, Peers
  <2>4. /\ HasPreimage = HasPreimage'
        /\ HasPreimage' => Paid(rcpt'["taker"].preimage)
    BY <2>3 DEF HasPreimage, GInv, Facts, RcptOK
  <2>5. WorldTyped' /\ Onward /\ ChainOK' /\ RoutedOK' /\ RcptOK' /\ ReceiptsHonest'
    BY <1>1, <2>2, <2>3, <2>4, Recorded DEF Peers
  <2>6. \A d : /\ d.tool = c.tool /\ d.pc = "post" /\ d.peer = c.peer /\ d.hash = c.hash
               => CallOK(d)
    BY <1>0, <2>1, <2>2 DEF CallOK
  <2> QED
    BY <1>1, <2>1, <2>5, <2>6, CallStays, Proceeds, Acts
<1>3. CASE PayRecord(c)
  <2>1. /\ c.tool = "ln_pay" /\ c.pc = "record" /\ Advance(c, "post")
        /\ rcpt' = [rcpt EXCEPT !["taker"].hash = c.hash, !["taker"].preimage = c.hash,
                                !["taker"].state = "ln_paid"]
    BY <1>3 DEF PayRecord, AtStep
  <2>2. Paid(c.hash) /\ Deposited(c.hash) /\ c.hash \in Hashes
    BY <1>0, <2>1 DEF CallOK, Paid
  <2>3. /\ rcpt' \in [Peers -> RcptRecs]
        /\ rcpt'["maker"] = rcpt["maker"]
        /\ rcpt'["taker"].preimage = c.hash /\ rcpt'["taker"].state = "ln_paid"
    BY <1>0, <2>1, <2>2 DEF WorldTyped, RcptRecs, Peers
  <2>4. HasPreimage' /\ Paid(rcpt'["taker"].preimage)
    BY <1>0, <2>2, <2>3 DEF HasPreimage
  <2>5. WorldTyped' /\ Onward /\ ChainOK' /\ RoutedOK' /\ RcptOK' /\ ReceiptsHonest'
    BY <1>1, <2>3, <2>4, Recorded DEF Peers
  <2>6. Paid(c.hash)' /\ Deposited(c.hash)'
    BY <1>1, <2>2 DEF Paid, Deposited, Issued, world
  <2>7. \A d : /\ d.tool = c.tool /\ d.pc = "post" /\ d.peer = c.peer /\ d.hash = c.hash
               => CallOK(d)'
    BY <1>0, <2>1, <2>4, <2>6 DEF CallOK
  <2>8. WorkTyped' /\ \A d \in calls' : d \in calls \/ CallOK(d)'
    BY <2>1, <2>7, Proceeds
  <2> QED
    BY <1>1, <2>5, <2>8, Acts
<1>4. CASE ClaimRecord(c)
  <2>1. /\ c.tool = "sol_claim" /\ c.pc = "record" /\ Advance(c, "post")
        /\ rcpt' = [rcpt EXCEPT !["taker"].hash = c.hash, !["taker"].state = "claimed"]
    BY <1>4 DEF ClaimRecord, AtStep
  <2>2. Paid(c.hash) /\ chain[c.hash] = "claimed" /\ c.hash \in Hashes
    BY <1>0, <2>1 DEF CallOK, Paid
  <2>3. /\ rcpt' \in [Peers -> RcptRecs]
        /\ rcpt'["maker"] = rcpt["maker"]
        /\ rcpt'["taker"].preimage = rcpt["taker"].preimage
        /\ rcpt'["taker"].state = "claimed"
    BY <1>0, <2>1, <2>2 DEF WorldTyped, RcptRecs, Peers
  <2>4. /\ HasPreimage = HasPreimage'
        /\ HasPreimage' => Paid(rcpt'["taker"].preimage)
    BY <2>3 DEF HasPreimage, GInv, Facts, RcptOK
  <2>5. WorldTyped' /\ Onward /\ ChainOK' /\ RoutedOK' /\ RcptOK' /\ ReceiptsHonest'
    BY <1>1, <2>2, <2>3, <2>4, Recorded DEF Peers
  <2>6. \A d : /\ d.tool = c.tool /\ d.pc = "post" /\ d.peer = c.peer /\ d.hash = c.hash
               => CallOK(d)
    BY <1>0, <2>1, <2>2 DEF CallOK
  <2> QED
    BY <1>1, <2>1, <2>5, <2>6, CallStays, Proceeds, Acts
<1>5. CASE CancelRecord(c)
  <2>1. /\ Return(c) /\ rcpt' = [rcpt EXCEPT ![c.peer].state = "canceled"]
    BY <1>5 DEF CancelRecord
  <2>2. /\ rcpt' \in [Peers -> RcptRecs]
        /\ rcpt'["maker"].hash = rcpt["maker"].hash
        /\ rcpt'["taker"].preimage = rcpt["taker"].preimage
        /\ \A p \in Peers : rcpt'[p].state \in {"canceled", rcpt[p].state}
    BY <1>0, <2>1 DEF WorldTyped, RcptRecs
  <2>3. /\ HasPreimage = HasPreimage'
        /\ HasPreimage' => Paid(rcpt'["taker"].preimage)
    BY <2>2 DEF HasPreimage, GInv, Facts, RcptOK
  <2>4. WorldTyped' /\ Onward /\ ChainOK' /\ RoutedOK' /\ RcptOK' /\ ReceiptsHonest'
    BY <1>1, <2>2, <2>3, Recorded
  <2>5. WorkTyped' /\ \A d \in calls' : d \in calls
    BY <1>0, <2>1, Returns
  <2> QED
    BY <1>1, <2>4, <2>5, Acts
<1> QED
  BY <1>2, <1>3, <1>4, <1>5

\* PayStep: the payment is made.
LEMMA PayStep == ASSUME GInv, NEW c \in calls, PaySend(c) PROVE GInv'
<1>0. WorkTyped /\ WorldTyped /\ NetTyped /\ CallOK(c)
  BY Types DEF GInv, Facts, CallsOK
<1>1. /\ c.tool = "ln_pay" /\ c.pc = "pay"
      /\ ln' = [ln EXCEPT ![c.hash] = "paid"]
      /\ UNCHANGED <<now, chain, net, log, rcpt, view, posted, routed>>
      /\ (Advance(c, "record") \/ Throw(c))
      /\ UNCHANGED faults \/ Fault
  BY DEF PaySend, AtStep
<1>2. Deposited(c.hash) /\ c.hash \in Hashes
  BY <1>0, <1>1 DEF CallOK, Deposited, Issued
<1>3. \A g \in Hashes : ln'[g] = IF g = c.hash THEN "paid" ELSE ln[g]
  BY <1>0, <1>1 DEF WorldTyped
<1>4. WorldTyped' /\ Onward
  BY <1>0, <1>1, <1>3 DEF WorldTyped, Onward, HasPreimage
<1>5. \A g : (Issued(g) <=> Issued(g)') /\ (Paid(g) => Paid(g)')
  BY <1>2, <1>3 DEF Issued, Paid, Deposited
<1>6. ChainOK' /\ RoutedOK' /\ RcptOK' /\ ReceiptsHonest'
  BY <1>1, <1>5 DEF GInv, Facts, ChainOK, RoutedOK, RcptOK, ReceiptsHonest, HasPreimage
<1>7. Paid(c.hash)' /\ Deposited(c.hash)'
  BY <1>1, <1>2, <1>3, <1>5 DEF Paid, Deposited
<1>8. \A d : /\ d.tool = c.tool /\ d.pc = "record" /\ d.peer = c.peer /\ d.hash = c.hash
             => CallOK(d)'
  BY <1>0, <1>1, <1>7 DEF CallOK
<1>9. WorkTyped' /\ \A d \in calls' : d \in calls \/ CallOK(d)'
  BY <1>1, <1>4, <1>8, Leaves, Proceeds
<1>10. faults' \in Nat
  BY <1>1, Faulty
<1> QED
  BY <1>1, <1>4, <1>6, <1>9, <1>10, Acts

\* ClaimStep: the deposit is claimed.
LEMMA ClaimStep == ASSUME GInv, NEW c \in calls, ClaimSend(c) PROVE GInv'
<1>0. WorkTyped /\ WorldTyped /\ NetTyped /\ CallOK(c)
  BY Types DEF GInv, Facts, CallsOK
<1>1. /\ c.tool = "sol_claim" /\ c.pc = "send" /\ chain[c.hash] = "locked"
      /\ chain' = [chain EXCEPT ![c.hash] = "claimed"]
      /\ UNCHANGED <<now, ln, net, log, rcpt, view, posted, routed>>
      /\ (Advance(c, "record") \/ Throw(c))
      /\ UNCHANGED faults \/ Fault
  BY DEF ClaimSend, AtStep, Claimable
<1>2. Paid(c.hash) /\ c.hash \in Hashes
  BY <1>0, <1>1 DEF CallOK, Paid
<1>3. Issued(c.hash) /\ routed # {}
  BY <1>1, <1>2 DEF GInv, Facts, ChainOK
<1>4. /\ Onward /\ ChainOK' /\ RoutedOK' /\ chain'[c.hash] = "claimed"
      /\ chain' \in [Hashes -> {"none", "locked", "claimed", "refunded"}]
  BY <1>1, <1>2, <1>3, ChainMoved DEF HasPreimage
<1>5. WorldTyped' /\ Paid(c.hash)'
  BY <1>0, <1>1, <1>2, <1>4 DEF WorldTyped, Paid
<1>6. RcptOK' /\ ReceiptsHonest'
  <2>1. \A h \in Hashes : chain[h] \in {"claimed", "refunded"} => chain'[h] = chain[h]
    BY <1>4 DEF Onward
  <2> QED
    BY <1>1, <2>1 DEF GInv, Facts, RcptOK, ReceiptsHonest, HasPreimage, Issued, Paid
<1>7. \A d : /\ d.tool = c.tool /\ d.pc = "record" /\ d.peer = c.peer /\ d.hash = c.hash
             => CallOK(d)'
  BY <1>0, <1>1, <1>4, <1>5 DEF CallOK
<1>8. WorkTyped' /\ \A d \in calls' : d \in calls \/ CallOK(d)'
  BY <1>1, <1>4, <1>7, Leaves, Proceeds
<1>9. faults' \in Nat
  BY <1>1, Faulty
<1> QED
  BY <1>1, <1>4, <1>5, <1>6, <1>8, <1>9, Acts

-----------------------------------------------------------------------------
(* Envelopes, faults, the operator, time *)

\* Appended: what a log that grows holds.
LEMMA Appended ==
  ASSUME GInv, NEW p \in Peers, NEW m \in Messages, UNCHANGED view,
         log' = [log EXCEPT ![p] = Append(@, m)]
  PROVE  /\ log' \in [Peers -> Seq(Messages)] /\ ViewOK'
         /\ \A q \in Peers : \A e \in Entries(q)' : e \in Entries(q) \/ e = m
<1>0. NetTyped /\ ViewOK
  BY Types DEF GInv, Facts
<1>1. \A q \in Peers : log'[q] = IF q = p THEN Append(log[p], m) ELSE log[q]
  BY <1>0 DEF NetTyped
<1>2. log[p] \in Seq(Messages)
  BY <1>0 DEF NetTyped
<1>3. /\ Append(log[p], m) \in Seq(Messages)
      /\ Len(Append(log[p], m)) = Len(log[p]) + 1
      /\ \A i \in DOMAIN Append(log[p], m) :
           \/ i \in DOMAIN log[p] /\ Append(log[p], m)[i] = log[p][i]
           \/ Append(log[p], m)[i] = m
  BY <1>2
<1>4. log' \in [Peers -> Seq(Messages)]
  BY <1>0, <1>3 DEF NetTyped
<1>5. ViewOK'
  <2>1. \A q \in Peers : view[q] \in Nat /\ Len(log[q]) \in Nat
    BY <1>0 DEF NetTyped
  <2> QED
    BY <1>0, <1>1, <1>3, <2>1 DEF ViewOK
<1>6. ASSUME NEW q \in Peers, NEW e \in Entries(q)' PROVE e \in Entries(q) \/ e = m
  <2>1. PICK i \in DOMAIN log'[q] : e = log'[q][i]
    BY <1>6 DEF Entries
  <2> QED
    BY <1>1, <1>3, <2>1 DEF Entries
<1> QED
  BY <1>4, <1>5, <1>6

\* Signed: what a tool posts is backed.
LEMMA Signed ==
  ASSUME GInv, NEW c \in calls, Posting(c)
  PROVE  /\ Envelope(c) \in Messages /\ EnvOK(Envelope(c))
         /\ Envelope(c).kind # "agreed"
<1>0. c \in CallRecs /\ CallOK(c) /\ posted \in Nat
  BY Types DEF GInv, Facts, CallsOK, WorkTyped, NetTyped
<1>1. c.pc = "post" \/ (c.tool = "ln_route_precheck" /\ c.pc = "fail")
  BY DEF Posting, AtStep
<1>2. /\ Envelope(c).from = c.peer /\ Envelope(c).kind = EnvelopeKind(c)
      /\ Envelope(c).hash = IF c.tool = "ln_route_precheck" THEN NoHash ELSE c.hash
      /\ Envelope(c).n = IF c.tool = "ln_route_precheck" THEN posted + 1 ELSE 0
      /\ Envelope(c) = [from |-> c.peer, kind |-> EnvelopeKind(c),
                        hash |-> IF c.tool = "ln_route_precheck" THEN NoHash ELSE c.hash,
                        n |-> IF c.tool = "ln_route_precheck" THEN posted + 1 ELSE 0]
  BY DEF Envelope, Env, IsStatus
<1>3. c.tool \in {"ln_invoice", "sol_escrow", "ln_route_precheck", "ln_pay", "sol_claim", "cancel"}
  BY <1>0 DEF CallRecs, Tools, MakerStages, TakerStages
<1>4. EnvelopeKind(c) =
        IF c.tool = "ln_route_precheck"
          THEN IF c.pc = "fail" THEN "precheck_fail" ELSE "precheck_ok"
        ELSE IF c.tool = "sol_escrow" THEN "sol_escrow_created"
        ELSE IF c.tool = "ln_pay" THEN "ln_paid"
        ELSE IF c.tool = "sol_claim" THEN "sol_claimed" ELSE c.tool
  BY <1>3 DEF EnvelopeKind
<1>5. EnvelopeKind(c) \in Kinds \ {"agreed"}
  BY <1>3, <1>4 DEF Kinds
<1>6. Envelope(c) \in Messages
  BY <1>0, <1>2, <1>5 DEF Messages, CallRecs
<1>7. EnvOK(Envelope(c))
  BY <1>0, <1>1, <1>2, <1>3, <1>4 DEF EnvOK, CallOK, Paid
<1> QED
  BY <1>2, <1>5, <1>6, <1>7

\* Counted: a status takes a number.
LEMMA Counted == ASSUME GInv, NEW c, CountStatus(c) PROVE posted' \in Nat
BY Types DEF GInv, NetTyped, CountStatus

\* PostSteps: posting an envelope keeps GInv.
LEMMA PostSteps == ASSUME GInv, NEW c \in calls, Post(c) \/ PostFails(c) PROVE GInv'
<1>0. WorkTyped /\ WorldTyped /\ NetTyped /\ CallOK(c) /\ c.peer \in Peers
  BY Types DEF GInv, Facts, CallsOK, WorkTyped, CallRecs
<1>1. PICK m : m = Envelope(c)
  OBVIOUS
<1>2. m \in Messages /\ EnvOK(m) /\ m.kind # "agreed"
  BY <1>1, Signed DEF Post, PostFails
<1>3. /\ UNCHANGED <<world, rcpt, view, routed>> /\ CountStatus(c)
      /\ net' \in {net, net \cup {m}}
  BY <1>1 DEF Post, PostFails, Send
<1>4. Onward /\ EnvOK(m)'
  BY <1>2, <1>3, Unmoved, EnvStays
<1>5. WorldTyped' /\ ChainOK' /\ RoutedOK' /\ RcptOK' /\ ReceiptsHonest'
  <2>1. UNCHANGED <<now, chain, ln>>
    BY <1>3 DEF world
  <2>2. WorldTyped'
    BY <1>0, <1>3, <2>1 DEF WorldTyped
  <2>3. ChainOK' /\ RoutedOK'
    BY <1>3, <2>1 DEF GInv, Facts, ChainOK, RoutedOK, Issued, Paid
  <2>4. RcptOK' /\ ReceiptsHonest'
    BY <1>3, <2>1 DEF GInv, Facts, RcptOK, ReceiptsHonest, HasPreimage, Issued, Paid
  <2> QED
    BY <2>2, <2>3, <2>4
<1>6. faults' \in Nat /\ posted' \in Nat /\ net' \subseteq Messages
  BY <1>0, <1>2, <1>3, Counted, Faulty DEF Post, PostFails, NetTyped
<1>7. /\ log' \in [Peers -> Seq(Messages)] /\ ViewOK'
      /\ \A q \in Peers : \A e \in Entries(q)' : e \in Entries(q) \/ e = m
  <2>1. CASE Post(c)
    <3>1. log' = [log EXCEPT ![c.peer] = Append(@, m)] /\ UNCHANGED view
      BY <1>1, <2>1 DEF Post
    <3> QED
      BY <1>0, <1>2, <3>1, Appended
  <2>2. CASE PostFails(c)
    <3>1. UNCHANGED <<log, view>>
      BY <2>2 DEF PostFails
    <3> QED
      BY <1>0, <3>1 DEF NetTyped, GInv, Facts, ViewOK, Entries
  <2> QED
    BY <2>1, <2>2
<1>8. WorkTyped' /\ \A d \in calls' : d \in calls \/ CallOK(d)'
  <2>1. CASE Throw(c)
    BY <1>4, <2>1, Leaves
  <2>2. CASE Return(c)
    BY <1>0, <2>2, Returns
  <2>3. CASE c.tool = "cancel" /\ Advance(c, "record")
    <3>1. \A d : d.tool = c.tool /\ d.pc = "record" => CallOK(d)'
      BY <2>3 DEF CallOK
    <3> QED
      BY <2>3, <3>1, Proceeds
  <2>4. Throw(c) \/ Return(c) \/ (c.tool = "cancel" /\ Advance(c, "record"))
    BY DEF Post, PostFails, Posted
  <2> QED
    BY <2>1, <2>2, <2>3, <2>4
<1>9. NetTyped'
  BY <1>0, <1>3, <1>6, <1>7 DEF NetTyped
<1>10. TypeOK'
  BY <1>5, <1>8, <1>9, TypesNext
<1>11. \A x \in net' : x \in net \/ (EnvOK(x)' /\ x.kind # "agreed")
  BY <1>2, <1>3, <1>4
<1>12. \A q \in Peers : \A e \in Entries(q)' : e \in Entries(q) \/ EnvOK(e)'
  BY <1>4, <1>7
<1> QED
  BY <1>4, <1>5, <1>7, <1>8, <1>10, <1>11, <1>12, Keeps

\* TimeOuts: a worker that gives up on a tool keeps GInv.
LEMMA TimeOuts == ASSUME GInv, NEW p \in Peers, ToolTimesOut(p) PROVE GInv'
<1>0. WorkTyped
  BY Types DEF GInv
<1>1. PICK s, rest : s = awaited[p] /\ rest = calls
  OBVIOUS
<1>2. /\ s \in Tools /\ StageFailed(p, s, rest) /\ Fault
      /\ UNCHANGED <<world, tries, net, log, rcpt, view, posted, routed>>
  BY <1>0, <1>1 DEF ToolTimesOut, WorkTyped
<1>3. WorkTyped' /\ \A d \in calls' : d \in calls \/ Canceling(d)
  BY <1>0, <1>1, <1>2, Fails DEF WorkTyped
<1>4. \A d : Canceling(d) => CallOK(d)'
  BY DEF Canceling, CallOK
<1>5. faults' \in Nat
  BY <1>2, Faulty
<1> QED
  BY <1>2, <1>3, <1>4, <1>5, Still

\* Crashes: a process that dies keeps GInv.
LEMMA Crashes == ASSUME GInv, NEW p \in Peers, Crash(p) PROVE GInv'
<1>0. WorkTyped /\ WorldTyped /\ NetTyped
  BY Types DEF GInv
<1>1. /\ calls' = {c \in calls : c.peer # p}
      /\ log' = [log EXCEPT ![p] = <<>>] /\ view' = [view EXCEPT ![p] = 0]
      /\ awaited' = [awaited EXCEPT ![p] = "none"]
      /\ tries' = [tries EXCEPT ![p] = [s \in Tools |-> 0]]
      /\ done' = [done EXCEPT ![p] = {}] /\ aborted' = [aborted EXCEPT ![p] = FALSE]
      /\ UNCHANGED <<world, net, rcpt, posted, routed>>
  BY DEF Crash
<1>2. WorkTyped'
  BY <1>0, <1>1 DEF WorkTyped
<1>3. faults' \in Nat
  BY Faulty DEF Crash
<1>4. /\ log' \in [Peers -> Seq(Messages)] /\ view' \in [Peers -> Nat]
      /\ \A q \in Peers : /\ log'[q] = IF q = p THEN <<>> ELSE log[q]
                          /\ view'[q] = IF q = p THEN 0 ELSE view[q]
  BY <1>0, <1>1 DEF NetTyped
<1>5. NetTyped'
  BY <1>0, <1>1, <1>3, <1>4 DEF NetTyped
<1>6. WorldTyped' /\ ChainOK' /\ RoutedOK'
  BY <1>0, <1>1 DEF WorldTyped, world, GInv, Facts, ChainOK, RoutedOK, Issued, Paid
<1>7. RcptOK' /\ ReceiptsHonest'
  BY <1>1 DEF world, GInv, Facts, RcptOK, ReceiptsHonest, HasPreimage, Issued, Paid
<1>8. ViewOK'
  <2>1. ASSUME NEW q \in Peers PROVE view'[q] <= Len(log'[q])
    <3>1. CASE q = p
      BY <1>4, <3>1
    <3>2. CASE q # p
      BY <1>4, <3>2 DEF GInv, Facts, ViewOK
    <3> QED
      BY <3>1, <3>2
  <2> QED
    BY <2>1 DEF ViewOK
<1>9. \A q \in Peers : \A e \in Entries(q)' : e \in Entries(q)
  BY <1>4 DEF Entries
<1>10. Onward
  BY <1>1, Unmoved
<1>11. TypeOK'
  BY <1>2, <1>5, <1>6, TypesNext
<1> QED
  BY <1>1, <1>6, <1>7, <1>8, <1>9, <1>10, <1>11, Keeps

\* Deliveries: an envelope that arrives keeps GInv.
LEMMA Deliveries == ASSUME GInv, NEW m \in net, Deliver(m) PROVE GInv'
<1>0. /\ WorkTyped /\ WorldTyped /\ NetTyped /\ m \in Messages /\ EnvOK(m)
      /\ "maker" \in Peers /\ "taker" \in Peers
  BY Types DEF GInv, Facts, NetOK, NetTyped, Peers
<1>1. PICK p \in Peers : p = Other(m.from)
  BY <1>0 DEF Other, Peers
<1>2. /\ net' = net \ {m} /\ log' = [log EXCEPT ![p] = Append(@, m)]
      /\ UNCHANGED <<world, calls, worker, view, posted, routed, faults>>
      /\ \/ rcpt' = rcpt
         \/ m.kind = "sol_claimed" /\ rcpt' = [rcpt EXCEPT ![p].state = "claimed"]
         \/ m.kind = "cancel" /\ rcpt' = [rcpt EXCEPT ![p].state = "canceled"]
  BY <1>1 DEF Deliver
<1>3. /\ log' \in [Peers -> Seq(Messages)] /\ ViewOK'
      /\ \A q \in Peers : \A e \in Entries(q)' : e \in Entries(q) \/ e = m
  BY <1>0, <1>2, Appended
<1>4. /\ rcpt' \in [Peers -> RcptRecs]
      /\ rcpt'["maker"].hash = rcpt["maker"].hash
      /\ rcpt'["taker"].preimage = rcpt["taker"].preimage
      /\ \A q \in Peers : \/ rcpt'[q].state \in {"canceled", rcpt[q].state}
                          \/ m.kind = "sol_claimed" /\ rcpt'[q].state = "claimed"
  BY <1>0, <1>2 DEF WorldTyped, RcptRecs
<1>5. /\ HasPreimage = HasPreimage'
      /\ HasPreimage' => Paid(rcpt'["taker"].preimage)
  BY <1>4 DEF HasPreimage, GInv, Facts, RcptOK
<1>6. m.kind = "sol_claimed" => \E h \in Hashes : chain[h] = "claimed"
  BY <1>0 DEF EnvOK
<1>7. WorldTyped' /\ Onward /\ ChainOK' /\ RoutedOK' /\ RcptOK' /\ ReceiptsHonest'
  BY <1>2, <1>4, <1>5, <1>6, Recorded
<1>8. EnvOK(m)'
  BY <1>0, <1>7, EnvStays
<1>9. WorkTyped' /\ NetTyped'
  BY <1>0, <1>2, <1>3 DEF WorkTyped, worker, NetTyped
<1>10. TypeOK'
  BY <1>7, <1>9, TypesNext
<1> QED
  BY <1>2, <1>3, <1>7, <1>8, <1>10, Keeps

\* Losses: an envelope that is lost keeps GInv.
LEMMA Losses == ASSUME GInv, NEW m \in net, Lose(m) PROVE GInv'
<1>1. /\ UNCHANGED <<now, chain, ln, log, rcpt, calls, worker, view, posted, routed, faults>>
      /\ \A e \in net' : e \in net
  BY DEF Lose, world
<1>2. WorkTyped' /\ NetTyped' /\ WorldTyped'
  BY <1>1, Types DEF GInv, WorkTyped, NetTyped, WorldTyped, worker
<1>3. Onward
  BY <1>1 DEF Onward, HasPreimage
<1>4. ViewOK' /\ ChainOK' /\ RoutedOK' /\ RcptOK' /\ ReceiptsHonest'
  BY <1>1 DEF GInv, Facts, ViewOK, ChainOK, RoutedOK, RcptOK, ReceiptsHonest, HasPreimage,
              Issued, Paid
<1>5. TypeOK'
  BY <1>2, TypesNext
<1>6. \A p \in Peers : \A e \in Entries(p)' : e \in Entries(p)
  BY <1>1 DEF Entries
<1> QED
  BY <1>1, <1>3, <1>4, <1>5, <1>6, Keeps

\* Outside: the operator and the clock keep GInv.
LEMMA Outside == ASSUME GInv, RecoverRefund \/ RecoverClaim \/ Clock PROVE GInv'
<1>0. /\ WorkTyped /\ WorldTyped /\ NetTyped
      /\ "maker" \in Peers /\ "taker" \in Peers
  BY Types DEF GInv, Peers
<1>1. /\ UNCHANGED <<ln, net, log, calls, worker, view, posted, routed, faults>>
      /\ WorkTyped' /\ faults' \in Nat
  BY <1>0 DEF RecoverRefund, RecoverClaim, Clock, WorkTyped, NetTyped, worker
<1>2. ASSUME NEW h \in Hashes, NEW to \in {"claimed", "refunded"}, NEW p \in Peers,
             chain[h] = "locked", chain' = [chain EXCEPT ![h] = to],
             to = "claimed" => Paid(h),
             rcpt' = [rcpt EXCEPT ![p].state = to], UNCHANGED now
      PROVE  GInv'
  <2>1. /\ rcpt' \in [Peers -> RcptRecs]
        /\ rcpt'["maker"].hash = rcpt["maker"].hash
        /\ rcpt'["taker"].preimage = rcpt["taker"].preimage
        /\ \A q \in Peers : rcpt'[q].state \in {to, rcpt[q].state}
    BY <1>0, <1>2 DEF WorldTyped, RcptRecs
  <2>2. Issued(h) /\ routed # {} /\ (HasPreimage = HasPreimage')
    BY <1>2, <2>1 DEF GInv, Facts, ChainOK, HasPreimage
  <2>3. /\ Onward /\ ChainOK' /\ RoutedOK' /\ chain'[h] = to
        /\ chain' \in [Hashes -> {"none", "locked", "claimed", "refunded"}]
    BY <1>1, <1>2, <2>2, ChainMoved
  <2>4. WorldTyped'
    BY <1>0, <1>1, <1>2, <2>1, <2>3 DEF WorldTyped
  <2>5. RcptOK'
    BY <1>1, <2>1, <2>2 DEF GInv, Facts, RcptOK, HasPreimage, Issued, Paid
  <2>6. \A g \in Hashes : chain[g] \in {"claimed", "refunded"} => chain'[g] = chain[g]
    BY <2>3 DEF Onward
  <2>7. ReceiptsHonest'
    BY <2>1, <2>3, <2>6 DEF GInv, Facts, ReceiptsHonest
  <2> QED
    BY <1>1, <2>3, <2>4, <2>5, <2>7, Acts
<1>3. CASE RecoverRefund
  <2>1. PICK h : h = rcpt["maker"].hash
    OBVIOUS
  <2>2. /\ h \in Hashes /\ chain[h] = "locked" /\ chain' = [chain EXCEPT ![h] = "refunded"]
        /\ rcpt' = [rcpt EXCEPT !["maker"].state = "refunded"] /\ UNCHANGED now
    BY <1>0, <1>3, <2>1 DEF RecoverRefund, WorldTyped, RcptRecs
  <2> QED
    BY <1>0, <1>2, <2>2
<1>4. CASE RecoverClaim
  <2>1. PICK h : h = rcpt["taker"].preimage
    OBVIOUS
  <2>2. /\ h # NoHash /\ chain[h] = "locked" /\ chain' = [chain EXCEPT ![h] = "claimed"]
        /\ rcpt' = [rcpt EXCEPT !["taker"].state = "claimed"] /\ UNCHANGED now
    BY <1>4, <2>1 DEF RecoverClaim, Claimable
  <2>3. Paid(h) /\ h \in Hashes
    BY <2>1, <2>2 DEF GInv, Facts, RcptOK, HasPreimage, Paid
  <2> QED
    BY <1>0, <1>2, <2>2, <2>3
<1>5. CASE Clock
  <2>1. now' = now + 1 /\ UNCHANGED <<chain, rcpt>>
    BY <1>5 DEF Clock
  <2>2. WorldTyped' /\ Onward
    BY <1>0, <1>1, <2>1 DEF WorldTyped, Onward, HasPreimage
  <2>3. ChainOK' /\ RoutedOK' /\ RcptOK' /\ ReceiptsHonest'
    BY <1>1, <2>1 DEF GInv, Facts, ChainOK, RoutedOK, RcptOK, ReceiptsHonest, HasPreimage,
                      Issued, Paid
  <2> QED
    BY <1>1, <2>2, <2>3, Acts
<1> QED
  BY <1>3, <1>4, <1>5

-----------------------------------------------------------------------------
\* Begins: the initial state satisfies GInv.
LEMMA Begins == ASSUME Init PROVE GInv
<1>1. /\ Agreed \in Messages /\ EnvOK(Agreed)
  BY DEF Agreed, Env, Messages, Peers, Kinds, EnvOK
<1>2. \A p \in Peers : log[p] = <<Agreed>>
  BY DEF Init
<1>3. <<Agreed>> \in Seq(Messages) /\ Len(<<Agreed>>) = 1
  BY <1>1
<1>4. WorkTyped
  BY DEF Init, WorkTyped
<1>5. WorldTyped
  BY DEF Init, WorldTyped, RcptRecs
<1>6. NetTyped
  BY <1>3 DEF Init, NetTyped
<1>7. \A p \in Peers : \A e \in Entries(p) : e = Agreed
  BY <1>2 DEF Entries
<1>8. ViewOK /\ CallsOK /\ NetOK /\ LogOK
  BY <1>1, <1>2, <1>3, <1>7 DEF Init, ViewOK, CallsOK, NetOK, LogOK
<1>9. ChainOK /\ RoutedOK
  BY DEF Init, ChainOK, RoutedOK
<1>10. RcptOK /\ ReceiptsHonest
  BY DEF Init, RcptOK, ReceiptsHonest, HasPreimage, Issued, Peers
<1> QED
  BY <1>4, <1>5, <1>6, <1>8, <1>9, <1>10, Types DEF GInv, Facts

\* Inductive: every step keeps GInv.
LEMMA Inductive == ASSUME GInv, [Next]_vars PROVE GInv'
<1>1. CASE Stage
  BY <1>1, StageSteps
<1>2. ASSUME NEW c \in calls, Step(c) PROVE GInv'
  BY <1>2, InvoiceStep, RouteStep, QuietSteps, EscrowStep, RecordSteps, PayStep, ClaimStep,
     PostSteps DEF Step
<1>3. ASSUME NEW c \in calls, PostFails(c) \/ ToolFails(c) PROVE GInv'
  BY <1>3, PostSteps, QuietSteps
<1>4. ASSUME NEW p \in Peers, ToolTimesOut(p) \/ Crash(p) PROVE GInv'
  BY <1>4, TimeOuts, Crashes
<1>5. ASSUME NEW m \in net, Deliver(m) \/ Lose(m) PROVE GInv'
  BY <1>5, Deliveries, Losses
<1>6. CASE RecoverRefund \/ RecoverClaim \/ Clock
  BY <1>6, Outside
<1>7. CASE UNCHANGED vars
  <2>1. /\ UNCHANGED <<world, net, log, rcpt, routed, view, posted, faults>>
        /\ UNCHANGED <<calls, awaited, tries, done, aborted>>
    BY <1>7 DEF vars, worker
  <2>2. WorkTyped' /\ faults' \in Nat /\ \A c \in calls' : c \in calls
    BY <2>1, Types DEF GInv, WorkTyped, NetTyped
  <2> QED
    BY <2>1, <2>2, Still
<1> QED
  BY <1>1, <1>2, <1>3, <1>4, <1>5, <1>6, <1>7 DEF Next

\* Always: GInv is an invariant of settlement.
LEMMA Always == Spec => []GInv
<1>1. Init => GInv
  BY Begins
<1>2. GInv /\ [Next]_vars => GInv'
  BY Inductive
<1> QED
  BY <1>1, <1>2, PTL DEF Spec

-----------------------------------------------------------------------------
(* Settlement implements EscrowPromise *)

Paying == {d \in calls : AtStep(d, "ln_pay", "pay")}
Committed == {c.hash : c \in Paying}
PaidHashes == {h \in Hashes : ln[h] = "paid"}
Late == now >= RefundAfter

\* GivesUp: fewer payments under way, and nothing else, is giving up.
LEMMA GivesUp ==
  ASSUME UNCHANGED <<now, chain>>, PaidHashes' = PaidHashes,
         \A d \in calls' : AtStep(d, "ln_pay", "pay") => d \in calls
  PROVE  Promise!GiveUp
<1>1. Committed' \in SUBSET Committed
  BY DEF Committed, Paying, AtStep
<1>2. Late' = Late
  BY DEF Late
<1> QED
  BY <1>1, <1>2 DEF Promise!GiveUp, Committed, Paying, PaidHashes, Late

\* Moves: a deposit moves, and nothing else.
LEMMA Moves ==
  ASSUME NEW h \in Hashes, NEW from, NEW to, chain[h] = from,
         chain' = [chain EXCEPT ![h] = to], UNCHANGED <<now, ln>>,
         \A d : AtStep(d, "ln_pay", "pay") => (d \in calls' <=> d \in calls)
  PROVE  Promise!Move(h, from, to) /\ Committed' = Committed
         /\ PaidHashes' = PaidHashes /\ Late' = Late
<1>1. Paying' = Paying
  BY DEF Paying, AtStep
<1>2. Committed' = Committed /\ PaidHashes' = PaidHashes /\ Late' = Late
  BY <1>1 DEF Committed, PaidHashes, Late
<1> QED
  BY <1>2 DEF Promise!Move

\* Locks: a deposit that is made is a step of the promise.
LEMMA Locks ==
  ASSUME NEW h, Promise!Move(h, "none", "locked"),
         Committed' = Committed, PaidHashes' = PaidHashes, Late' = Late
  PROVE  Promise!Lock(h)
BY DEF Promise!Lock, Committed, Paying, PaidHashes, Late

\* Claims: so is one that is claimed with the preimage.
LEMMA Claims ==
  ASSUME NEW h, Promise!Move(h, "locked", "claimed"), h \in PaidHashes, ~Late,
         Committed' = Committed, PaidHashes' = PaidHashes, Late' = Late
  PROVE  Promise!Claim(h)
BY DEF Promise!Claim, Committed, Paying, PaidHashes, Late

\* Pays: so is a payment of one who committed to it.
LEMMA Pays ==
  ASSUME NEW h, h \in Committed, PaidHashes' = PaidHashes \cup {h},
         Committed' \in {Committed, Committed \ {h}}, UNCHANGED <<chain, Late>>
  PROVE  Promise!Pay(h)
BY DEF Promise!Pay, Committed, Paying, PaidHashes, Late

\* Thins: throwing, returning and going on start no payment.
LEMMA Thins ==
  ASSUME GInv, NEW c \in calls,
         \/ Throw(c) \/ Return(c)
         \/ \E pc \in {"create", "route", "gate", "send", "verify", "check",
                       "record", "post", "fail"} : Advance(c, pc)
  PROVE  /\ \A d \in calls' : AtStep(d, "ln_pay", "pay") => d \in calls \ {c}
         /\ \A d \in calls : d # c => d \in calls'
<1>0. WorkTyped /\ c \in CallRecs
  BY Types DEF GInv, WorkTyped
<1>1. CASE Throw(c)
  <2>1. \A d : Canceling(d) => ~AtStep(d, "ln_pay", "pay")
    BY DEF Canceling, AtStep
  <2>2. ~AtStep([c EXCEPT !.pc = "fail"], "ln_pay", "pay")
    BY <1>0 DEF AtStep, CallRecs
  <2> QED
    BY <1>0, <1>1, <2>1, <2>2, Throws
<1>2. CASE Return(c)
  BY <1>2 DEF Return
<1>3. ASSUME NEW pc \in {"create", "route", "gate", "send", "verify", "check",
                         "record", "post", "fail"}, Advance(c, pc)
      PROVE  /\ \A d \in calls' : AtStep(d, "ln_pay", "pay") => d \in calls \ {c}
             /\ \A d \in calls : d # c => d \in calls'
  <2>1. calls' = (calls \ {c}) \cup {[c EXCEPT !.pc = pc]}
    BY <1>3 DEF Advance
  <2>2. [c EXCEPT !.pc = pc].pc = pc
    BY <1>0 DEF CallRecs
  <2> QED
    BY <2>1, <2>2 DEF AtStep
<1> QED
  BY <1>1, <1>2, <1>3

\* StageRefines: starting stages is a stutter of the promise.
LEMMA StageRefines == ASSUME GInv, Stage PROVE Promise!GiveUp
<1>0. WorkTyped
  BY Types DEF GInv
<1>1. UNCHANGED <<now, chain, ln>>
  BY DEF Stage, Tick, StartInvoice, StartPrecheck, StartEscrow, EscrowHeldBack, StartPay,
         StartClaim, Start, world
<1>2. \A p, s, n, pc, h :
        pc # "pay" => ~AtStep(Call(p, s, n, pc, h), "ln_pay", "pay")
  BY DEF AtStep, Call
<1>3. CASE EscrowHeldBack
  <2>1. calls' \in {calls, calls \cup {Call("maker", "cancel", 0, "check", NoHash)}}
    BY <1>3 DEF EscrowHeldBack, RetryOrAbort, Abort
  <2>2. \A d \in calls' : AtStep(d, "ln_pay", "pay") => d \in calls
    BY <1>2, <2>1
  <2> QED
    BY <1>1, <2>2, GivesUp DEF PaidHashes
<1>4. CASE ~EscrowHeldBack
  <2>1. \/ UNCHANGED calls
        \/ \E p, s, h : \E pc \in {"create", "route", "gate", "verify", "send"} :
             Start(p, s, pc, h)
    BY <1>4 DEF Stage, Tick, StartInvoice, StartPrecheck, StartEscrow, StartPay, StartClaim
  <2>2. \/ UNCHANGED calls
        \/ \E p, s, h, n : \E pc \in {"create", "route", "gate", "verify", "send"} :
             calls' = calls \cup {Call(p, s, n, pc, h)}
    BY <2>1 DEF Start
  <2>3. \A d \in calls' : AtStep(d, "ln_pay", "pay") => d \in calls
    BY <1>2, <2>2
  <2> QED
    BY <1>1, <2>3, GivesUp DEF PaidHashes
<1> QED
  BY <1>3, <1>4

\* ToolRefines: each step of a tool is a step of the promise, or changes nothing
\* it speaks of.
LEMMA ToolRefines ==
  ASSUME GInv, NEW c \in calls, Step(c) \/ PostFails(c) \/ ToolFails(c)
  PROVE  Promise!Next
<1>0. WorkTyped /\ WorldTyped /\ CallOK(c) /\ c \in CallRecs
  BY Types DEF GInv, Facts, CallsOK, WorkTyped
<1>1. CASE CreateInvoice(c)
  <2>1. PICK h \in Hashes : /\ ln[h] = "none" /\ ln' = [ln EXCEPT ![h] = "open"]
                            /\ calls' = (calls \ {c}) \cup {[c EXCEPT !.pc = "post", !.hash = h]}
    BY <1>1 DEF CreateInvoice
  <2>2. [c EXCEPT !.pc = "post", !.hash = h].pc = "post"
    BY <1>0 DEF CallRecs
  <2>3. \A d \in calls' : AtStep(d, "ln_pay", "pay") => d \in calls
    BY <2>1, <2>2 DEF AtStep
  <2>4. PaidHashes' = PaidHashes
    BY <1>0, <2>1 DEF PaidHashes, WorldTyped
  <2>5. UNCHANGED <<now, chain>>
    BY <1>1 DEF CreateInvoice
  <2> QED
    BY <2>3, <2>4, <2>5, GivesUp DEF Promise!Next
<1>2. CASE EscrowSend(c)
  <2>0. PICK h : h = c.hash
    OBVIOUS
  <2>1. /\ h = c.hash /\ c.tool = "sol_escrow" /\ c.pc = "send" /\ chain[h] = "none"
        /\ chain' = [chain EXCEPT ![h] = "locked"]
        /\ UNCHANGED <<now, ln>> /\ (Advance(c, "record") \/ Throw(c))
    BY <1>2, <2>0 DEF EscrowSend, AtStep
  <2>2. h \in Hashes
    BY <1>0, <2>1 DEF CallOK, Issued
  <2>3. \A d : AtStep(d, "ln_pay", "pay") => (d \in calls' <=> d \in calls)
    BY <2>1, Thins DEF AtStep
  <2>4. Promise!Lock(h)
    BY <2>1, <2>2, <2>3, Moves, Locks
  <2> QED
    BY <2>2, <2>4 DEF Promise!Next
<1>3. CASE ClaimSend(c)
  <2>0. PICK h : h = c.hash
    OBVIOUS
  <2>1. /\ h = c.hash /\ c.tool = "sol_claim" /\ c.pc = "send" /\ chain[h] = "locked"
        /\ chain' = [chain EXCEPT ![h] = "claimed"] /\ now < RefundAfter
        /\ UNCHANGED <<now, ln>> /\ (Advance(c, "record") \/ Throw(c))
    BY <1>3, <2>0 DEF ClaimSend, Claimable, AtStep
  <2>2. h \in Hashes /\ h \in PaidHashes
    BY <1>0, <2>1 DEF CallOK, Paid, PaidHashes
  <2>3. \A d : AtStep(d, "ln_pay", "pay") => (d \in calls' <=> d \in calls)
    BY <2>1, Thins DEF AtStep
  <2>4. ~Late
    BY <1>0, <2>1, SettlementAssumption DEF Late, WorldTyped
  <2>5. Promise!Claim(h)
    BY <2>1, <2>2, <2>3, <2>4, Moves, Claims
  <2> QED
    BY <2>2, <2>5 DEF Promise!Next
<1>4. CASE PaySend(c)
  <2>0. PICK h : h = c.hash
    OBVIOUS
  <2>1. /\ h = c.hash /\ c.tool = "ln_pay" /\ c.pc = "pay" /\ ln' = [ln EXCEPT ![h] = "paid"]
        /\ UNCHANGED <<now, chain>> /\ (Advance(c, "record") \/ Throw(c))
    BY <1>4, <2>0 DEF PaySend, AtStep
  <2>2. h \in Hashes /\ c \in Paying
    BY <1>0, <2>1 DEF CallOK, Deposited, Issued, Paying, AtStep
  <2>3. PaidHashes' = PaidHashes \cup {h}
    BY <1>0, <2>1, <2>2 DEF PaidHashes, WorldTyped
  <2>4. Paying' \subseteq Paying /\ \A d \in Paying : d # c => d \in Paying'
    BY <2>1, Thins DEF Paying, AtStep
  <2>5. Committed' \in {Committed, Committed \ {h}}
    BY <2>1, <2>2, <2>4 DEF Committed
  <2>6. Promise!Pay(h)
    <3>1. h \in Committed
      BY <2>1, <2>2 DEF Committed
    <3>2. UNCHANGED <<chain, Late>>
      BY <2>1 DEF Late
    <3> QED
      BY <2>3, <2>5, <3>1, <3>2, Pays
  <2> QED
    BY <2>2, <2>6 DEF Promise!Next
<1>5. CASE PayVerify(c) /\ ~Throw(c)
  <2>1. /\ c.tool = "ln_pay" /\ c.pc = "verify" /\ Advance(c, "pay") /\ PrePayOk(c.hash)
        /\ UNCHANGED <<now, chain, ln>>
    BY <1>5 DEF PayVerify, AtStep, world
  <2>2. PICK d : d = [c EXCEPT !.pc = "pay"]
    OBVIOUS
  <2>3. d.tool = "ln_pay" /\ d.pc = "pay" /\ d.hash = c.hash
    BY <1>0, <2>1, <2>2 DEF CallRecs
  <2>4. calls' = (calls \ {c}) \cup {d}
    BY <2>1, <2>2 DEF Advance
  <2>5. Paying' = Paying \cup {d}
    BY <2>1, <2>3, <2>4 DEF Paying, AtStep
  <2>6. Committed' = Committed \cup {c.hash}
    BY <2>3, <2>5 DEF Committed
  <2>7. c.hash \in Hashes /\ chain[c.hash] = "locked" /\ ~Late
    BY <1>0, <2>1, SettlementAssumption DEF PrePayOk, CallRecs, Late, WorldTyped
  <2>8. PaidHashes' = PaidHashes /\ Late' = Late
    BY <2>1 DEF PaidHashes, Late
  <2>9. Promise!Commit(c.hash)
    BY <2>1, <2>6, <2>7, <2>8 DEF Promise!Commit, Committed, Paying, PaidHashes, Late
  <2> QED
    BY <2>7, <2>9 DEF Promise!Next
<1>6. CASE /\ ~CreateInvoice(c) /\ ~EscrowSend(c) /\ ~ClaimSend(c) /\ ~PaySend(c)
           /\ ~(PayVerify(c) /\ ~Throw(c))
  <2>1. UNCHANGED <<now, chain, ln>>
    BY <1>6 DEF Step, RoutePrecheck, EscrowGate, EscrowSendTwice, EscrowRecord, PayVerify,
                PayRecord, ClaimRefused, ClaimRecord, CancelCheck, CancelRecord, Post,
                PostFails, ToolFails, world
  <2>2. \/ Throw(c) \/ Return(c)
        \/ \E pc \in {"create", "route", "gate", "send", "verify", "check",
                      "record", "post", "fail"} : Advance(c, pc)
    BY <1>6 DEF Step, RoutePrecheck, EscrowGate, EscrowSendTwice, EscrowRecord, PayVerify,
                PayRecord, ClaimRefused, ClaimRecord, CancelCheck, CancelRecord, Post,
                PostFails, ToolFails, Posted
  <2>3. \A d \in calls' : AtStep(d, "ln_pay", "pay") => d \in calls
    BY <2>2, Thins
  <2> QED
    BY <2>1, <2>3, GivesUp DEF PaidHashes, Promise!Next
<1> QED
  BY <1>1, <1>2, <1>3, <1>4, <1>5, <1>6

\* OutsideRefines: faults, deliveries and losses, the operator and the clock.
LEMMA OutsideRefines ==
  ASSUME GInv,
         \/ \E p \in Peers : ToolTimesOut(p) \/ Crash(p)
         \/ \E m \in net : Deliver(m) \/ Lose(m)
         \/ RecoverRefund \/ RecoverClaim \/ Clock
  PROVE  Promise!Next \/ UNCHANGED <<chain, Committed, PaidHashes, Late>>
<1>0. WorkTyped /\ WorldTyped /\ "maker" \in Peers /\ "taker" \in Peers
  BY Types DEF GInv, Peers
<1>1. ASSUME NEW p \in Peers, ToolTimesOut(p) PROVE Promise!Next
  <2>1. PICK s, rest : s = awaited[p] /\ rest = calls
    OBVIOUS
  <2>2. s \in Tools /\ StageFailed(p, s, rest) /\ UNCHANGED <<world, tries>>
    BY <1>0, <1>1, <2>1 DEF ToolTimesOut, WorkTyped
  <2>3. \A d \in calls' : d \in calls \/ Canceling(d)
    BY <1>0, <2>1, <2>2, Fails DEF WorkTyped
  <2>4. \A d \in calls' : AtStep(d, "ln_pay", "pay") => d \in calls
    BY <2>3 DEF Canceling, AtStep
  <2> QED
    BY <2>2, <2>4, GivesUp DEF PaidHashes, Promise!Next, world
<1>2. ASSUME NEW p \in Peers, Crash(p) PROVE Promise!Next
  <2>1. (\A d \in calls' : d \in calls) /\ UNCHANGED <<now, chain, ln>>
    BY <1>2 DEF Crash, world
  <2> QED
    BY <2>1, GivesUp DEF PaidHashes, Promise!Next
<1>3. ASSUME NEW m \in net, Deliver(m) \/ Lose(m) PROVE Promise!Next
  <2>1. UNCHANGED <<calls, now, chain, ln>>
    BY <1>3 DEF Deliver, Lose, world
  <2> QED
    BY <2>1, GivesUp DEF PaidHashes, Promise!Next
<1>4. CASE RecoverRefund
  <2>1. PICK h : h = rcpt["maker"].hash
    OBVIOUS
  <2>2. /\ h \in Hashes /\ chain[h] = "locked" /\ chain' = [chain EXCEPT ![h] = "refunded"]
        /\ now >= RefundAfter /\ UNCHANGED <<now, ln, calls>>
    BY <1>0, <1>4, <2>1 DEF RecoverRefund, WorldTyped, RcptRecs
  <2>3. Promise!Refund(h)
    BY <2>2, Moves DEF Promise!Refund, Committed, Paying, PaidHashes, Late
  <2> QED
    BY <2>2, <2>3 DEF Promise!Next
<1>5. CASE RecoverClaim
  <2>1. PICK h : h = rcpt["taker"].preimage
    OBVIOUS
  <2>2. /\ h # NoHash /\ chain[h] = "locked" /\ chain' = [chain EXCEPT ![h] = "claimed"]
        /\ now < RefundAfter /\ UNCHANGED <<now, ln, calls>>
    BY <1>5, <2>1 DEF RecoverClaim, Claimable
  <2>3. h \in PaidHashes /\ h \in Hashes
    BY <2>1, <2>2 DEF GInv, Facts, RcptOK, HasPreimage, Paid, PaidHashes
  <2>4. ~Late
    BY <1>0, <2>2, SettlementAssumption DEF Late, WorldTyped
  <2>5. Promise!Claim(h)
    BY <2>2, <2>3, <2>4, Moves DEF Promise!Claim, Committed, Paying, PaidHashes, Late
  <2> QED
    BY <2>3, <2>5 DEF Promise!Next
<1>6. CASE Clock
  <2>1. now' = now + 1 /\ UNCHANGED <<chain, ln, calls>>
    BY <1>6 DEF Clock
  <2>2. Committed' = Committed /\ PaidHashes' = PaidHashes
    BY <2>1 DEF Committed, Paying, PaidHashes
  <2>3. Late' = Late \/ (~Late /\ Late' = TRUE)
    BY <1>0, <2>1, SettlementAssumption DEF Late, WorldTyped
  <2>4. CASE ~Late /\ Late' = TRUE
    <3>1. Promise!Expire
      BY <2>1, <2>2, <2>4 DEF Promise!Expire, Committed, Paying, PaidHashes, Late
    <3> QED
      BY <3>1 DEF Promise!Next
  <2> QED
    BY <2>1, <2>2, <2>3, <2>4
<1> QED
  BY <1>1, <1>2, <1>3, <1>4, <1>5, <1>6

\* StepRefines: every step of settlement is one of the promise or a stutter.
LEMMA StepRefines == ASSUME GInv, [Next]_vars PROVE [Promise!Next]_Promise!vars
<1>1. CASE Stage
  BY <1>1, StageRefines DEF Promise!Next
<1>2. ASSUME NEW c \in calls, Step(c) \/ PostFails(c) \/ ToolFails(c)
      PROVE  [Promise!Next]_Promise!vars
  BY <1>2, ToolRefines
<1>3. CASE \/ \E p \in Peers : ToolTimesOut(p) \/ Crash(p)
           \/ \E m \in net : Deliver(m) \/ Lose(m)
           \/ RecoverRefund \/ RecoverClaim \/ Clock
  BY <1>3, OutsideRefines DEF Promise!vars, Committed, Paying, PaidHashes, Late
<1>4. CASE UNCHANGED vars
  BY <1>4 DEF vars, world, Promise!vars
<1> QED
  BY <1>1, <1>2, <1>3, <1>4 DEF Next

\* BeginRefines: the initial state is one of the promise.
LEMMA BeginRefines == ASSUME Init PROVE Promise!Init
<1>1. Paying = {} /\ PaidHashes = {} /\ Late \in BOOLEAN
  BY DEF Init, Paying, PaidHashes, Late
<1> QED
  BY <1>1 DEF Init, Promise!Init, Paying, PaidHashes, Late

\* SettlementTyped: the state keeps its shape.
THEOREM SettlementTyped == Spec => []TypeOK
BY Always, PTL DEF GInv

\* ReceiptsTrue: a row of the receipts store is set to "claimed" or "refunded"
\* only after some deposit was (recover claim and refund, the claim tool, and
\* _onScEvent on a claim envelope).
THEOREM ReceiptsTrue == Spec => []ReceiptsHonest
BY Always, PTL DEF GInv, Facts

\* SettlementKeepsPromise: the stage engine and its tools implement the escrow
\* promise, for any number of hashes, retries, faults and crashes: the payer
\* commits only to a deposit that is there and whose refund time has not come,
\* a claim needs the payment, a refund its time.
THEOREM SettlementKeepsPromise == Spec => ImplementsPromise
<1>1. Init => Promise!Init
  BY BeginRefines
<1>2. GInv /\ [Next]_vars => [Promise!Next]_Promise!vars
  BY StepRefines
<1> QED
  BY <1>1, <1>2, Always, PTL DEF Spec, ImplementsPromise, Promise!Spec
===============================================================================
