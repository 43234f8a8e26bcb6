------------------------------ MODULE Autopost ------------------------------
(***************************************************************************)
(* The scheduler that posts offers and RFQs again and again                *)
(* (src/src/prompt/autopost.js), as executor.js wires it up.               *)
(*                                                                         *)
(* A job posts once when it is started; when that call returns it gets a   *)
(* timer and its place in the table of jobs.  The timer queues runs, which *)
(* go one after the other.  A run reads the receipts, prunes the lines     *)
(* that traded, and posts.  A store that is locked or corrupt is left out, *)
(* and a read that throws is ignored: the run posts all the same.  Any run *)
(* may stop its job; the operator's stop finds a job by its name in the    *)
(* table.                                                                  *)
(*                                                                         *)
(* What counterparties buy, and whether a post succeeds, is external.      *)
(***************************************************************************)
EXTENDS Integers, FiniteSets

CONSTANTS Jobs,      \* calls of autopost_start
          OfferJobs, \* those that post an offer; the others post an RFQ
          Names,     \* names asked for
          NameOf,    \* the name each call asks for
          Lines,     \* offer lines of a job, 1..n
          AmountOf,  \* btc_sats and usdt_amount of a line
          Expiry,    \* valid_until_unix of a job
          Horizon,   \* bound on the clock
          NoJob

VARIABLES clock,      \* seconds
          table,      \* AutopostManager.jobs: name -> job
          job,        \* the job objects, in the table or not
          claimed,    \* claimed[j][l]: updated_at of the trade that sold line l, or -1
          progressed  \* RFQ jobs whose trade is beyond the RFQ phase

vars == <<clock, table, job, claimed, progressed>>

\* A name that is taken gets a random suffix, unique to the job.
TableNames == Names \cup Jobs

New == [at |-> "new", name |-> NoJob, startedAt |-> 0, offers |-> Lines,
        signer |-> FALSE, timer |-> FALSE, due |-> 0, queued |-> 0,
        out |-> {}, missed |-> FALSE]

Init ==
  /\ clock = 0
  /\ table = [n \in TableNames |-> NoJob]
  /\ job = [j \in Jobs |-> New]
  /\ claimed = [j \in Jobs |-> [l \in Lines |-> -1]]
  /\ progressed = {}

-----------------------------------------------------------------------------
(* runOnce, up to the call of the posting tool *)

\* The claimed trades in the stores; a run reads any part of them (Reads).
Sales == { jl \in Jobs \X Lines : claimed[jl[1]][jl[2]] # -1 }
Reads == SUBSET Sales

\* Of the trades read, this maker's with these amounts since the job was made:
\* they are counted whichever job or line they sold.
Filled(r, a, read) ==
  Cardinality({ jl \in read :
     /\ AmountOf[jl[2]] = a
     /\ claimed[jl[1]][jl[2]] >= r.startedAt })

\* Mutant: each amount that traded drops a single line.
FilledOnce(r, a, read) ==
  IF \E jl \in read : AmountOf[jl[2]] = a /\ claimed[jl[1]][jl[2]] >= r.startedAt
    THEN 1 ELSE 0

Dropped(r, a, read) == Filled(r, a, read)

\* The first Dropped lines of each amount go, in the order of the array.
Pruned(r, read) ==
  { l \in r.offers :
      Cardinality({ m \in r.offers : m < l /\ AmountOf[m] = AmountOf[l] })
         >= Dropped(r, AmountOf[l], read) }

\* stopJob, but for the table.
Stopped(r) == [r EXCEPT !.timer = FALSE, !.at = "idle", !.missed = FALSE]

\* The record of a job once a run has stopped it or is posting. The run has read
\* these sales, none if the read threw, and been told of its RFQ's trade or not.
\* "missed" is history: there was more to read.
Ran(j, r, read, told) ==
  LET lines == IF j \in OfferJobs /\ r.signer THEN Pruned(r, read) ELSE r.offers
      missed == IF j \in OfferJobs THEN r.signer /\ read # Sales
                ELSE j \in progressed /\ ~told
  IN  CASE clock >= Expiry[j] -> Stopped(r)
        [] j \in OfferJobs /\ lines = {} /\ r.offers # {} ->
             Stopped([r EXCEPT !.offers = {}])
        [] j \notin OfferJobs /\ j \in progressed /\ told -> Stopped(r)
        [] OTHER -> [r EXCEPT !.offers = lines, !.at = "posting",
                              !.out = @ \cup lines, !.missed = missed]

\* stopJob deletes the table's entry by name, whoever has the name by now.
Unlisted(r) == [table EXCEPT ![r.name] = NoJob]

-----------------------------------------------------------------------------
StartName(j) == IF table[NameOf[j]] = NoJob THEN NameOf[j] ELSE j

\* start: the job is not in the table until its first run has returned.
StartJob(j, read, told) ==
  LET r == Ran(j, [New EXCEPT !.name = StartName(j), !.startedAt = clock,
                              !.at = "idle"], read, told)
  IN  /\ job[j].at = "new"
      /\ clock < Expiry[j]
      /\ job' = [job EXCEPT ![j] = r]
      /\ table' = IF r.at = "posting" THEN table ELSE Unlisted(r)
      /\ UNCHANGED <<clock, claimed, progressed>>

IsFirst(r) == r.due = 0

\* The first run is over: the timer is set and the table's entry written.
Scheduled(r) == [r EXCEPT !.at = "idle", !.timer = TRUE, !.due = clock + 1]

\* The posting tool succeeds or fails; a failure for want of funds stops the job.
PostReturns(j, ok) ==
  LET r == [job[j] EXCEPT !.signer = @ \/ (ok /\ j \in OfferJobs), !.at = "idle",
                          !.missed = FALSE]
  IN  /\ job[j].at = "posting"
      /\ job' = [job EXCEPT ![j] = IF IsFirst(r) THEN Scheduled(r) ELSE r]
      /\ table' = IF IsFirst(r) THEN [table EXCEPT ![r.name] = j] ELSE table
      /\ UNCHANGED <<clock, claimed, progressed>>

PostLacksFunds(j) ==
  /\ job[j].at = "posting"
  /\ job' = [job EXCEPT ![j] = Stopped(@)]
  /\ table' = Unlisted(job[j])
  /\ UNCHANGED <<clock, claimed, progressed>>

\* Mutant: the timer only queues runs, which check the expiry themselves.
FireUnchecked(j) ==
  /\ job[j].timer /\ job[j].due <= clock
  /\ job' = [job EXCEPT ![j].due = clock + 1, ![j].queued = @ + 1]
  /\ UNCHANGED <<clock, table, claimed, progressed>>

\* setInterval's callback.
Fire(j) ==
  LET r == [job[j] EXCEPT !.due = clock + 1]
  IN  /\ job[j].timer /\ job[j].due <= clock
      /\ \/ /\ clock >= Expiry[j]
            /\ job' = [job EXCEPT ![j] = [r EXCEPT !.timer = FALSE]]
            /\ table' = Unlisted(r)
         \/ /\ clock < Expiry[j]
            /\ job' = [job EXCEPT ![j] = [r EXCEPT !.queued = @ + 1]]
            /\ UNCHANGED table
      /\ UNCHANGED <<clock, claimed, progressed>>

\* The queue goes on to its next run, whether or not the job was stopped.
RunQueued(j, read, told) ==
  LET r == Ran(j, [job[j] EXCEPT !.queued = @ - 1], read, told)
  IN  /\ job[j].at = "idle" /\ job[j].queued > 0
      /\ job' = [job EXCEPT ![j] = r]
      /\ table' = IF r.at = "posting" THEN table ELSE Unlisted(r)
      /\ UNCHANGED <<clock, claimed, progressed>>

\* Mutant: the entry goes, the timer stays.
StopForgetsTimer(n) ==
  /\ table[n] # NoJob
  /\ table' = [table EXCEPT ![n] = NoJob]
  /\ UNCHANGED <<clock, job, claimed, progressed>>

\* stop: a run that is posting or queued goes on.
Stop(n) ==
  /\ table[n] # NoJob
  /\ job' = [job EXCEPT ![table[n]].timer = FALSE]
  /\ table' = [table EXCEPT ![n] = NoJob]
  /\ UNCHANGED <<clock, claimed, progressed>>

-----------------------------------------------------------------------------
(* The environment *)

Sell(j, l) ==
  /\ j \in OfferJobs /\ l \in job[j].out /\ claimed[j][l] = -1
  /\ claimed' = [claimed EXCEPT ![j][l] = clock]
  /\ UNCHANGED <<clock, table, job, progressed>>

Progress(j) ==
  /\ j \notin OfferJobs /\ job[j].out # {} /\ j \notin progressed
  /\ progressed' = progressed \cup {j}
  /\ UNCHANGED <<clock, table, job, claimed>>

Tick ==
  /\ clock < Horizon
  /\ clock' = clock + 1
  /\ UNCHANGED <<table, job, claimed, progressed>>

Next ==
  \/ \E j \in Jobs :
       \/ \E read \in Reads, told \in BOOLEAN : StartJob(j, read, told)
       \/ \E ok \in BOOLEAN : PostReturns(j, ok)
       \/ PostLacksFunds(j)
       \/ Fire(j)
       \/ \E read \in Reads, told \in BOOLEAN : RunQueued(j, read, told)
       \/ \E l \in Lines : Sell(j, l)
       \/ Progress(j)
  \/ \E n \in TableNames : Stop(n)
  \/ Tick

\* Node's timers fire and time passes; a post may hang for ever.
Fairness == WF_vars(Tick) /\ \A j \in Jobs : WF_vars(Fire(j))

Spec == Init /\ [][Next]_vars /\ Fairness

-----------------------------------------------------------------------------
TypeOK ==
  /\ clock \in 0 .. Horizon
  /\ table \in [TableNames -> Jobs \cup {NoJob}]
  /\ job \in [Jobs -> [at : {"new", "idle", "posting"},
                       name : TableNames \cup {NoJob}, startedAt : 0 .. Horizon,
                       offers : SUBSET Lines, signer : BOOLEAN, timer : BOOLEAN,
                       due : 0 .. (Horizon + 1), queued : 0 .. Horizon,
                       out : SUBSET Lines, missed : BOOLEAN]]
  /\ claimed \in [Jobs -> [Lines -> -1 .. Horizon]]
  /\ progressed \subseteq Jobs

OfAmount(lines, a) == { l \in lines : AmountOf[l] = a }
Unsold(j) == { l \in Lines : claimed[j][l] = -1 }

\* What a post that begins now may announce: nothing after the expiry, and if the
\* run missed nothing, no RFQ whose trade goes on, and, once a reply has told the
\* job its own signer, no more lines of an amount than are unsold
\* (autopost.js:180-182 "prune filled offer lines so we don't keep advertising
\* inventory that already traded").
MayPost(j) ==
  /\ clock < Expiry[j]
  /\ job'[j].missed \/
       /\ j \notin OfferJobs => j \notin progressed
       /\ job[j].signer => \A l \in Lines :
            Cardinality(OfAmount(job'[j].offers, AmountOf[l]))
               <= Cardinality(OfAmount(Unsold(j), AmountOf[l]))

\* Only a run whose own read missed something posts what is gone: what earlier runs
\* missed and announced again is pruned by the first read that is whole, whatever
\* runs are queued behind a slow post, and however many sales, of this job or
\* another, lie between two runs (autopost.js:182-241, executor.js:1438-1459).
\* No run posts beyond the expiry.
PostsOnlyOpen ==
  [][\A j \in Jobs :
       job[j].at # "posting" /\ job'[j].at = "posting" => MayPost(j)]_vars

\* The operator can stop every job that still has a timer, by its name; only
\* jobs that were given the same name may hide or delete each other's entry.
Stoppable ==
  \A j \in Jobs : job[j].timer =>
    \/ table[job[j].name] = j
    \/ \E k \in Jobs \ {j} : job[k].name = job[j].name

\* A timer is cleared in the end, also when a post never returns and when the
\* table has lost the job (autopost.js:115 "It runs until an absolute expiry
\* and then stops").  Timers due beyond the bound on the clock do not count.
TimersEnd ==
  \A j \in Jobs : job[j].timer /\ job[j].due <= Horizon ~> ~job[j].timer
=============================================================================
