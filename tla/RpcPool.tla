------------------------------- MODULE RpcPool -------------------------------
(***************************************************************************)
(* SolanaRpcPool (src/src/solana/rpcPool.js): calls that run at one time   *)
(* go through the endpoints from the preferred one on, which they share.   *)
(* Whether an endpoint answers is external.                                *)
(***************************************************************************)
EXTENDS Integers

CONSTANTS N,        \* number of urls
          Callers,  \* calls of the pool at one time
          None

VARIABLES preferred, \* _preferredIndex
          call       \* the calls: attempt i at url idx; tried and pinned are history

vars == <<preferred, call>>

Urls == 0 .. (N - 1)

Init ==
  /\ preferred = 0
  /\ call = [w \in Callers |-> None]

\* Mutant: the index runs past the last url.
AttemptUnwrapped(from, i, tried, pinned) ==
  [i |-> i, idx |-> from + i, tried |-> tried \cup {from + i}, pinned |-> pinned]

\* Attempt i: the shared index is read anew.  pinned: another call has moved it.
Attempt(from, i, tried, pinned) ==
  LET idx == (from + i) % N
  IN  [i |-> i, idx |-> idx, tried |-> tried \cup {idx}, pinned |-> pinned]

Begin(w) ==
  /\ call[w] = None
  /\ call' = [call EXCEPT ![w] = Attempt(preferred, 0, {}, FALSE)]
  /\ UNCHANGED preferred

\* The endpoint that answered is pinned.
Succeeds(w) ==
  /\ call[w] # None
  /\ preferred' = call[w].idx
  /\ call' = [v \in Callers |->
                IF v = w \/ call[v] = None THEN None
                ELSE [call[v] EXCEPT !.pinned = @ \/ preferred' # preferred]]

\* Mutant: the endpoint that was asked last is pinned, whatever it said.
PinnedLast(w) == call[w].idx

PinnedAfterFailure(w) == preferred

\* An error or a time-out: the next endpoint, or the call fails.
Fails(w) ==
  /\ call[w] # None
  /\ preferred' = PinnedAfterFailure(w)
  /\ call' = [call EXCEPT ![w] =
       IF @.i = N - 1 THEN None ELSE Attempt(preferred', @.i + 1, @.tried, @.pinned)]

Next == \E w \in Callers : Begin(w) \/ Succeeds(w) \/ Fails(w)

Spec == Init /\ [][Next]_vars

-----------------------------------------------------------------------------
TypeOK ==
  /\ preferred \in Urls
  /\ call \in [Callers -> {None} \cup
        [i : Urls, idx : Urls, tried : SUBSET Urls, pinned : BOOLEAN]]

\* A call about to fail has tried every endpoint, from whichever the calls before
\* it have pinned (rpcPool.js:62 "Attempts the operation against each RPC endpoint
\* in order"), unless another call pinned one in the middle: then it may try an
\* endpoint twice and leave one out.
EveryUrlTried ==
  \A w \in Callers :
    call[w] # None /\ call[w].i = N - 1 /\ ~call[w].pinned => call[w].tried = Urls
=============================================================================
