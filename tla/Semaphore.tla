------------------------------ MODULE Semaphore ------------------------------
(***************************************************************************)
(* The limit on concurrent "claude" processes of the AI sidecar            *)
(* (src/ai-sidecar/src/concurrency.ts, used by /ai/generate in server.ts). *)
(* Node runs one callback to its end and then all the continuations it     *)
(* made ready (microtasks) before the next callback: a request arrives, or *)
(* a process ends, only when no continuation is waiting.  A request that   *)
(* is woken therefore counts itself in a continuation of its own, after    *)
(* the one that woke it has already counted itself out.                    *)
(***************************************************************************)
EXTENDS Naturals, Sequences, FiniteSets

CONSTANTS
  Requests,         \* requests to /ai/generate
  max,              \* AI_SIDECAR_MAX_CONCURRENCY
  maxQueueLength    \* AI_SIDECAR_MAX_QUEUE

ASSUME SemaphoreAssumption == max \in Nat \ {0} /\ maxQueueLength \in Nat

VARIABLES
  active,   \* the counter
  queue,    \* the requests that wait for a slot
  state,    \* state[r]: how far the call of run() for r is
  ready     \* the continuations (microtasks) that are due, in order

vars == <<active, queue, state, ready>>

Init ==
  /\ active = 0
  /\ queue = << >>
  /\ state = [r \in Requests |-> "new"]
  /\ ready = << >>

Goto(r, s) == state' = [state EXCEPT ![r] = s]

\* Mutant: a slot too many.
RunOffByOne(r) ==
  /\ ready = << >> /\ state[r] = "new"
  /\ IF active > max
     THEN /\ queue' = Append(queue, r) /\ Goto(r, "queued") /\ UNCHANGED active
     ELSE /\ active' = active + 1 /\ Goto(r, "running") /\ UNCHANGED queue
  /\ UNCHANGED ready

\* run() up to its first await: in at once, refused, or in the queue.
Run(r) ==
  /\ ready = << >> /\ state[r] = "new"
  /\ \/ /\ active < max
        /\ active' = active + 1
        /\ Goto(r, "running")
        /\ UNCHANGED queue
     \/ /\ active >= max /\ Len(queue) >= maxQueueLength
        /\ Goto(r, "refused")
        /\ UNCHANGED <<active, queue>>
     \/ /\ active >= max /\ Len(queue) < maxQueueLength
        /\ queue' = Append(queue, r)
        /\ Goto(r, "queued")
        /\ UNCHANGED active
  /\ UNCHANGED ready

\* The process ends, well or not; run() will go on after its await.
ProcessEnds(r) ==
  /\ ready = << >> /\ state[r] = "running"
  /\ Goto(r, "ended")
  /\ ready' = <<r>>
  /\ UNCHANGED <<active, queue>>

\* Mutants: nobody is woken; the slot is given back twice.
ReleaseSilent(r) ==
  /\ ready # << >> /\ r = Head(ready) /\ state[r] = "ended"
  /\ active' = active - 1
  /\ Goto(r, "done")
  /\ ready' = Tail(ready)
  /\ UNCHANGED queue

ReleaseTwice(r) ==
  /\ ready # << >> /\ r = Head(ready) /\ state[r] = "ended"
  /\ active' = active - 2
  /\ Goto(r, "done")
  /\ ready' = Tail(ready)
  /\ UNCHANGED queue

\* finally: the slot is given back and the oldest waiting request resolved.
Release(r) ==
  /\ ready # << >> /\ r = Head(ready) /\ state[r] = "ended"
  /\ active' = active - 1
  /\ \/ /\ queue = << >>
        /\ Goto(r, "done")
        /\ ready' = Tail(ready)
        /\ UNCHANGED queue
     \/ /\ queue # << >>
        /\ state' = [state EXCEPT ![r] = "done", ![Head(queue)] = "woken"]
        /\ ready' = Append(Tail(ready), Head(queue))
        /\ queue' = Tail(queue)

\* Mutant: the woken request is not counted.
EnterUncounted(r) ==
  /\ ready # << >> /\ r = Head(ready) /\ state[r] = "woken"
  /\ Goto(r, "running")
  /\ ready' = Tail(ready)
  /\ UNCHANGED <<active, queue>>

\* The woken request goes on after its await, without looking again.
Enter(r) ==
  /\ ready # << >> /\ r = Head(ready) /\ state[r] = "woken"
  /\ active' = active + 1
  /\ Goto(r, "running")
  /\ ready' = Tail(ready)
  /\ UNCHANGED queue

\* No process runs and no request is to come: the server listens.
Listening ==
  /\ active = 0 /\ ready = << >>
  /\ \A r \in Requests : state[r] # "new"
  /\ UNCHANGED vars

Step(r) == ProcessEnds(r) \/ Release(r) \/ Enter(r)

Next == (\E r \in Requests : Run(r) \/ Step(r)) \/ Listening

Spec == Init /\ [][Next]_vars

\* A process ends or is killed at its time limit, and Node runs what is ready.
FairSpec == Spec /\ \A r \in Requests : WF_vars(Step(r))

-----------------------------------------------------------------------------
(* Properties *)

TypeOK ==
  /\ active \in Nat
  /\ queue \in Seq(Requests)
  /\ state \in [Requests -> {"new", "queued", "woken", "running", "ended", "done", "refused"}]
  /\ ready \in Seq(Requests)

\* The promise of the class (lines 1-8): at most max processes at one time, though
\* a woken request does not look at the counter again (line 35).
Holding == {r \in Requests : state[r] \in {"running", "ended"}}

AtMostMax == Cardinality(Holding) <= max

\* No slot stays idle while a request waits: once Node has run what is ready, a
\* queue means that every slot is taken.
NoIdleSlot == ready = << >> /\ queue # << >> => active = max

\* Why they hold, as an inductive invariant.  The counter counts the requests
\* that hold a slot; the queue has each waiting request once; at most one request
\* goes on at a time, and while a woken one is about to, its slot is still free.
QueueIsTheWaiting ==
  /\ \A i, j \in DOMAIN queue : queue[i] = queue[j] => i = j
  /\ {queue[i] : i \in DOMAIN queue} = {r \in Requests : state[r] = "queued"}

Active == {r \in Requests : state[r] \in {"ended", "woken"}}

Free == IF \E r \in Active : state[r] = "woken" THEN 1 ELSE 0

SlotInv ==
  /\ IsFiniteSet(Holding) /\ active = Cardinality(Holding)
  /\ QueueIsTheWaiting
  /\ ready = << >> \/ \E r \in Requests : ready = <<r>>
  /\ Active = {ready[i] : i \in DOMAIN ready}
  /\ active + Free <= max
  /\ queue # << >> => active + Free = max

\* Whoever got into the queue gets a process.
EveryWaiterRuns ==
  \A r \in Requests : state[r] = "queued" ~> state[r] = "running"
=============================================================================
