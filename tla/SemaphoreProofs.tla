--------------------------- MODULE SemaphoreProofs ---------------------------
(***************************************************************************)
(* Proofs about Semaphore for any limit, any queue length and any number   *)
(* of requests: never more than max processes, and no idle slot while a    *)
(* request waits, both from SlotInv.                                       *)
(***************************************************************************)
EXTENDS Semaphore, FiniteSetTheorems, TLAPS

Inv == TypeOK /\ SlotInv

-----------------------------------------------------------------------------
(* The counter follows the set of requests that hold a slot *)

LEMMA HoldingGrows ==
  ASSUME TypeOK, SlotInv, NEW r \in Requests, r \notin Holding,
         state' = [state EXCEPT ![r] = "running"]
  PROVE  IsFiniteSet(Holding)' /\ Cardinality(Holding)' = active + 1
<1>1. Holding' = Holding \cup {r}
  BY DEF Holding, TypeOK
<1> QED
  BY <1>1, FS_AddElement DEF SlotInv

LEMMA HoldingSame ==
  ASSUME SlotInv, Holding' = Holding
  PROVE  IsFiniteSet(Holding)' /\ Cardinality(Holding)' = active
BY DEF SlotInv

LEMMA HoldingShrinks ==
  ASSUME SlotInv, NEW r \in Holding, Holding' = Holding \ {r}
  PROVE  IsFiniteSet(Holding)' /\ Cardinality(Holding)' = active - 1
BY FS_RemoveElement DEF SlotInv

-----------------------------------------------------------------------------

LEMMA InvInit == Init => Inv
<1> SUFFICES ASSUME Init PROVE Inv
  OBVIOUS
<1>1. TypeOK
  BY DEF Init, TypeOK
<1>2. Holding = {} /\ Active = {} /\ queue = << >> /\ ready = << >>
  BY DEF Init, Holding, Active
<1>3. Free = 0
  BY <1>2 DEF Free
<1>4. QueueIsTheWaiting
  BY <1>2 DEF Init, QueueIsTheWaiting
<1>5. active + Free <= max
  BY <1>3, SemaphoreAssumption DEF Init
<1> QED
  BY <1>1, <1>2, <1>4, <1>5, FS_EmptySet DEF Inv, SlotInv, Init

-----------------------------------------------------------------------------
(* The queue *)

\* Who joins the end of the queue is the one more that waits.
LEMMA QueueJoin ==
  ASSUME TypeOK, QueueIsTheWaiting, NEW r \in Requests, state[r] = "new",
         queue' = Append(queue, r), state' = [state EXCEPT ![r] = "queued"]
  PROVE  QueueIsTheWaiting'
<1>1. queue \in Seq(Requests) /\ Len(queue) \in Nat /\ DOMAIN queue = 1 .. Len(queue)
  BY DEF TypeOK
<1>2. DOMAIN queue' = 1 .. (Len(queue) + 1)
      /\ queue'[Len(queue) + 1] = r /\ \A i \in DOMAIN queue : queue'[i] = queue[i]
  BY <1>1
<1>3. \A i \in DOMAIN queue : state[queue[i]] = "queued"
  BY DEF QueueIsTheWaiting
<1>4. \A i, j \in DOMAIN queue' : queue'[i] = queue'[j] => i = j
  BY <1>1, <1>2, <1>3 DEF QueueIsTheWaiting
<1>5. {queue'[i] : i \in DOMAIN queue'} = {queue[i] : i \in DOMAIN queue} \cup {r}
  <2>1. \A i \in DOMAIN queue' : i \in DOMAIN queue \/ i = Len(queue) + 1
    BY <1>1, <1>2
  <2>2. \A i \in DOMAIN queue : i \in DOMAIN queue'
    BY <1>1, <1>2
  <2>3. Len(queue) + 1 \in DOMAIN queue'
    BY <1>1, <1>2
  <2> DEFINE before == {queue[i] : i \in DOMAIN queue}
             after  == {queue'[i] : i \in DOMAIN queue'}
  <2>4. after \subseteq before \cup {r}
    BY <1>2, <2>1
  <2>5. before \subseteq after /\ r \in after
    BY <1>2, <2>2, <2>3
  <2> QED
    BY <2>4, <2>5
<1>6. {q \in Requests : state'[q] = "queued"} = {q \in Requests : state[q] = "queued"} \cup {r}
  BY DEF TypeOK
<1> QED
  BY <1>4, <1>5, <1>6 DEF QueueIsTheWaiting

\* The oldest request waits, and when it leaves the others still do.
LEMMA QueueLeave ==
  ASSUME TypeOK, QueueIsTheWaiting, queue # << >>, NEW r \in Requests,
         state[r] = "ended", queue' = Tail(queue),
         state' = [state EXCEPT ![r] = "done", ![Head(queue)] = "woken"]
  PROVE  /\ QueueIsTheWaiting'
         /\ Head(queue) \in Requests /\ state[Head(queue)] = "queued"
<1>1. queue \in Seq(Requests) /\ Len(queue) \in Nat \ {0} /\ DOMAIN queue = 1 .. Len(queue)
      /\ Head(queue) = queue[1] /\ 1 \in DOMAIN queue
  BY DEF TypeOK
<1>2. DOMAIN queue' = 1 .. (Len(queue) - 1)
      /\ \A i \in DOMAIN queue' : queue'[i] = queue[i + 1] /\ i + 1 \in DOMAIN queue
  BY <1>1
<1>3. Head(queue) \in Requests /\ state[Head(queue)] = "queued"
  BY <1>1 DEF QueueIsTheWaiting
<1>4. \A i, j \in DOMAIN queue' : queue'[i] = queue'[j] => i = j
  BY <1>1, <1>2 DEF QueueIsTheWaiting
<1>5. {queue'[i] : i \in DOMAIN queue'} = {queue[i] : i \in DOMAIN queue} \ {Head(queue)}
  <2> DEFINE before == {queue[i] : i \in DOMAIN queue}
             after  == {queue'[i] : i \in DOMAIN queue'}
  <2>1. \A i \in DOMAIN queue' : queue'[i] \in before /\ queue'[i] # Head(queue)
    BY <1>1, <1>2 DEF QueueIsTheWaiting
  <2>2. \A j \in DOMAIN queue : j # 1 => j - 1 \in DOMAIN queue' /\ queue'[j - 1] = queue[j]
    BY <1>1, <1>2
  <2>3. after \subseteq before \ {Head(queue)}
    BY <2>1
  <2>4. ASSUME NEW j \in DOMAIN queue, queue[j] # Head(queue)  PROVE queue[j] \in after
    <3>1. j - 1 \in DOMAIN queue' /\ queue'[j - 1] = queue[j]
      BY <1>1, <2>2, <2>4
    <3> QED
      BY <3>1
  <2>5. before \ {Head(queue)} \subseteq after
    BY <2>4
  <2> QED
    BY <2>3, <2>5
<1>6. {q \in Requests : state'[q] = "queued"}
        = {q \in Requests : state[q] = "queued"} \ {Head(queue)}
  BY <1>3 DEF TypeOK
<1> QED
  BY <1>3, <1>4, <1>5, <1>6 DEF QueueIsTheWaiting

-----------------------------------------------------------------------------
(* The steps *)

\* With nothing ready, no request is on its way to or from a slot.
LEMMA NothingReady ==
  ASSUME SlotInv, ready = << >> PROVE Active = {} /\ Free = 0
BY DEF SlotInv, Free

\* Otherwise exactly the head of ready is.
LEMMA OneReady ==
  ASSUME SlotInv, ready # << >>
  PROVE  /\ ready = <<Head(ready)>> /\ Head(ready) \in Requests /\ Tail(ready) = << >>
         /\ Active = {Head(ready)}
         /\ Free = IF state[Head(ready)] = "woken" THEN 1 ELSE 0
<1>1. PICK r \in Requests : ready = <<r>>
  BY DEF SlotInv
<1>2. Active = {r}
  BY <1>1 DEF SlotInv
<1> QED
  BY <1>1, <1>2 DEF Free

LEMMA InvRun == ASSUME Inv, NEW r \in Requests, Run(r) PROVE Inv'
<1> USE DEF Inv
<1>1. ready = << >> /\ ready' = << >> /\ state[r] = "new" /\ Active = {} /\ Free = 0
  BY NothingReady DEF Run
<1>2. active \in Nat /\ active <= max /\ (queue # << >> => active = max) /\ max \in Nat
  BY <1>1, SemaphoreAssumption DEF SlotInv, TypeOK
<1>3. CASE active < max /\ active' = active + 1 /\ Goto(r, "running") /\ UNCHANGED queue
  <2>1. TypeOK'
    BY <1>1, <1>3 DEF Goto, TypeOK
  <2>2. IsFiniteSet(Holding)' /\ Cardinality(Holding)' = active + 1
    BY <1>1, <1>3, HoldingGrows DEF Goto, Holding
  <2>3. Active' = {} /\ Free' = 0
    BY <1>1, <1>3 DEF Goto, TypeOK, Active, Free
  <2>4. QueueIsTheWaiting'
    BY <1>1, <1>3 DEF SlotInv, QueueIsTheWaiting, Goto, TypeOK
  <2> QED
    BY <1>1, <1>2, <1>3, <2>1, <2>2, <2>3, <2>4 DEF SlotInv
<1>4. CASE active >= max /\ Goto(r, "refused") /\ UNCHANGED <<active, queue>>
  <2>1. TypeOK'
    BY <1>1, <1>4 DEF Goto, TypeOK
  <2>2. Holding' = Holding /\ Active' = {} /\ Free' = 0
    BY <1>1, <1>4 DEF Goto, TypeOK, Holding, Active, Free
  <2>3. QueueIsTheWaiting'
    BY <1>1, <1>4 DEF SlotInv, QueueIsTheWaiting, Goto, TypeOK
  <2> QED
    BY <1>1, <1>2, <1>4, <2>1, <2>2, <2>3, HoldingSame DEF SlotInv
<1>5. CASE active >= max /\ queue' = Append(queue, r) /\ Goto(r, "queued") /\ UNCHANGED active
  <2>1. TypeOK'
    BY <1>1, <1>5 DEF Goto, TypeOK
  <2>2. Holding' = Holding /\ Active' = {} /\ Free' = 0
    BY <1>1, <1>5 DEF Goto, TypeOK, Holding, Active, Free
  <2>3. QueueIsTheWaiting'
    BY <1>1, <1>5, QueueJoin DEF SlotInv, Goto
  <2> QED
    BY <1>1, <1>2, <1>5, <2>1, <2>2, <2>3, HoldingSame DEF SlotInv
<1> QED
  BY <1>3, <1>4, <1>5 DEF Run

LEMMA InvEnds == ASSUME Inv, NEW r \in Requests, ProcessEnds(r) PROVE Inv'
<1> USE DEF Inv
<1>1. ready = << >> /\ ready' = <<r>> /\ state[r] = "running" /\ Active = {} /\ Free = 0
      /\ state' = [state EXCEPT ![r] = "ended"] /\ active' = active /\ queue' = queue
  BY NothingReady DEF ProcessEnds, Goto
<1>2. TypeOK'
  BY <1>1 DEF TypeOK
<1>3. Holding' = Holding
  BY <1>1 DEF TypeOK, Holding
<1>4. Active' = {r} /\ Free' = 0
  BY <1>1 DEF TypeOK, Active, Free
<1>5. QueueIsTheWaiting'
  BY <1>1 DEF SlotInv, QueueIsTheWaiting, TypeOK
<1> QED
  BY <1>1, <1>2, <1>3, <1>4, <1>5, HoldingSame DEF SlotInv

LEMMA InvRelease == ASSUME Inv, NEW r \in Requests, Release(r) PROVE Inv'
<1> USE DEF Inv
<1>1. ready = <<r>> /\ Tail(ready) = << >> /\ state[r] = "ended" /\ Active = {r} /\ Free = 0
      /\ active' = active - 1
  BY OneReady DEF Release
<1>2. r \in Holding /\ active \in Nat /\ active # 0 /\ active <= max /\ max \in Nat
  <2>1. r \in Holding
    BY <1>1 DEF Holding
  <2> QED
    BY <1>1, <2>1, FS_EmptySet, SemaphoreAssumption DEF SlotInv, TypeOK
<1>3. CASE queue = << >> /\ Goto(r, "done") /\ ready' = Tail(ready) /\ UNCHANGED queue
  <2>1. TypeOK'
    BY <1>1, <1>2, <1>3 DEF Goto, TypeOK
  <2>2. Holding' = Holding \ {r} /\ Active' = {}
    BY <1>1, <1>3 DEF Goto, TypeOK, Holding, Active
  <2>3. Free' = 0
    BY <2>2 DEF Free
  <2>4. QueueIsTheWaiting'
    BY <1>1, <1>3 DEF SlotInv, QueueIsTheWaiting, Goto, TypeOK
  <2>5. ready' = << >> /\ Active' = {ready'[i] : i \in DOMAIN ready'}
    BY <1>1, <1>3, <2>2
  <2>6. IsFiniteSet(Holding)' /\ Cardinality(Holding)' = active'
    BY <1>1, <1>2, <2>2, HoldingShrinks
  <2>7. active' + Free' <= max' /\ queue' = << >>
    BY <1>1, <1>2, <1>3, <2>3
  <2> QED
    BY <2>1, <2>4, <2>5, <2>6, <2>7 DEF SlotInv
<1>4. CASE /\ queue # << >>
           /\ state' = [state EXCEPT ![r] = "done", ![Head(queue)] = "woken"]
           /\ ready' = Append(Tail(ready), Head(queue))
           /\ queue' = Tail(queue)
  <2> DEFINE h == Head(queue)
  <2>1. QueueIsTheWaiting' /\ h \in Requests /\ state[h] = "queued" /\ h # r
    BY <1>1, <1>4, QueueLeave DEF SlotInv
  <2>2. ready' = <<h>>
    BY <1>1, <1>4
  <2>3. TypeOK'
    BY <1>1, <1>2, <1>4, <2>1, <2>2 DEF TypeOK
  <2>4. state' = [state EXCEPT ![r] = "done", ![h] = "woken"]
    BY <1>4
  <2> HIDE DEF h
  <2>5. Holding' = Holding \ {r} /\ Active' = {h} /\ state'[h] = "woken"
    BY <1>1, <2>1, <2>4 DEF TypeOK, Holding, Active
  <2>6. Free' = 1
    BY <2>5 DEF Free
  <2>7. active = max
    BY <1>1, <1>2, <1>4 DEF SlotInv
  <2>8. Active' = {ready'[i] : i \in DOMAIN ready'}
    BY <2>2, <2>5
  <2>9. IsFiniteSet(Holding)' /\ Cardinality(Holding)' = active'
    BY <1>1, <1>2, <2>5, HoldingShrinks
  <2>10. active' + Free' = max'
    BY <1>1, <1>2, <2>6, <2>7
  <2>11. active' + Free' <= max' /\ active' = Cardinality(Holding)' /\ max' \in Nat
    BY <1>2, <2>9, <2>10
  <2> QED
    BY <2>1, <2>2, <2>3, <2>8, <2>9, <2>10, <2>11 DEF SlotInv
<1> QED
  BY <1>3, <1>4 DEF Release

LEMMA InvEnter == ASSUME Inv, NEW r \in Requests, Enter(r) PROVE Inv'
<1> USE DEF Inv
<1>1. ready' = << >> /\ state[r] = "woken" /\ Active = {r} /\ Free = 1
      /\ active' = active + 1 /\ state' = [state EXCEPT ![r] = "running"] /\ queue' = queue
  BY OneReady DEF Enter, Goto
<1>2. active \in Nat /\ active + 1 <= max /\ (queue # << >> => active + 1 = max)
  BY <1>1 DEF SlotInv, TypeOK
<1>3. TypeOK'
  BY <1>1 DEF TypeOK
<1>4. IsFiniteSet(Holding)' /\ Cardinality(Holding)' = active + 1
  BY <1>1, HoldingGrows DEF Holding
<1>5. Active' = {}
  BY <1>1 DEF TypeOK, Active
<1>6. Free' = 0
  BY <1>5 DEF Free
<1>7. QueueIsTheWaiting'
  BY <1>1 DEF SlotInv, QueueIsTheWaiting, TypeOK
<1> QED
  BY <1>1, <1>2, <1>3, <1>4, <1>5, <1>6, <1>7 DEF SlotInv

LEMMA InvStutter == ASSUME Inv, UNCHANGED vars PROVE Inv'
BY DEF Inv, vars, TypeOK, SlotInv, QueueIsTheWaiting, Holding, Active, Free

LEMMA InvStep == Inv /\ [Next]_vars => Inv'
BY InvRun, InvEnds, InvRelease, InvEnter, InvStutter DEF Next, Step, Listening

-----------------------------------------------------------------------------

\* Never more than max processes, for every limit: the continuation that enters
\* without looking at the counter takes the slot that was given back for it.
THEOREM NeverMoreThanMax == Spec => []AtMostMax
<1>1. Inv => AtMostMax
  <2> SUFFICES ASSUME Inv PROVE AtMostMax
    OBVIOUS
  <2>1. Free \in Nat /\ active \in Nat /\ max \in Nat
    BY SemaphoreAssumption DEF Free, Inv, TypeOK
  <2> QED
    BY <2>1 DEF Inv, SlotInv, AtMostMax
<1> QED
  BY InvInit, InvStep, <1>1, PTL DEF Spec

\* No slot is idle while a request waits: a wake-up is never lost.
THEOREM NoSlotWasted == Spec => []NoIdleSlot
<1>1. Inv => NoIdleSlot
  BY NothingReady DEF Inv, SlotInv, TypeOK, NoIdleSlot
<1> QED
  BY InvInit, InvStep, <1>1, PTL DEF Spec

\* The counter, the queue and the continuations due agree at every step: the
\* counter is the number of slots held, the queue lists each waiting request
\* once, and a slot is kept free for a woken one.
THEOREM SlotsAccounted == Spec => [](TypeOK /\ SlotInv)
<1>1. Inv => TypeOK /\ SlotInv
  BY DEF Inv
<1> QED
  BY InvInit, InvStep, <1>1, PTL DEF Spec

\* The counter, the two queues and the states of the requests stay of their types:
\* in particular the `finally` of run() (lines 38-42) never takes the counter below zero.
THEOREM TypeCorrect == Spec => []TypeOK
<1>1. Inv => TypeOK
  BY DEF Inv
<1> QED
  BY InvInit, InvStep, <1>1, PTL DEF Spec
=============================================================================
