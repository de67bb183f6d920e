------------------------- MODULE MessageQueueProofs -------------------------
(***************************************************************************)
(* What holds of the message queue for every number of windows, workers,   *)
(* messages, retries and crashes.                                          *)
(***************************************************************************)
EXTENDS MessageQueue, FiniteSetTheorems, TLAPS

-----------------------------------------------------------------------------
(* The tables                                                              *)

\* A table with copies put in, deleted or selected is a table.
LEMMA TablesAreClosed ==
  ASSUME NEW t \in Copies, NEW s \in Copies, NEW S
  PROVE  /\ Put(t, s) \in Copies
         /\ Delete(t, S) \in Copies
         /\ Only(t, S) \in Copies
         /\ NoCopies \in Copies
         /\ In(t) \subseteq Ids
         /\ In(Put(t, s)) = In(t) \cup In(s)
         /\ In(Delete(t, S)) = In(t) \ S
         /\ In(Only(t, S)) = In(t) \cap S
         /\ In(NoCopies) = {}
  BY MQAssumption DEF Put, Delete, Only, NoCopies, Copies, In, Absent, Ids

\* removeQueuedWorker leaves a sequence of workers.
LEMMA WithoutIsSeq ==
  ASSUME NEW ws \in Seq(Workers), NEW w
  PROVE  Without(ws, w) \in Seq(Workers)
<1>1. CASE \E i \in 1 .. Len(ws) : ws[i] = w
  <2>1. Len(ws) - 1 \in Nat
    BY <1>1
  <2>2. [j \in 1 .. Len(ws) - 1 |->
           IF j < PlaceOf(ws, w) THEN ws[j] ELSE ws[j + 1]] \in Seq(Workers)
    BY <2>1
  <2> QED BY <1>1, <2>2 DEF Without
<1>2. CASE ~ \E i \in 1 .. Len(ws) : ws[i] = w
  BY <1>2 DEF Without
<1> QED BY <1>1, <1>2

\* What it leaves are other entries of the sequence, each once.
LEMMA WithoutEntries ==
  ASSUME NEW ws \in Seq(Workers), NEW w,
         \A i, j \in 1 .. Len(ws) : ws[i] = ws[j] => i = j
  PROVE  /\ \A i \in 1 .. Len(Without(ws, w)) :
              /\ Without(ws, w)[i] # w
              /\ \E k \in 1 .. Len(ws) : Without(ws, w)[i] = ws[k]
         /\ \A i, j \in 1 .. Len(Without(ws, w)) :
              Without(ws, w)[i] = Without(ws, w)[j] => i = j
<1>1. CASE \E i \in 1 .. Len(ws) : ws[i] = w
  <2> DEFINE p == PlaceOf(ws, w)
             out == [j \in 1 .. Len(ws) - 1 |->
                       IF j < p THEN ws[j] ELSE ws[j + 1]]
  <2>1. p \in 1 .. Len(ws) /\ ws[p] = w
    BY <1>1 DEF PlaceOf
  <2>2. Without(ws, w) = out
    BY <1>1 DEF Without
  <2>3. out \in Seq(Workers) /\ Len(out) = Len(ws) - 1
    BY <2>1
  <2> HIDE DEF p
  <2>4. QED BY <2>1, <2>2, <2>3
<1>2. CASE ~ \E i \in 1 .. Len(ws) : ws[i] = w
  BY <1>2 DEF Without
<1> QED BY <1>1, <1>2

-----------------------------------------------------------------------------
(* Types                                                                   *)

\* An idle worker's record.
LEMMA IdleType == IdleWorker \in WorkerType
  BY TablesAreClosed, MQAssumption
     DEF IdleWorker, WorkerType, Steps, NoCopies, Copies, Absent

\* Each way a worker's record is changed leaves it a worker's record.
LEMMA WorkersAreClosed ==
  ASSUME NEW W \in [Workers -> WorkerType], NEW w \in Workers
  PROVE  /\ [W EXCEPT ![w] = IdleWorker] \in [Workers -> WorkerType]
         /\ \A s \in Steps :
              [W EXCEPT ![w].step = s] \in [Workers -> WorkerType]
         /\ \A t \in Copies :
              [W EXCEPT ![w].copies = t] \in [Workers -> WorkerType]
         /\ \A S \in SUBSET Ids :
              /\ [W EXCEPT ![w].batch = S] \in [Workers -> WorkerType]
              /\ [W EXCEPT ![w].done = S] \in [Workers -> WorkerType]
              /\ [W EXCEPT ![w].deferred = S] \in [Workers -> WorkerType]
  BY IdleType DEF WorkerType

\* What a worker defers is finitely many messages.
LEMMA DeferredFinite ==
  ASSUME TypeOK, NEW w \in Workers
  PROVE  Cardinality(worker[w].deferred) \in Nat
<1>1. worker[w].deferred \in SUBSET (1 .. LastId)
  BY DEF TypeOK, WorkerType, Ids
<1>2. IsFiniteSet(1 .. LastId)
  BY FS_Interval, MQAssumption
<1>3. IsFiniteSet(worker[w].deferred)
  BY <1>1, <1>2, FS_Subset
<1> QED BY <1>3, FS_CardinalityType

\* A wake-up leaves workers, waiters and timers what they are.
LEMMA WakeupTypes ==
  ASSUME TypeOK, NEW c \in Clients
  PROVE  /\ Woken(c) \in [Workers -> WorkerType]
         /\ Wakeup(c) => /\ waiters' \in [Clients -> Seq(Workers)]
                         /\ timers' \in [Workers -> BOOLEAN]
<1>1. CASE waiters[c] = <<>>
  BY <1>1 DEF Woken, Wakeup, TypeOK
<1>2. CASE waiters[c] # <<>>
  <2>1. Head(waiters[c]) \in Workers /\ Tail(waiters[c]) \in Seq(Workers)
    BY <1>2 DEF TypeOK
  <2>2. "poll" \in Steps
    BY DEF Steps
  <2>3. [worker EXCEPT ![Head(waiters[c])].step = "poll"]
          \in [Workers -> WorkerType]
    BY <2>1, <2>2, WorkersAreClosed DEF TypeOK
  <2> QED BY <1>2, <2>1, <2>3 DEF Woken, Wakeup, TypeOK
<1> QED BY <1>1, <1>2

THEOREM MessageQueueTypes == Spec => []TypeOK
<1>1. Init => TypeOK
  <2>1. NoCopies \in Copies
    BY MQAssumption DEF NoCopies, Copies, Absent
  <2> QED BY <2>1, IdleType, MQAssumption DEF Init, TypeOK
<1>2. TypeOK /\ [Next]_vars => TypeOK'
  <2> SUFFICES ASSUME TypeOK, [Next]_vars PROVE TypeOK'
    OBVIOUS
  <2> USE MQAssumption
  <2>0. /\ worker \in [Workers -> WorkerType]
        /\ queued \in Copies /\ processing \in Copies /\ NoCopies \in Copies
        /\ {"poll", "take", "remove", "callback", "resend", "ack", "empty",
            "wait"} \subseteq Steps
    BY TablesAreClosed DEF TypeOK, Steps
  <2>1. ASSUME NEW c \in Clients, Send(c) PROVE TypeOK'
    <3>1. sent' \in 0 .. LastId /\ sent + 1 \in Ids
      BY <2>1 DEF TypeOK, Send, Ids
    <3>2. queued' \in Copies
      BY <2>1, <3>1 DEF TypeOK, Send, Copies, Absent
    <3> QED BY <2>1, <3>1, <3>2, WakeupTypes DEF TypeOK, Send, history
  <2>2. ASSUME NEW c \in Clients, RequeueScan(c) PROVE TypeOK'
    <3>1. Only(processing, expired) \in Copies
      BY TablesAreClosed DEF TypeOK
    <3> QED BY <2>2, <3>1 DEF TypeOK, RequeueScan, tables, history
  <2>3. ASSUME NEW c \in Clients, RequeueDelete(c) PROVE TypeOK'
    <3>1. /\ Delete(processing, In(requeue[c].copies)) \in Copies
          /\ In(Delete(processing, In(requeue[c].copies)))
               = In(processing) \ In(requeue[c].copies)
      BY TablesAreClosed DEF TypeOK
    <3> QED BY <2>3, <3>1 DEF TypeOK, RequeueDelete, history
  <2>4. ASSUME NEW c \in Clients, RequeueSet(c) PROVE TypeOK'
    <3> DEFINE found == requeue[c].copies
    <3>0. found \in Copies
      BY DEF TypeOK
    <3>1. \A m \in In(found) \ TooOften(found) :
            found[m] + 1 \in Absent .. MaxRetries
      BY SMTT(40), <3>0 DEF TooOften, Copies, In, Ids, Absent
    <3>2. queued' \in Copies
      BY <2>4, <3>1 DEF TypeOK, RequeueSet, Copies
    <3>3. dropped' \subseteq Ids
      BY <2>4 DEF TypeOK, RequeueSet, TooOften, In
    <3>4. NoCopies \in Copies
      BY TablesAreClosed DEF TypeOK
    <3> QED BY <2>4, <3>2, <3>3, <3>4 DEF TypeOK, RequeueSet
  <2>5. ASSUME NEW c \in Clients, Crash(c) PROVE TypeOK'
    <3>1. holes' \subseteq Ids
      BY <2>5 DEF TypeOK, Crash, In
    <3>2. NoCopies \in Copies
      BY TablesAreClosed DEF TypeOK
    <3> QED BY <2>5, <3>1, <3>2, IdleType DEF TypeOK, Crash, tables
  <2>6. ASSUME NEW c \in Clients, Reload(c) PROVE TypeOK'
    <3>1. /\ [IdleWorker EXCEPT !.step = "poll"] \in WorkerType
          /\ \A w \in Workers : AfterStop(w) \in WorkerType
      BY ZenonT(40), IdleType DEF TypeOK, AfterStop, WorkerType, Steps
    <3> QED BY <2>6, <3>1 DEF TypeOK, Reload, tables, history
  <2>7. ASSUME NEW w \in Workers, PollRead(w) PROVE TypeOK'
    <3> DEFINE batch == FirstOf(queued)
    <3>1. batch \in SUBSET Ids /\ Only(queued, batch) \in Copies
      BY TablesAreClosed DEF TypeOK, FirstOf, In
    <3> HIDE DEF batch
    <3>3. \A s \in Steps :
            [worker EXCEPT ![w].copies = Only(queued, batch),
                           ![w].batch = batch,
                           ![w].step = s] \in [Workers -> WorkerType]
      BY ZenonT(40), <3>1, <2>0 DEF WorkerType
    <3>4. worker' \in [Workers -> WorkerType]
      <4>1. CASE worker' = [worker EXCEPT ![w] = IdleWorker]
        BY <4>1, <2>0, WorkersAreClosed
      <4>2. CASE worker' = [worker EXCEPT
                              ![w].copies = Only(queued, batch),
                              ![w].batch = batch,
                              ![w].step = IF In(queued) = {} THEN "empty"
                                          ELSE "take"]
        <5>1. (IF In(queued) = {} THEN "empty" ELSE "take") \in Steps
          BY <2>0
        <5> QED BY <4>2, <5>1, <3>3
      <4> QED BY <2>7, <4>1, <4>2 DEF PollRead, batch
    <3> QED BY <2>7, <3>4 DEF TypeOK, PollRead, tables, history
  <2>8. ASSUME NEW w \in Workers, PollTake(w) PROVE TypeOK'
    <3>0. worker[w].copies \in Copies /\ NoCopies \in Copies
      BY TablesAreClosed DEF TypeOK, WorkerType
    <3>1. /\ Put(processing, worker[w].copies) \in Copies
          /\ In(processing) \subseteq In(Put(processing, worker[w].copies))
      BY <3>0, <2>0, TablesAreClosed
    <3>2. handedOut' \in [Ids -> 0 .. MaxRetries + 1]
      BY <2>8 DEF TypeOK, PollTake, HandOut
    <3>3. worker' \in [Workers -> WorkerType]
      BY ZenonT(40), <2>8, <2>0 DEF PollTake, WorkerType
    <3> QED BY <2>8, <3>1, <3>2, <3>3 DEF TypeOK, PollTake
  <2>9. ASSUME NEW w \in Workers, PollRemove(w) PROVE TypeOK'
    <3>1. worker' \in [Workers -> WorkerType]
      BY <2>9, <2>0, WorkersAreClosed DEF PollRemove
    <3>2. queued' \in Copies
      BY <2>9, TablesAreClosed DEF TypeOK, PollRemove
    <3>3. holes' \subseteq Ids
      BY <2>9 DEF TypeOK, PollRemove, WorkerType
    <3> QED BY <2>9, <3>1, <3>2, <3>3 DEF TypeOK, PollRemove
  <2>10. ASSUME NEW w \in Workers, Callback(w) PROVE TypeOK'
    <3>1. PICK done, deferred \in SUBSET worker[w].batch :
             /\ handled' = handled \cup done
             /\ worker' = [worker EXCEPT
                       ![w].done = done, ![w].deferred = deferred,
                       ![w].step = IF deferred # {} THEN "resend" ELSE "ack"]
      BY <2>10 DEF Callback
    <3>2. done \in SUBSET Ids /\ deferred \in SUBSET Ids
      BY DEF TypeOK, WorkerType
    <3>3. worker' \in [Workers -> WorkerType]
      <4>1. \A s \in Steps :
              [worker EXCEPT ![w].done = done, ![w].deferred = deferred,
                             ![w].step = s] \in [Workers -> WorkerType]
        BY ZenonT(40), <3>2, <2>0 DEF WorkerType
      <4>2. (IF deferred # {} THEN "resend" ELSE "ack") \in Steps
        BY <2>0
      <4> QED BY <3>1, <4>1, <4>2
    <3> QED BY <2>10, <3>1, <3>2, <3>3 DEF TypeOK, Callback, tables
  <2>11. ASSUME NEW w \in Workers, Resend(w) PROVE TypeOK'
    <3> DEFINE c == ClientOf[w]
    <3>0. c \in Clients
      OBVIOUS
    <3>1. Cardinality(worker[w].deferred) \in Nat
      BY DeferredFinite
    <3>2. worker[w].deferred \subseteq Ids
      BY DEF TypeOK, WorkerType
    <3>3. sent' \in 0 .. LastId
      BY <2>11, <3>1 DEF TypeOK, Resend
    <3>4. queued' \in Copies
      BY <2>11 DEF TypeOK, Resend, Copies, Absent
    <3>5. worker' \in [Workers -> WorkerType]
      <4>1. Woken(c) \in [Workers -> WorkerType]
        BY <3>0, WakeupTypes
      <4> DEFINE W == Woken(c)
      <4>2. worker' = [W EXCEPT ![w].step = "ack",
                                ![w].done = @ \cup worker[w].deferred,
                                ![w].deferred = {}]
        BY <2>11 DEF Resend
      <4>3. W \in [Workers -> WorkerType]
        BY <4>1
      <4> HIDE DEF W
      <4>4. W[w].done \cup worker[w].deferred \in SUBSET Ids
        BY <4>3, <3>2 DEF WorkerType
      <4>5. \A S, D \in SUBSET Ids : \A s \in Steps :
              [W EXCEPT ![w].step = s, ![w].done = S, ![w].deferred = D]
                \in [Workers -> WorkerType]
        BY ZenonT(40), <4>3 DEF WorkerType
      <4>6. worker' = [W EXCEPT ![w].step = "ack",
                                ![w].done = W[w].done \cup worker[w].deferred,
                                ![w].deferred = {}]
        BY <4>2, <4>3
      <4> QED BY <2>0, <4>4, <4>5, <4>6
    <3>6. resent' \subseteq Ids
      BY <2>11, <3>2 DEF TypeOK, Resend
    <3> QED BY <2>11, <3>0, <3>3, <3>4, <3>5, <3>6, WakeupTypes
            DEF TypeOK, Resend
  <2>12. ASSUME NEW w \in Workers, Ack(w) PROVE TypeOK'
    <3>1. /\ processing' \in Copies
          /\ In(processing') = In(processing) \ worker[w].done
      BY <2>12, TablesAreClosed DEF TypeOK, Ack
    <3>2. worker' \in [Workers -> WorkerType]
      <4>1. \A S, D \in SUBSET Ids : \A s \in Steps :
              [worker EXCEPT ![w].step = s, ![w].batch = S, ![w].done = D]
                \in [Workers -> WorkerType]
        BY ZenonT(40), <2>0 DEF WorkerType
      <4>2. worker' = [worker EXCEPT ![w].step = "poll", ![w].batch = {},
                                     ![w].done = {}]
        BY <2>12 DEF Ack
      <4>3. "poll" \in Steps /\ {} \in SUBSET Ids
        BY <2>0
      <4> QED BY <4>1, <4>2, <4>3
    <3> QED BY <2>12, <3>1, <3>2 DEF TypeOK, Ack, history
  <2>13. ASSUME NEW w \in Workers, Register(w) PROVE TypeOK'
    <3>1. worker' \in [Workers -> WorkerType]
      BY <2>13, <2>0, WorkersAreClosed DEF Register
    <3>2. waiters' \in [Clients -> Seq(Workers)]
      BY <2>13 DEF TypeOK, Register
    <3> QED BY <2>13, <3>1, <3>2 DEF TypeOK, Register, tables, history
  <2>14. ASSUME NEW w \in Workers, SleepEnds(w) PROVE TypeOK'
    <3>1. worker' \in [Workers -> WorkerType]
      BY <2>14, <2>0, WorkersAreClosed DEF SleepEnds
    <3>2. waiters' \in [Clients -> Seq(Workers)]
      BY <2>14, WithoutIsSeq DEF TypeOK, SleepEnds
    <3> QED BY <2>14, <3>1, <3>2 DEF TypeOK, SleepEnds, tables, history
  <2>15. ASSUME NEW w \in Workers, StaleSleepEnds(w) PROVE TypeOK'
    <3>1. waiters' \in [Clients -> Seq(Workers)]
      BY <2>15, WithoutIsSeq DEF TypeOK, StaleSleepEnds
    <3> QED BY <2>15, <3>1 DEF TypeOK, StaleSleepEnds, tables, history
  <2>16. ASSUME NEW w \in Workers, RenewRead(w) PROVE TypeOK'
    <3>1. Only(processing, worker[w].batch) \in Copies
      BY TablesAreClosed DEF TypeOK
    <3> QED BY <2>16, <3>1 DEF TypeOK, RenewRead, tables, history
  <2>17. ASSUME NEW w \in Workers, RenewWrite(w) PROVE TypeOK'
    <3>0. renew[w] \in Copies
      BY DEF TypeOK
    <3>1. /\ Put(processing, renew[w]) \in Copies
          /\ In(processing) \subseteq In(Put(processing, renew[w]))
      BY <3>0, <2>0, TablesAreClosed
    <3> QED BY <2>17, <2>0, <3>1 DEF TypeOK, RenewWrite, history
  <2>18. ASSUME NEW m \in Ids, LeaseRunsOut(m) PROVE TypeOK'
    BY <2>18 DEF TypeOK, LeaseRunsOut, history
  <2>19. CASE CheckQueued
    <3>1. Unsettled \ Requeueing \subseteq Ids
      BY DEF TypeOK, Unsettled, Ids
    <3> QED BY <2>19, <3>1 DEF TypeOK, CheckQueued, tables, history
  <2>20. CASE CheckProcessing
    BY <2>20 DEF TypeOK, CheckProcessing, tables, history
  <2>21. CASE DeviceSleeps
    BY <2>21 DEF TypeOK, DeviceSleeps, history
  <2>22. CASE UNCHANGED vars
    BY <2>22 DEF TypeOK, vars, tables, history
  <2>23. ASSUME NEW w \in Workers, PollFails(w) PROVE TypeOK'
    <3>1. [IdleWorker EXCEPT !.step = "dead"] \in WorkerType
      BY ZenonT(40), IdleType DEF WorkerType, Steps
    <3>2. worker' \in [Workers -> WorkerType]
      BY <2>23, <2>0, <3>1 DEF PollFails
    <3> QED BY <2>23, <3>2 DEF TypeOK, PollFails, tables, history
  <2>24. ASSUME NEW w \in Workers, CallbackFails(w) PROVE TypeOK'
    <3>1. worker[w].stopping \in BOOLEAN
      BY <2>0 DEF WorkerType
    <3>2. \A b \in BOOLEAN :
            [IdleWorker EXCEPT !.step = "poll", !.stopping = b] \in WorkerType
      BY ZenonT(40), IdleType, <2>0 DEF WorkerType
    <3>3. worker' \in [Workers -> WorkerType]
      BY <2>24, <2>0, <3>1, <3>2 DEF CallbackFails
    <3> QED BY <2>24, <3>3 DEF TypeOK, CallbackFails, tables, history
  <2>25. ASSUME NEW c \in Clients, RequeueFails(c) PROVE TypeOK'
    <3>1. holes' \subseteq Ids
      BY <2>25 DEF TypeOK, RequeueFails, In
    <3>2. NoCopies \in Copies
      BY TablesAreClosed DEF TypeOK
    <3> QED BY <2>25, <3>1, <3>2 DEF TypeOK, RequeueFails, tables
  <2> QED
    BY <2>1, <2>2, <2>3, <2>4, <2>5, <2>6, <2>7, <2>8, <2>9, <2>10, <2>11,
       <2>12, <2>13, <2>14, <2>15, <2>16, <2>17, <2>18, <2>19, <2>20, <2>21,
       <2>22, <2>23, <2>24, <2>25 DEF Next
<1> QED BY <1>1, <1>2, PTL DEF Spec

-----------------------------------------------------------------------------
(* At least once                                                           *)

\* A wake-up changes the step of one waiting worker and nothing else of any.
LEMMA WakeupKeeps ==
  ASSUME TypeOK, NEW c \in Clients, NEW w \in Workers
  PROVE  /\ Woken(c)[w].done = worker[w].done
         /\ Woken(c)[w].deferred = worker[w].deferred
         /\ Woken(c)[w].batch = worker[w].batch
         /\ Woken(c)[w].copies = worker[w].copies
         /\ Woken(c)[w].step \in {worker[w].step, "poll"}
<1>1. waiters[c] # <<>> => Head(waiters[c]) \in Workers
  BY DEF TypeOK
<1>2. worker \in [Workers -> WorkerType]
  BY DEF TypeOK
<1> QED BY <1>1, <1>2 DEF Woken, WorkerType

\* What a worker is about to acknowledge was processed or sent anew.
AckedHandled == \A v \in Workers : worker[v].done \subseteq handled \cup resent

LEMMA AckedHandledStep ==
  ASSUME TypeOK, AckedHandled, [Next]_vars
  PROVE  AckedHandled'
<1>0. worker \in [Workers -> WorkerType]
  BY DEF TypeOK
<1>1. ASSUME NEW c \in Clients, Send(c) PROVE AckedHandled'
  BY <1>1, <1>0, WakeupKeeps DEF AckedHandled, Send, history
<1>2. ASSUME NEW c \in Clients, RequeueScan(c) PROVE AckedHandled'
  BY <1>2, <1>0
     DEF AckedHandled, RequeueScan, IdleWorker, AfterStop, WorkerType, history
<1>3. ASSUME NEW c \in Clients, RequeueDelete(c) PROVE AckedHandled'
  BY <1>3, <1>0
     DEF AckedHandled, RequeueDelete, IdleWorker, AfterStop, WorkerType, history
<1>4. ASSUME NEW c \in Clients, RequeueSet(c) PROVE AckedHandled'
  BY <1>4, <1>0
     DEF AckedHandled, RequeueSet, IdleWorker, AfterStop, WorkerType, history
<1>5. ASSUME NEW c \in Clients, Crash(c) PROVE AckedHandled'
  BY <1>5, <1>0
     DEF AckedHandled, Crash, IdleWorker, AfterStop, WorkerType, history
<1>6. ASSUME NEW c \in Clients, Reload(c) PROVE AckedHandled'
  BY <1>6, <1>0
     DEF AckedHandled, Reload, IdleWorker, AfterStop, WorkerType, history
<1>7. ASSUME NEW w \in Workers, PollRead(w) PROVE AckedHandled'
  BY <1>7, <1>0
     DEF AckedHandled, PollRead, IdleWorker, AfterStop, WorkerType, history
<1>8. ASSUME NEW w \in Workers, PollTake(w) PROVE AckedHandled'
  BY <1>8, <1>0
     DEF AckedHandled, PollTake, IdleWorker, AfterStop, WorkerType, history
<1>9. ASSUME NEW w \in Workers, PollRemove(w) PROVE AckedHandled'
  BY <1>9, <1>0
     DEF AckedHandled, PollRemove, IdleWorker, AfterStop, WorkerType, history
<1>10. ASSUME NEW w \in Workers, Callback(w) PROVE AckedHandled'
  BY <1>10, <1>0
     DEF AckedHandled, Callback, IdleWorker, AfterStop, WorkerType, history
<1>11. ASSUME NEW w \in Workers, Resend(w) PROVE AckedHandled'
  <2>1. ClientOf[w] \in Clients
    BY MQAssumption
  <2>2. Woken(ClientOf[w]) \in [Workers -> WorkerType]
    BY <2>1, WakeupTypes
  <2>3. \A v \in Workers :
          worker'[v].done = IF v = w THEN worker[v].done \cup worker[w].deferred
                            ELSE worker[v].done
    <3> DEFINE W == Woken(ClientOf[w])
    <3>1. worker' = [W EXCEPT ![w].step = "ack",
                              ![w].done = @ \cup worker[w].deferred,
                              ![w].deferred = {}]
      BY <1>11 DEF Resend
    <3>2. W \in [Workers -> WorkerType]
      BY <2>2
    <3>3. \A v \in Workers : W[v].done = worker[v].done
      BY <2>1, WakeupKeeps
    <3> HIDE DEF W
    <3>4. \A v \in Workers :
            worker'[v].done = IF v = w THEN W[v].done \cup worker[w].deferred
                              ELSE W[v].done
      BY <3>1, <3>2 DEF WorkerType
    <3> QED BY <3>3, <3>4
  <2>4. resent' = resent \cup worker[w].deferred /\ handled' = handled
    BY <1>11 DEF Resend
  <2> QED BY <2>3, <2>4 DEF AckedHandled
<1>12. ASSUME NEW w \in Workers, Ack(w) PROVE AckedHandled'
  BY <1>12, <1>0
     DEF AckedHandled, Ack, IdleWorker, AfterStop, WorkerType, history
<1>13. ASSUME NEW w \in Workers, Register(w) PROVE AckedHandled'
  BY <1>13, <1>0
     DEF AckedHandled, Register, IdleWorker, AfterStop, WorkerType, history
<1>14. ASSUME NEW w \in Workers, SleepEnds(w) PROVE AckedHandled'
  BY <1>14, <1>0
     DEF AckedHandled, SleepEnds, IdleWorker, AfterStop, WorkerType, history
<1>15. ASSUME NEW w \in Workers, StaleSleepEnds(w) PROVE AckedHandled'
  BY <1>15, <1>0
     DEF AckedHandled, StaleSleepEnds, IdleWorker, AfterStop, WorkerType, history
<1>16. ASSUME NEW w \in Workers, RenewRead(w) PROVE AckedHandled'
  BY <1>16, <1>0
     DEF AckedHandled, RenewRead, IdleWorker, AfterStop, WorkerType, history
<1>17. ASSUME NEW w \in Workers, RenewWrite(w) PROVE AckedHandled'
  BY <1>17, <1>0
     DEF AckedHandled, RenewWrite, IdleWorker, AfterStop, WorkerType, history
<1>18. ASSUME NEW m \in Ids, LeaseRunsOut(m) PROVE AckedHandled'
  BY <1>18, <1>0
     DEF AckedHandled, LeaseRunsOut, IdleWorker, AfterStop, WorkerType, history
<1>19. CASE CheckQueued
  BY <1>19, <1>0
     DEF AckedHandled, CheckQueued, IdleWorker, AfterStop, WorkerType, history
<1>20. CASE CheckProcessing
  BY <1>20, <1>0
     DEF AckedHandled, CheckProcessing, IdleWorker, AfterStop, WorkerType, history
<1>21. CASE DeviceSleeps
  BY <1>21, <1>0
     DEF AckedHandled, DeviceSleeps, IdleWorker, AfterStop, WorkerType, history
<1>22. CASE UNCHANGED vars
  BY <1>22 DEF AckedHandled, vars, history
<1>23. ASSUME NEW w \in Workers, PollFails(w) PROVE AckedHandled'
  BY <1>23, <1>0
     DEF AckedHandled, PollFails, IdleWorker, WorkerType, tables, history
<1>24. ASSUME NEW w \in Workers, CallbackFails(w) PROVE AckedHandled'
  BY <1>24, <1>0
     DEF AckedHandled, CallbackFails, IdleWorker, WorkerType, tables, history
<1>25. ASSUME NEW c \in Clients, RequeueFails(c) PROVE AckedHandled'
  BY <1>25, <1>0
     DEF AckedHandled, RequeueFails, IdleWorker, WorkerType, tables, history
<1> QED BY <1>1, <1>2, <1>3, <1>4, <1>5, <1>6, <1>7, <1>8, <1>9, <1>10,
     <1>11, <1>12, <1>13, <1>14, <1>15, <1>16, <1>17, <1>18, <1>19, <1>20,
     <1>21, <1>22, <1>23, <1>24, <1>25 DEF Next

\* No step lets go of a message.
LEMMA NoMessageLostStep ==
  ASSUME TypeOK, AckedHandled, NoMessageLost, [Next]_vars
  PROVE  NoMessageLost'
<1>0. worker \in [Workers -> WorkerType]
  BY DEF TypeOK
<1>1. ASSUME NEW c \in Clients, Send(c) PROVE NoMessageLost'
  <2>1. In(queued') = In(queued) \cup {sent + 1}
    <3>1. sent + 1 \in Ids /\ sent' = sent + 1 /\ queued \in [Ids -> Int]
      BY <1>1, MQAssumption DEF Send, TypeOK, Ids, Copies, Absent
    <3>2. queued' = [queued EXCEPT ![sent + 1] = 0]
      BY <1>1 DEF Send
    <3> QED BY <3>1, <3>2 DEF In, Absent
  <2>2. 1 .. sent' = (1 .. sent) \cup {sent + 1}
    BY <1>1 DEF Send, TypeOK
  <2>3. /\ Requeueing' = Requeueing /\ In(processing') = In(processing)
        /\ handled' = handled /\ resent' = resent /\ dropped' = dropped
        /\ holes' = holes
    BY <1>1 DEF Send, Requeueing, history
  <2> QED BY <2>1, <2>2, <2>3 DEF NoMessageLost, Finished, Stored
<1>2. ASSUME NEW c \in Clients, RequeueScan(c) PROVE NoMessageLost'
  <2>1. Requeueing \subseteq Requeueing'
    BY <1>2 DEF RequeueScan, TypeOK, Requeueing
  <2> QED BY <1>2, <2>1 DEF NoMessageLost, Finished, Stored, RequeueScan, tables, history
<1>3. ASSUME NEW c \in Clients, RequeueDelete(c) PROVE NoMessageLost'
  <2>1. In(processing') = In(processing) \ In(requeue[c].copies)
    BY <1>3, TablesAreClosed DEF RequeueDelete, TypeOK
  <2>2. Requeueing' = Requeueing \cup In(requeue[c].copies)
    <3>1. requeue \in [Clients -> [step : {"idle", "scanned", "deleted"},
                                  copies : Copies]]
      BY DEF TypeOK
    <3>2. requeue' = [requeue EXCEPT ![c].step = "deleted"]
      BY <1>3 DEF RequeueDelete
    <3> QED BY <3>1, <3>2 DEF Requeueing
  <2> QED BY <1>3, <2>1, <2>2 DEF NoMessageLost, Finished, Stored, RequeueDelete, history
<1>4. ASSUME NEW c \in Clients, RequeueSet(c) PROVE NoMessageLost'
  <2> DEFINE found == requeue[c].copies
  <2>1. found \in Copies
    BY DEF TypeOK
  <2>2. In(queued') = In(queued) \cup (In(found) \ TooOften(found))
    <3>1. \A m \in Ids : found[m] \in Absent .. MaxRetries
      BY <2>1 DEF Copies
    <3>2. \A m \in In(found) : found[m] + 1 # Absent
      BY <3>1, MQAssumption DEF In, Absent
    <3>3. queued' = [m \in Ids |-> IF m \in In(found) \ TooOften(found)
                                  THEN found[m] + 1 ELSE queued[m]]
      BY <1>4 DEF RequeueSet
    <3> QED BY <3>2, <3>3 DEF In
  <2>3. \A d \in Clients \ {c} : requeue'[d] = requeue[d]
    BY <1>4 DEF RequeueSet, TypeOK
  <2>4. Requeueing \subseteq Requeueing' \cup In(found)
    BY <2>3 DEF Requeueing
  <2> QED BY <1>4, <2>2, <2>4 DEF NoMessageLost, Finished, Stored, RequeueSet
<1>5. ASSUME NEW c \in Clients, Crash(c) PROVE NoMessageLost'
  <2>1. Requeueing \subseteq Requeueing' \cup holes'
    BY <1>5 DEF Crash, TypeOK, Requeueing
  <2>2. holes \subseteq holes'
    BY <1>5 DEF Crash
  <2> QED BY <1>5, <2>1, <2>2 DEF NoMessageLost, Finished, Stored, Crash, tables
<1>6. ASSUME NEW c \in Clients, Reload(c) PROVE NoMessageLost'
  BY <1>6 DEF NoMessageLost, Finished, Stored, Requeueing, Reload, tables, history
<1>7. ASSUME NEW w \in Workers, PollRead(w) PROVE NoMessageLost'
  BY <1>7 DEF NoMessageLost, Finished, Stored, Requeueing, PollRead, tables, history
<1>8. ASSUME NEW w \in Workers, PollTake(w) PROVE NoMessageLost'
  <2>1. In(processing) \subseteq In(processing')
    <3>1. worker[w].copies \in Copies /\ processing \in Copies
      BY <1>0 DEF WorkerType, TypeOK
    <3>2. processing' = Put(processing, worker[w].copies)
      BY <1>8 DEF PollTake
    <3> QED BY <3>1, <3>2, TablesAreClosed
  <2> QED BY <1>8, <2>1 DEF NoMessageLost, Finished, Stored, Requeueing, PollTake
<1>9. ASSUME NEW w \in Workers, PollRemove(w) PROVE NoMessageLost'
  <2>1. In(queued') = In(queued) \ worker[w].batch
    BY <1>9, TablesAreClosed DEF PollRemove, TypeOK
  <2> QED BY <1>9, <2>1 DEF NoMessageLost, Finished, Stored, Requeueing, PollRemove
<1>10. ASSUME NEW w \in Workers, Callback(w) PROVE NoMessageLost'
  BY <1>10 DEF NoMessageLost, Finished, Stored, Requeueing, Callback, tables, history
<1>11. ASSUME NEW w \in Workers, Resend(w) PROVE NoMessageLost'
  <2>1. Cardinality(worker[w].deferred) \in Nat
    BY DeferredFinite
  <2>2. In(queued) \cup (sent + 1 .. sent') \subseteq In(queued')
    <3>1. sent' = sent + Cardinality(worker[w].deferred) /\ sent' <= LastId
      BY <1>11 DEF Resend
    <3>2. queued' = [m \in Ids |-> IF m \in sent + 1 .. sent' THEN 0
                                  ELSE queued[m]]
      BY <1>11 DEF Resend
    <3>3. sent + 1 .. sent' \subseteq Ids
      BY <3>1, <2>1, MQAssumption DEF TypeOK, Ids
    <3> QED BY <3>2, <3>3 DEF In, Absent
  <2>3. 1 .. sent' = (1 .. sent) \cup (sent + 1 .. sent')
    BY <1>11, <2>1 DEF Resend, TypeOK
  <2> QED BY <1>11, <2>2, <2>3 DEF NoMessageLost, Finished, Stored, Requeueing, Resend
<1>12. ASSUME NEW w \in Workers, Ack(w) PROVE NoMessageLost'
  <2>1. In(processing') = In(processing) \ worker[w].done
    BY <1>12, TablesAreClosed DEF Ack, TypeOK
  <2> QED BY <1>12, <2>1 DEF NoMessageLost, Finished, Stored, Requeueing, Ack, AckedHandled, history
<1>13. ASSUME NEW w \in Workers, Register(w) PROVE NoMessageLost'
  BY <1>13 DEF NoMessageLost, Finished, Stored, Requeueing, Register, tables, history
<1>14. ASSUME NEW w \in Workers, SleepEnds(w) PROVE NoMessageLost'
  BY <1>14 DEF NoMessageLost, Finished, Stored, Requeueing, SleepEnds, tables, history
<1>15. ASSUME NEW w \in Workers, StaleSleepEnds(w) PROVE NoMessageLost'
  BY <1>15 DEF NoMessageLost, Finished, Stored, Requeueing, StaleSleepEnds, tables, history
<1>16. ASSUME NEW w \in Workers, RenewRead(w) PROVE NoMessageLost'
  BY <1>16 DEF NoMessageLost, Finished, Stored, Requeueing, RenewRead, tables, history
<1>17. ASSUME NEW w \in Workers, RenewWrite(w) PROVE NoMessageLost'
  <2>1. In(processing) \subseteq In(processing')
    BY SMTT(40), <1>17, TablesAreClosed DEF RenewWrite, TypeOK
  <2> QED BY <1>17, <2>1 DEF NoMessageLost, Finished, Stored, Requeueing, RenewWrite, history
<1>18. ASSUME NEW m \in Ids, LeaseRunsOut(m) PROVE NoMessageLost'
  BY <1>18 DEF NoMessageLost, Finished, Stored, Requeueing, LeaseRunsOut, tables, history
<1>19. CASE CheckQueued
  BY <1>19 DEF NoMessageLost, Finished, Stored, Requeueing, CheckQueued, tables, history
<1>20. CASE CheckProcessing
  BY <1>20 DEF NoMessageLost, Finished, Stored, Requeueing, CheckProcessing, tables, history
<1>21. CASE DeviceSleeps
  BY <1>21 DEF NoMessageLost, Finished, Stored, Requeueing, DeviceSleeps, tables, history
<1>22. CASE UNCHANGED vars
  BY <1>22 DEF NoMessageLost, Finished, Stored, Requeueing, vars, tables, history
<1>23. ASSUME NEW w \in Workers, PollFails(w) PROVE NoMessageLost'
  BY <1>23 DEF NoMessageLost, Finished, Stored, Requeueing, PollFails, tables, history
<1>24. ASSUME NEW w \in Workers, CallbackFails(w) PROVE NoMessageLost'
  BY <1>24 DEF NoMessageLost, Finished, Stored, Requeueing, CallbackFails, tables, history
<1>25. ASSUME NEW c \in Clients, RequeueFails(c) PROVE NoMessageLost'
  <2>1. Requeueing \subseteq Requeueing' \cup holes'
    BY <1>25 DEF RequeueFails, TypeOK, Requeueing
  <2>2. holes \subseteq holes'
    BY <1>25 DEF RequeueFails
  <2> QED BY <1>25, <2>1, <2>2 DEF NoMessageLost, Finished, Stored, RequeueFails, tables
<1> QED BY <1>1, <1>2, <1>3, <1>4, <1>5, <1>6, <1>7, <1>8, <1>9, <1>10,
     <1>11, <1>12, <1>13, <1>14, <1>15, <1>16, <1>17, <1>18, <1>19, <1>20,
     <1>21, <1>22, <1>23, <1>24, <1>25 DEF Next

\* At least once: whatever windows crash and whoever polls, renews, requeues
\* and acknowledges at the same time, a sent message is stored, held by a
\* requeueTimeouts call, processed or flushed, but for the two holes.
THEOREM AtLeastOnce == Spec => []NoMessageLost
<1> DEFINE Inv == TypeOK /\ AckedHandled /\ NoMessageLost
<1>1. Init => AckedHandled /\ NoMessageLost
  BY MQAssumption DEF Init, AckedHandled, NoMessageLost, IdleWorker
<1>2. TypeOK /\ AckedHandled /\ NoMessageLost /\ [Next]_vars
        => AckedHandled' /\ NoMessageLost'
  BY AckedHandledStep, NoMessageLostStep
<1> QED BY <1>1, <1>2, MessageQueueTypes, PTL DEF Spec

-----------------------------------------------------------------------------
(* Retries                                                                 *)

\* The values of the tables the operators build.
LEMMA TableValues ==
  ASSUME NEW m \in Ids
  PROVE  /\ \A t, s : Put(t, s)[m] \in {t[m], s[m]}
         /\ \A t, S : Delete(t, S)[m] \in {t[m], Absent}
         /\ \A t, S : Only(t, S)[m] \in {t[m], Absent}
         /\ NoCopies[m] = Absent
  BY DEF Put, Delete, Only, NoCopies

\* A worker between the read and the first write of poll holds a copy of
\* exactly the messages of its batch.
TakesBatch == \A v \in Workers :
  worker[v].step = "take" => worker[v].batch = In(worker[v].copies)

LEMMA TakesBatchStep ==
  ASSUME TypeOK, TakesBatch, [Next]_vars
  PROVE  TakesBatch'
<1>0. worker \in [Workers -> WorkerType]
  BY DEF TypeOK
<1>1. ASSUME NEW c \in Clients, Send(c) PROVE TakesBatch'
  <2>1. \A v \in Workers :
          /\ Woken(c)[v].step = "take" => worker[v].step = "take"
          /\ Woken(c)[v].batch = worker[v].batch
          /\ Woken(c)[v].copies = worker[v].copies
    BY WakeupKeeps
  <2> QED BY <1>1, <2>1 DEF TakesBatch, Send
<1>2. ASSUME NEW c \in Clients, RequeueScan(c) PROVE TakesBatch'
  BY <1>2, <1>0 DEF TakesBatch, RequeueScan, IdleWorker, WorkerType, history
<1>3. ASSUME NEW c \in Clients, RequeueDelete(c) PROVE TakesBatch'
  BY <1>3, <1>0 DEF TakesBatch, RequeueDelete, IdleWorker, WorkerType, history
<1>4. ASSUME NEW c \in Clients, RequeueSet(c) PROVE TakesBatch'
  BY <1>4, <1>0 DEF TakesBatch, RequeueSet, IdleWorker, WorkerType, history
<1>5. ASSUME NEW c \in Clients, Crash(c) PROVE TakesBatch'
  BY <1>5, <1>0 DEF TakesBatch, Crash, IdleWorker, WorkerType, history
<1>6. ASSUME NEW c \in Clients, Reload(c) PROVE TakesBatch'
  <2>1. \A v \in Workers : worker'[v].step = "take" =>
          /\ worker[v].step = "take"
          /\ worker'[v].batch = worker[v].batch
          /\ worker'[v].copies = worker[v].copies
    BY <1>6, <1>0 DEF Reload, AfterStop, IdleWorker, WorkerType
  <2> QED BY <2>1 DEF TakesBatch
<1>7. ASSUME NEW w \in Workers, PollRead(w) PROVE TakesBatch'
  <2>1. In(Only(queued, FirstOf(queued))) = FirstOf(queued)
    <3>1. FirstOf(queued) \subseteq In(queued)
      BY DEF FirstOf
    <3>2. queued \in Copies
      BY DEF TypeOK
    <3>3. In(Only(queued, FirstOf(queued))) = In(queued) \cap FirstOf(queued)
      BY <3>2, TablesAreClosed
    <3> QED BY <3>1, <3>3
  <2> QED BY <1>7, <1>0, <2>1 DEF TakesBatch, PollRead, IdleWorker, WorkerType
<1>8. ASSUME NEW w \in Workers, PollTake(w) PROVE TakesBatch'
  BY <1>8, <1>0 DEF TakesBatch, PollTake, IdleWorker, WorkerType, history
<1>9. ASSUME NEW w \in Workers, PollRemove(w) PROVE TakesBatch'
  BY <1>9, <1>0 DEF TakesBatch, PollRemove, IdleWorker, WorkerType, history
<1>10. ASSUME NEW w \in Workers, Callback(w) PROVE TakesBatch'
  BY <1>10, <1>0 DEF TakesBatch, Callback, IdleWorker, WorkerType, history
<1>11. ASSUME NEW w \in Workers, Resend(w) PROVE TakesBatch'
  <2> DEFINE W == Woken(ClientOf[w])
  <2>1. ClientOf[w] \in Clients
    BY MQAssumption
  <2>2. \A v \in Workers :
          /\ W[v].step = "take" => worker[v].step = "take"
          /\ W[v].batch = worker[v].batch
          /\ W[v].copies = worker[v].copies
    BY <2>1, WakeupKeeps
  <2>3. W \in [Workers -> WorkerType]
    BY <2>1, WakeupTypes
  <2>4. worker' = [W EXCEPT ![w].step = "ack",
                            ![w].done = @ \cup worker[w].deferred,
                            ![w].deferred = {}]
    BY <1>11 DEF Resend
  <2> HIDE DEF W
  <2>5. \A v \in Workers :
          /\ worker'[v].step = "take" => W[v].step = "take"
          /\ worker'[v].batch = W[v].batch
          /\ worker'[v].copies = W[v].copies
    BY <2>3, <2>4 DEF WorkerType
  <2> QED BY <2>2, <2>5 DEF TakesBatch
<1>12. ASSUME NEW w \in Workers, Ack(w) PROVE TakesBatch'
  BY <1>12, <1>0 DEF TakesBatch, Ack, IdleWorker, WorkerType, history
<1>13. ASSUME NEW w \in Workers, Register(w) PROVE TakesBatch'
  BY <1>13, <1>0 DEF TakesBatch, Register, IdleWorker, WorkerType, history
<1>14. ASSUME NEW w \in Workers, SleepEnds(w) PROVE TakesBatch'
  BY <1>14, <1>0 DEF TakesBatch, SleepEnds, IdleWorker, WorkerType, history
<1>15. ASSUME NEW w \in Workers, StaleSleepEnds(w) PROVE TakesBatch'
  BY <1>15, <1>0 DEF TakesBatch, StaleSleepEnds, IdleWorker, WorkerType, history
<1>16. ASSUME NEW w \in Workers, RenewRead(w) PROVE TakesBatch'
  BY <1>16, <1>0 DEF TakesBatch, RenewRead, IdleWorker, WorkerType, history
<1>17. ASSUME NEW w \in Workers, RenewWrite(w) PROVE TakesBatch'
  BY <1>17, <1>0 DEF TakesBatch, RenewWrite, IdleWorker, WorkerType, history
<1>18. ASSUME NEW m \in Ids, LeaseRunsOut(m) PROVE TakesBatch'
  BY <1>18, <1>0 DEF TakesBatch, LeaseRunsOut, IdleWorker, WorkerType, history
<1>19. CASE CheckQueued
  BY <1>19, <1>0 DEF TakesBatch, CheckQueued, IdleWorker, WorkerType, history
<1>20. CASE CheckProcessing
  BY <1>20, <1>0 DEF TakesBatch, CheckProcessing, IdleWorker, WorkerType, history
<1>21. CASE DeviceSleeps
  BY <1>21, <1>0 DEF TakesBatch, DeviceSleeps, IdleWorker, WorkerType, history
<1>22. CASE UNCHANGED vars
  BY <1>22 DEF TakesBatch, vars
<1>23. ASSUME NEW w \in Workers, PollFails(w) PROVE TakesBatch'
  BY <1>23, <1>0 DEF TakesBatch, PollFails, IdleWorker, WorkerType, history
<1>24. ASSUME NEW w \in Workers, CallbackFails(w) PROVE TakesBatch'
  BY <1>24, <1>0 DEF TakesBatch, CallbackFails, IdleWorker, WorkerType, history
<1>25. ASSUME NEW c \in Clients, RequeueFails(c) PROVE TakesBatch'
  BY <1>25, <1>0 DEF TakesBatch, RequeueFails, IdleWorker, WorkerType, history
<1> QED BY <1>1, <1>2, <1>3, <1>4, <1>5, <1>6, <1>7, <1>8, <1>9, <1>10,
     <1>11, <1>12, <1>13, <1>14, <1>15, <1>16, <1>17, <1>18, <1>19, <1>20,
     <1>21, <1>22, <1>23, <1>24, <1>25 DEF Next

\* A copy that can be taken from queued carries at most as many retries as
\* the message was handed out, every other copy fewer.  (Absent is -1, so that
\* the bounds hold of a missing copy as well.)
RetriesDelivered ==
  /\ \A m \in Ids : queued[m] <= handedOut[m] /\ processing[m] + 1 <= handedOut[m]
  /\ \A v \in Workers : \A m \in Ids : worker[v].copies[m] <= handedOut[m]
  /\ \A v \in Workers : \A m \in Ids : renew[v][m] + 1 <= handedOut[m]
  /\ \A d \in Clients : \A m \in Ids : requeue[d].copies[m] + 1 <= handedOut[m]
  /\ \A m \in dropped : handedOut[m] > MaxRetries

LEMMA RetriesDeliveredStep ==
  ASSUME TypeOK, TakesBatch, RetriesDelivered, [Next]_vars
  PROVE  RetriesDelivered'
<1>0. /\ worker \in [Workers -> WorkerType] /\ renew \in [Workers -> Copies]
      /\ requeue \in [Clients -> [step : {"idle", "scanned", "deleted"},
                                 copies : Copies]]
      /\ queued \in Copies /\ processing \in Copies
      /\ handedOut \in [Ids -> 0 .. MaxRetries + 1]
      /\ \A m \in Ids : Absent <= handedOut[m] /\ 0 <= handedOut[m]
                         /\ Absent + 1 <= handedOut[m]
  BY MQAssumption DEF TypeOK, Absent
<1>1. ASSUME NEW c \in Clients, Send(c) PROVE RetriesDelivered'
  <2>2. \A m \in Ids : queued'[m] \in {0, queued[m]}
    BY <1>1, <1>0 DEF Send, Copies
  <2>3. \A v \in Workers : worker'[v].copies = worker[v].copies
    BY <1>1, WakeupKeeps DEF Send
  <2> QED BY <1>1, <1>0, <2>2, <2>3 DEF RetriesDelivered, Send, history
<1>2. ASSUME NEW c \in Clients, RequeueScan(c) PROVE RetriesDelivered'
  BY <1>2, <1>0, TableValues DEF RetriesDelivered, RequeueScan, tables, history, WorkerType
<1>3. ASSUME NEW c \in Clients, RequeueDelete(c) PROVE RetriesDelivered'
  <2>1. \A m \in Ids : processing'[m] \in {processing[m], Absent}
    BY <1>3, TableValues DEF RequeueDelete
  <2>2. \A d \in Clients : requeue'[d].copies = requeue[d].copies
    BY <1>3, <1>0 DEF RequeueDelete
  <2> QED BY <1>3, <1>0, <2>1, <2>2 DEF RetriesDelivered, RequeueDelete, history
<1>4. ASSUME NEW c \in Clients, RequeueSet(c) PROVE RetriesDelivered'
  <2> DEFINE found == requeue[c].copies
  <2>1. \A m \in Ids : queued'[m] \in {queued[m], found[m] + 1}
    BY <1>4 DEF RequeueSet
  <2>2. \A d \in Clients : \A m \in Ids :
          requeue'[d].copies[m] \in {requeue[d].copies[m], Absent}
    BY <1>4, <1>0, TableValues DEF RequeueSet
  <2>3. \A m \in TooOften(found) : handedOut[m] > MaxRetries
    <3>1. found \in Copies /\ \A m \in Ids : found[m] + 1 <= handedOut[m]
      BY <1>0 DEF RetriesDelivered
    <3>2. \A m \in Ids : found[m] \in Int /\ handedOut[m] \in Int
      BY <1>0, <3>1, MQAssumption DEF Copies, Absent
    <3> QED BY <3>1, <3>2, MQAssumption DEF TooOften, In
  <2> QED BY <1>4, <1>0, <2>1, <2>2, <2>3 DEF RetriesDelivered, RequeueSet
<1>5. ASSUME NEW c \in Clients, Crash(c) PROVE RetriesDelivered'
  <2>1. \A v \in Workers : \A m \in Ids :
          worker'[v].copies[m] \in {worker[v].copies[m], Absent}
    BY <1>5, <1>0, TableValues DEF Crash, IdleWorker
  <2>2. \A v \in Workers : \A m \in Ids :
          renew'[v][m] \in {renew[v][m], Absent}
    BY <1>5, <1>0, TableValues DEF Crash
  <2>3. \A d \in Clients : \A m \in Ids :
          requeue'[d].copies[m] \in {requeue[d].copies[m], Absent}
    BY <1>5, <1>0, TableValues DEF Crash
  <2> QED BY <1>5, <1>0, <2>1, <2>2, <2>3 DEF RetriesDelivered, Crash, tables
<1>6. ASSUME NEW c \in Clients, Reload(c) PROVE RetriesDelivered'
  <2>1. \A v \in Workers : \A m \in Ids :
          worker'[v].copies[m] \in {worker[v].copies[m], Absent}
    BY <1>6, <1>0, TableValues DEF Reload, AfterStop, IdleWorker, WorkerType
  <2> QED BY <1>6, <1>0, <2>1 DEF RetriesDelivered, Reload, tables, history
<1>7. ASSUME NEW w \in Workers, PollRead(w) PROVE RetriesDelivered'
  <2>1. \A v \in Workers : \A m \in Ids :
          worker'[v].copies[m] \in {worker[v].copies[m], queued[m], Absent}
    <3> DEFINE batch == FirstOf(queued)
    <3>1. CASE worker' = [worker EXCEPT ![w] = IdleWorker]
      BY <3>1, <1>0, TableValues DEF IdleWorker
    <3>2. CASE worker' = [worker EXCEPT
                            ![w].copies = Only(queued, batch),
                            ![w].batch = batch,
                            ![w].step = IF In(queued) = {} THEN "empty"
                                        ELSE "take"]
      <4> HIDE DEF batch
      <4>1. \A v \in Workers : worker'[v].copies
              = IF v = w THEN Only(queued, batch) ELSE worker[v].copies
        BY <3>2, <1>0 DEF WorkerType
      <4> QED BY <4>1, TableValues
    <3> QED BY <1>7, <3>1, <3>2 DEF PollRead
  <2> QED BY <1>7, <1>0, <2>1 DEF RetriesDelivered, PollRead, tables, history
<1>8. ASSUME NEW w \in Workers, PollTake(w) PROVE RetriesDelivered'
  <2>1. worker[w].copies \in Copies /\ processing \in Copies
    BY <1>0 DEF WorkerType
  <2>2. \A m \in Ids : processing'[m] + 1 <= handedOut'[m]
    <3> SUFFICES ASSUME NEW m \in Ids
                 PROVE  processing'[m] + 1 <= handedOut'[m]
      OBVIOUS
    <3>1. worker[w].batch = In(worker[w].copies)
      BY <1>8 DEF PollTake, TakesBatch
    <3>2. /\ worker[w].copies[m] \in Absent .. MaxRetries
          /\ processing[m] \in Absent .. MaxRetries
          /\ handedOut[m] \in 0 .. MaxRetries + 1
      BY <2>1, <1>0 DEF Copies
    <3>3. /\ worker[w].copies[m] <= handedOut[m]
          /\ processing[m] + 1 <= handedOut[m]
      BY DEF RetriesDelivered
    <3>4. handedOut'[m] = IF m \in worker[w].batch /\ handedOut[m] <= MaxRetries
                          THEN handedOut[m] + 1 ELSE handedOut[m]
      BY <1>8 DEF PollTake, HandOut
    <3>5. processing'[m] = IF worker[w].copies[m] # Absent
                           THEN worker[w].copies[m] ELSE processing[m]
      BY <1>8 DEF PollTake, Put
    <3> QED BY <3>1, <3>2, <3>3, <3>4, <3>5, MQAssumption DEF In, Absent
  <2>3. \A m \in Ids : handedOut'[m] >= handedOut[m] /\ handedOut'[m] \in Int
    BY <1>8, <1>0, MQAssumption DEF PollTake, HandOut
  <2>4. \A v \in Workers : \A m \in Ids :
          worker'[v].copies[m] \in {worker[v].copies[m], Absent}
    BY <1>8, <1>0, TableValues DEF PollTake, WorkerType
  <2>5. /\ \A v \in Workers : \A m \in Ids : worker[v].copies[m] \in Int
        /\ \A v \in Workers : \A m \in Ids : renew[v][m] \in Int
        /\ \A d \in Clients : \A m \in Ids : requeue[d].copies[m] \in Int
        /\ \A m \in Ids : queued[m] \in Int /\ handedOut[m] \in Nat
    BY <1>0 DEF Copies, WorkerType, Absent
  <2>6. dropped \subseteq Ids
    BY DEF TypeOK
  <2>7. /\ UNCHANGED <<queued, renew, requeue, dropped>>
    BY <1>8 DEF PollTake
  <2>8. \A m \in dropped : handedOut'[m] > MaxRetries
    BY <2>3, <2>5, <2>6, MQAssumption DEF RetriesDelivered
  <2>9. \A v \in Workers : \A m \in Ids : worker'[v].copies[m] <= handedOut'[m]
    BY <2>3, <2>4, <2>5 DEF RetriesDelivered, Absent
  <2>10. \A m \in Ids : queued[m] <= handedOut'[m]
    BY <2>3, <2>5 DEF RetriesDelivered
  <2>11. \A v \in Workers : \A m \in Ids : renew[v][m] + 1 <= handedOut'[m]
    BY <2>3, <2>5 DEF RetriesDelivered
  <2>12. \A d \in Clients : \A m \in Ids :
           requeue[d].copies[m] + 1 <= handedOut'[m]
    BY <2>3, <2>5 DEF RetriesDelivered
  <2> QED BY <2>2, <2>7, <2>8, <2>9, <2>10, <2>11, <2>12 DEF RetriesDelivered
<1>9. ASSUME NEW w \in Workers, PollRemove(w) PROVE RetriesDelivered'
  <2>1. \A v \in Workers : worker'[v].copies = worker[v].copies
    BY <1>9, <1>0 DEF PollRemove, WorkerType
  <2>2. \A m \in Ids : /\ queued'[m] \in {queued[m], Absent}
                       /\ processing'[m] \in {processing[m], Absent}
    BY <1>9, TableValues DEF PollRemove
  <2> QED BY <1>9, <1>0, <2>1, <2>2 DEF RetriesDelivered, PollRemove, history
<1>10. ASSUME NEW w \in Workers, Callback(w) PROVE RetriesDelivered'
  BY <1>10, <1>0 DEF RetriesDelivered, Callback, WorkerType, tables, history
<1>11. ASSUME NEW w \in Workers, Resend(w) PROVE RetriesDelivered'
  <2>1. ClientOf[w] \in Clients
    BY MQAssumption
  <2>2. \A m \in Ids : queued'[m] \in {0, queued[m]}
    BY <1>11, <1>0 DEF Resend, Copies
  <2>3. \A v \in Workers : worker'[v].copies = worker[v].copies
    <3> DEFINE W == Woken(ClientOf[w])
    <3>1. W \in [Workers -> WorkerType]
      BY <2>1, WakeupTypes
    <3>2. \A v \in Workers : W[v].copies = worker[v].copies
      BY <2>1, WakeupKeeps
    <3>3. worker' = [W EXCEPT ![w].step = "ack",
                              ![w].done = @ \cup worker[w].deferred,
                              ![w].deferred = {}]
      BY <1>11 DEF Resend
    <3> HIDE DEF W
    <3> QED BY <3>1, <3>2, <3>3 DEF WorkerType
  <2> QED BY <1>11, <1>0, <2>2, <2>3 DEF RetriesDelivered, Resend, history
<1>12. ASSUME NEW w \in Workers, Ack(w) PROVE RetriesDelivered'
  <2>1. \A v \in Workers : worker'[v].copies = worker[v].copies
    BY <1>12, <1>0 DEF Ack, WorkerType
  <2>2. \A m \in Ids : /\ queued'[m] \in {queued[m], Absent}
                       /\ processing'[m] \in {processing[m], Absent}
    BY <1>12, TableValues DEF Ack
  <2> QED BY <1>12, <1>0, <2>1, <2>2 DEF RetriesDelivered, Ack, history
<1>13. ASSUME NEW w \in Workers, Register(w) PROVE RetriesDelivered'
  BY <1>13, <1>0 DEF RetriesDelivered, Register, WorkerType, tables, history
<1>14. ASSUME NEW w \in Workers, SleepEnds(w) PROVE RetriesDelivered'
  BY <1>14, <1>0 DEF RetriesDelivered, SleepEnds, WorkerType, tables, history
<1>15. ASSUME NEW w \in Workers, StaleSleepEnds(w) PROVE RetriesDelivered'
  BY <1>15, <1>0 DEF RetriesDelivered, StaleSleepEnds, WorkerType, tables, history
<1>16. ASSUME NEW w \in Workers, RenewRead(w) PROVE RetriesDelivered'
  BY <1>16, <1>0, TableValues DEF RetriesDelivered, RenewRead, tables, history, WorkerType
<1>17. ASSUME NEW w \in Workers, RenewWrite(w) PROVE RetriesDelivered'
  BY <1>17, <1>0, TableValues DEF RetriesDelivered, RenewWrite, tables, history, WorkerType
<1>18. ASSUME NEW m \in Ids, LeaseRunsOut(m) PROVE RetriesDelivered'
  BY <1>18, <1>0 DEF RetriesDelivered, LeaseRunsOut, WorkerType, tables, history
<1>19. CASE CheckQueued
  BY <1>19, <1>0 DEF RetriesDelivered, CheckQueued, WorkerType, tables, history
<1>20. CASE CheckProcessing
  BY <1>20, <1>0 DEF RetriesDelivered, CheckProcessing, WorkerType, tables, history
<1>21. CASE DeviceSleeps
  BY <1>21, <1>0 DEF RetriesDelivered, DeviceSleeps, WorkerType, tables, history
<1>22. CASE UNCHANGED vars
  BY <1>22 DEF RetriesDelivered, vars, tables, history
<1>23. ASSUME NEW w \in Workers, PollFails(w) PROVE RetriesDelivered'
  <2>1. \A v \in Workers : \A m \in Ids :
          worker'[v].copies[m] \in {worker[v].copies[m], Absent}
    BY <1>23, <1>0, TableValues DEF PollFails, IdleWorker
  <2> QED BY <1>23, <1>0, <2>1 DEF RetriesDelivered, PollFails, tables, history
<1>24. ASSUME NEW w \in Workers, CallbackFails(w) PROVE RetriesDelivered'
  <2>1. \A v \in Workers : \A m \in Ids :
          worker'[v].copies[m] \in {worker[v].copies[m], Absent}
    BY <1>24, <1>0, TableValues DEF CallbackFails, IdleWorker
  <2> QED BY <1>24, <1>0, <2>1 DEF RetriesDelivered, CallbackFails, tables, history
<1>25. ASSUME NEW c \in Clients, RequeueFails(c) PROVE RetriesDelivered'
  <2>1. \A d \in Clients : \A m \in Ids :
          requeue'[d].copies[m] \in {requeue[d].copies[m], Absent}
    BY <1>25, <1>0, TableValues DEF RequeueFails
  <2> QED BY <1>25, <1>0, <2>1 DEF RetriesDelivered, RequeueFails, tables
<1> QED BY <1>1, <1>2, <1>3, <1>4, <1>5, <1>6, <1>7, <1>8, <1>9, <1>10,
     <1>11, <1>12, <1>13, <1>14, <1>15, <1>16, <1>17, <1>18, <1>19, <1>20,
     <1>21, <1>22, <1>23, <1>24, <1>25 DEF Next

\* A message that was flushed as exceeding MaxRetries was handed out more than
\* MaxRetries times.
THEOREM RetriesWereDeliveries == Spec => []RetryBudget
<1>1. Init => TakesBatch /\ RetriesDelivered
  BY MQAssumption DEF Init, TakesBatch, RetriesDelivered, IdleWorker, NoCopies,
                      Absent
<1>2. TypeOK /\ TakesBatch /\ RetriesDelivered /\ [Next]_vars
        => TakesBatch' /\ RetriesDelivered'
  BY TakesBatchStep, RetriesDeliveredStep
<1>3. RetriesDelivered => RetryBudget
  BY DEF RetriesDelivered, RetryBudget
<1> QED BY <1>1, <1>2, <1>3, MessageQueueTypes, PTL DEF Spec

-----------------------------------------------------------------------------
(* isQueueEmpty                                                            *)

\* Between the two counts of isQueueEmpty, what was pending at the first one
\* and has not been processed, flushed, lost or sent anew since is in processing,
\* where the second one sees it.
CountedStaysPending ==
  /\ check.missed = {}
  /\ check.since \subseteq 1 .. sent
  /\ check.since \cap resent = {}
  /\ check.since \ Finished \subseteq In(processing)

LEMMA CountedStaysPendingStep ==
  ASSUME TypeOK, AckedHandled, NoMessageLost, CountedStaysPending, [Next]_vars
  PROVE  CountedStaysPending'
<1>1. ASSUME NEW c \in Clients, Send(c) PROVE CountedStaysPending'
  <2>1. sent \in Nat /\ sent' \in Nat /\ sent <= sent'
    BY <1>1 DEF Send, TypeOK
  <2>2. 1 .. sent \subseteq 1 .. sent'
    BY <2>1
  <2> QED BY <1>1, <2>1, <2>2 DEF CountedStaysPending, Finished, Send, history
<1>2. ASSUME NEW c \in Clients, RequeueScan(c) PROVE CountedStaysPending'
  BY <1>2 DEF CountedStaysPending, Finished, RequeueScan, tables, history
<1>3. ASSUME NEW c \in Clients, RequeueDelete(c) PROVE CountedStaysPending'
  <2>1. In(processing') = In(processing) \ In(requeue[c].copies)
    BY <1>3, TablesAreClosed DEF RequeueDelete, TypeOK
  <2>2. /\ check'.since = check.since \ In(requeue[c].copies)
        /\ check'.missed = check.missed
    BY <1>3 DEF RequeueDelete, TypeOK
  <2> QED BY <1>3, <2>1, <2>2 DEF CountedStaysPending, Finished, RequeueDelete, history
<1>4. ASSUME NEW c \in Clients, RequeueSet(c) PROVE CountedStaysPending'
  BY <1>4 DEF CountedStaysPending, Finished, RequeueSet, tables, history
<1>5. ASSUME NEW c \in Clients, Crash(c) PROVE CountedStaysPending'
  BY <1>5 DEF CountedStaysPending, Finished, Crash, tables, history
<1>6. ASSUME NEW c \in Clients, Reload(c) PROVE CountedStaysPending'
  BY <1>6 DEF CountedStaysPending, Finished, Reload, tables, history
<1>7. ASSUME NEW w \in Workers, PollRead(w) PROVE CountedStaysPending'
  BY <1>7 DEF CountedStaysPending, Finished, PollRead, tables, history
<1>8. ASSUME NEW w \in Workers, PollTake(w) PROVE CountedStaysPending'
  <2>1. In(processing) \subseteq In(processing')
    <3>1. worker[w].copies \in Copies /\ processing \in Copies /\ renew[w] \in Copies
      BY DEF TypeOK, WorkerType
    <3> QED BY <1>8, <3>1, TablesAreClosed DEF PollTake
  <2> QED BY <1>8, <2>1 DEF CountedStaysPending, Finished, PollTake, history
<1>9. ASSUME NEW w \in Workers, PollRemove(w) PROVE CountedStaysPending'
  BY <1>9 DEF CountedStaysPending, Finished, PollRemove, tables, history
<1>10. ASSUME NEW w \in Workers, Callback(w) PROVE CountedStaysPending'
  BY <1>10 DEF CountedStaysPending, Finished, Callback, tables, history
<1>11. ASSUME NEW w \in Workers, Resend(w) PROVE CountedStaysPending'
  <2>1. sent \in Nat /\ sent' \in Nat /\ sent <= sent'
    BY <1>11, DeferredFinite DEF Resend, TypeOK
  <2>2. 1 .. sent \subseteq 1 .. sent'
    BY <2>1
  <2>3. /\ check'.since = check.since \ worker[w].deferred
        /\ check'.missed = check.missed
    BY <1>11 DEF Resend, TypeOK
  <2> QED BY <1>11, <2>1, <2>2, <2>3 DEF CountedStaysPending, Finished, Resend
<1>12. ASSUME NEW w \in Workers, Ack(w) PROVE CountedStaysPending'
  <2>1. In(processing') = In(processing) \ worker[w].done
    BY <1>12, TablesAreClosed DEF Ack, TypeOK
  <2> QED BY <1>12, <2>1 DEF CountedStaysPending, Finished, Ack, AckedHandled, history
<1>13. ASSUME NEW w \in Workers, Register(w) PROVE CountedStaysPending'
  BY <1>13 DEF CountedStaysPending, Finished, Register, tables, history
<1>14. ASSUME NEW w \in Workers, SleepEnds(w) PROVE CountedStaysPending'
  BY <1>14 DEF CountedStaysPending, Finished, SleepEnds, tables, history
<1>15. ASSUME NEW w \in Workers, StaleSleepEnds(w) PROVE CountedStaysPending'
  BY <1>15 DEF CountedStaysPending, Finished, StaleSleepEnds, tables, history
<1>16. ASSUME NEW w \in Workers, RenewRead(w) PROVE CountedStaysPending'
  BY <1>16 DEF CountedStaysPending, Finished, RenewRead, tables, history
<1>17. ASSUME NEW w \in Workers, RenewWrite(w) PROVE CountedStaysPending'
  <2>1. In(processing) \subseteq In(processing')
    <3>1. worker[w].copies \in Copies /\ processing \in Copies /\ renew[w] \in Copies
      BY DEF TypeOK, WorkerType
    <3> QED BY <1>17, <3>1, TablesAreClosed DEF RenewWrite
  <2> QED BY <1>17, <2>1 DEF CountedStaysPending, Finished, RenewWrite, history
<1>18. ASSUME NEW m \in Ids, LeaseRunsOut(m) PROVE CountedStaysPending'
  BY <1>18 DEF CountedStaysPending, Finished, LeaseRunsOut, tables, history
<1>19. CASE CheckQueued
  <2>1. Unsettled \ Requeueing \subseteq In(processing)
    BY <1>19 DEF CheckQueued, Unsettled, Finished, NoMessageLost, Stored
  <2> QED BY <1>19, <2>1
      DEF CountedStaysPending, Unsettled, Finished, CheckQueued, tables, history, TypeOK
<1>20. CASE CheckProcessing
  <2>1. check.since \ Finished \subseteq In(processing)
    BY <1>20 DEF CheckProcessing, CountedStaysPending
  <2> QED BY <1>20, <2>1 DEF CountedStaysPending, Finished, CheckProcessing, tables, history, TypeOK
<1>21. CASE DeviceSleeps
  BY <1>21 DEF CountedStaysPending, Finished, DeviceSleeps, tables, history
<1>22. CASE UNCHANGED vars
  BY <1>22 DEF CountedStaysPending, Finished, vars, tables, history
<1>23. ASSUME NEW w \in Workers, PollFails(w) PROVE CountedStaysPending'
  BY <1>23 DEF CountedStaysPending, Finished, PollFails, tables, history
<1>24. ASSUME NEW w \in Workers, CallbackFails(w) PROVE CountedStaysPending'
  BY <1>24 DEF CountedStaysPending, Finished, CallbackFails, tables, history
<1>25. ASSUME NEW c \in Clients, RequeueFails(c) PROVE CountedStaysPending'
  BY <1>25 DEF CountedStaysPending, Finished, RequeueFails, tables, history
<1> QED BY <1>1, <1>2, <1>3, <1>4, <1>5, <1>6, <1>7, <1>8, <1>9, <1>10,
     <1>11, <1>12, <1>13, <1>14, <1>15, <1>16, <1>17, <1>18, <1>19, <1>20,
     <1>21, <1>22, <1>23, <1>24, <1>25 DEF Next

\* When isQueueEmpty says yes, every message that was pending at its first count
\* has been processed, flushed or lost through a hole, but for those that have
\* gone back to queued behind that count: sent anew by the consumer, or in the
\* hands of a requeueTimeouts call then or since.
THEOREM OnlyMovedIsOverlooked == Spec => []OverlooksOnlyMoved
<1>1. Init => AckedHandled /\ NoMessageLost /\ CountedStaysPending
  BY MQAssumption DEF Init, AckedHandled, NoMessageLost, IdleWorker,
                      CountedStaysPending
<1>2. TypeOK /\ AckedHandled /\ NoMessageLost /\ CountedStaysPending /\ [Next]_vars
        => AckedHandled' /\ NoMessageLost' /\ CountedStaysPending'
  BY AckedHandledStep, NoMessageLostStep, CountedStaysPendingStep
<1>3. CountedStaysPending => OverlooksOnlyMoved
  BY DEF CountedStaysPending, OverlooksOnlyMoved
<1> QED BY <1>1, <1>2, <1>3, MessageQueueTypes, PTL DEF Spec

-----------------------------------------------------------------------------
(* Waiting workers                                                         *)

\* After a wake-up those who are left among the waiters still wait.
LEMMA WakeupWaiters ==
  ASSUME TypeOK, WaitersWait, NEW c \in Clients, Wakeup(c)
  PROVE  \A d \in Clients : \A i \in 1 .. Len(waiters'[d]) :
           /\ Woken(c)[waiters'[d][i]].step = "wait"
           /\ waiters'[d][i] \in Workers
           /\ ClientOf[waiters'[d][i]] = d
           /\ \A j \in 1 .. Len(waiters'[d]) :
                waiters'[d][i] = waiters'[d][j] => i = j
<1>0. waiters \in [Clients -> Seq(Workers)] /\ worker \in [Workers -> WorkerType]
  BY DEF TypeOK
<1>1. CASE waiters[c] = <<>>
  BY <1>0, <1>1 DEF Woken, Wakeup, WaitersWait
<1>2. CASE waiters[c] # <<>>
  <2> DEFINE h == Head(waiters[c])
  <2>1. /\ h = waiters[c][1] /\ 1 \in 1 .. Len(waiters[c])
        /\ Tail(waiters[c]) \in Seq(Workers)
        /\ Len(Tail(waiters[c])) = Len(waiters[c]) - 1
        /\ \A i \in 1 .. Len(Tail(waiters[c])) :
             /\ Tail(waiters[c])[i] = waiters[c][i + 1]
             /\ i + 1 \in 1 .. Len(waiters[c])
    BY <1>0, <1>2
  <2>2. waiters' = [waiters EXCEPT ![c] = Tail(@)]
    BY <1>2 DEF Wakeup
  <2>3. h \in Workers /\ ClientOf[h] = c
    BY <1>0, <2>1 DEF WaitersWait
  <2>4. \A v \in Workers \ {h} : Woken(c)[v] = worker[v]
    BY <1>0, <1>2 DEF Woken
  <2> HIDE DEF h
  <2> SUFFICES ASSUME NEW d \in Clients, NEW i \in 1 .. Len(waiters'[d])
               PROVE  /\ Woken(c)[waiters'[d][i]].step = "wait"
                      /\ waiters'[d][i] \in Workers
                      /\ ClientOf[waiters'[d][i]] = d
                      /\ \A j \in 1 .. Len(waiters'[d]) :
                           waiters'[d][i] = waiters'[d][j] => i = j
    OBVIOUS
  <2>5. CASE d = c
    <3>1. waiters'[d] = Tail(waiters[c])
      BY <1>0, <2>2, <2>5
    <3>2. waiters[c][i + 1] # h /\ waiters[c][i + 1] \in Workers
      BY <1>0, <2>1, <3>1 DEF WaitersWait
    <3>3. /\ worker[waiters[c][i + 1]].step = "wait"
          /\ ClientOf[waiters[c][i + 1]] = c
      BY <2>1, <3>1 DEF WaitersWait
    <3>4. \A j \in 1 .. Len(waiters'[d]) : waiters'[d][i] = waiters'[d][j] => i = j
      <4> SUFFICES ASSUME NEW j \in 1 .. Len(waiters'[d]),
                          waiters'[d][i] = waiters'[d][j]
                   PROVE  i = j
        OBVIOUS
      <4>1. waiters[c][i + 1] = waiters[c][j + 1]
        BY <2>1, <3>1
      <4>2. i + 1 = j + 1
        BY <2>1, <3>1, <4>1 DEF WaitersWait
      <4> QED BY <4>2
    <3> QED BY <2>1, <2>4, <2>5, <3>1, <3>2, <3>3, <3>4
  <2>6. CASE d # c
    <3>1. waiters'[d] = waiters[d]
      BY <1>0, <2>2, <2>6
    <3>2. waiters[d][i] # h /\ waiters[d][i] \in Workers
      BY <1>0, <2>3, <2>6, <3>1 DEF WaitersWait
    <3> QED BY <2>4, <3>1, <3>2 DEF WaitersWait
  <2> QED BY <2>5, <2>6
<1> QED BY <1>1, <1>2

LEMMA WaitersWaitStep ==
  ASSUME TypeOK, WaitersWait, [Next]_vars
  PROVE  WaitersWait'
<1>0. waiters \in [Clients -> Seq(Workers)] /\ worker \in [Workers -> WorkerType]
  BY DEF TypeOK
<1>1. ASSUME NEW c \in Clients, Send(c) PROVE WaitersWait'
  BY <1>1, WakeupWaiters DEF WaitersWait, Send
<1>2. ASSUME NEW c \in Clients, RequeueScan(c) PROVE WaitersWait'
  BY <1>2 DEF WaitersWait, RequeueScan, tables, history
<1>3. ASSUME NEW c \in Clients, RequeueDelete(c) PROVE WaitersWait'
  BY <1>3 DEF WaitersWait, RequeueDelete, tables, history
<1>4. ASSUME NEW c \in Clients, RequeueSet(c) PROVE WaitersWait'
  BY <1>4 DEF WaitersWait, RequeueSet, tables, history
<1>5. ASSUME NEW c \in Clients, Crash(c) PROVE WaitersWait'
  <2>1. waiters' = [waiters EXCEPT ![c] = <<>>]
    BY <1>5 DEF Crash
  <2>2. \A v \in Workers : ClientOf[v] # c => worker'[v] = worker[v]
    BY <1>5 DEF Crash, Mine
  <2>3. \A d \in Clients : \A i \in 1 .. Len(waiters'[d]) :
          d # c /\ waiters'[d] = waiters[d] /\ i \in 1 .. Len(waiters[d])
    BY <1>0, <2>1
  <2>4. \A d \in Clients : \A i \in 1 .. Len(waiters'[d]) :
          /\ waiters[d][i] \in Workers /\ ClientOf[waiters[d][i]] = d
          /\ worker[waiters[d][i]].step = "wait"
    <3> SUFFICES ASSUME NEW d \in Clients, NEW i \in 1 .. Len(waiters'[d])
                 PROVE  /\ waiters[d][i] \in Workers
                        /\ ClientOf[waiters[d][i]] = d
                        /\ worker[waiters[d][i]].step = "wait"
      OBVIOUS
    <3>1. i \in 1 .. Len(waiters[d])
      BY <2>3
    <3>2. waiters[d] \in Seq(Workers)
      BY <1>0
    <3>3. waiters[d][i] \in Workers
      BY <3>1, <3>2
    <3> QED BY <3>1, <3>3 DEF WaitersWait
  <2>5. \A d \in Clients : \A i \in 1 .. Len(waiters'[d]) :
          worker'[waiters[d][i]] = worker[waiters[d][i]]
    BY <2>2, <2>3, <2>4
  <2> QED BY <2>3, <2>4, <2>5 DEF WaitersWait
<1>6. ASSUME NEW c \in Clients, Reload(c) PROVE WaitersWait'
  <2>1. waiters' = [waiters EXCEPT ![c] = <<>>]
    BY <1>6 DEF Reload
  <2>0. Slot(c) \in Stopped(c)
    BY <1>6 DEF Reload, Slot
  <2>2. \A v \in Workers : ClientOf[v] # c => worker'[v] = worker[v]
    BY <1>6, <2>0 DEF Reload, Running, Stopped, Mine
  <2>3. \A d \in Clients : \A i \in 1 .. Len(waiters'[d]) :
          d # c /\ waiters'[d] = waiters[d] /\ i \in 1 .. Len(waiters[d])
    BY <1>0, <2>1
  <2>4. \A d \in Clients : \A i \in 1 .. Len(waiters'[d]) :
          /\ waiters[d][i] \in Workers /\ ClientOf[waiters[d][i]] = d
          /\ worker[waiters[d][i]].step = "wait"
    <3> SUFFICES ASSUME NEW d \in Clients, NEW i \in 1 .. Len(waiters'[d])
                 PROVE  /\ waiters[d][i] \in Workers
                        /\ ClientOf[waiters[d][i]] = d
                        /\ worker[waiters[d][i]].step = "wait"
      OBVIOUS
    <3>1. i \in 1 .. Len(waiters[d])
      BY <2>3
    <3>2. waiters[d] \in Seq(Workers)
      BY <1>0
    <3>3. waiters[d][i] \in Workers
      BY <3>1, <3>2
    <3> QED BY <3>1, <3>3 DEF WaitersWait
  <2>5. \A d \in Clients : \A i \in 1 .. Len(waiters'[d]) :
          worker'[waiters[d][i]] = worker[waiters[d][i]]
    BY <2>2, <2>3, <2>4
  <2> QED BY <2>3, <2>4, <2>5 DEF WaitersWait
<1>7. ASSUME NEW w \in Workers, PollRead(w) PROVE WaitersWait'
  <2>1. worker[w].step # "wait" /\ waiters' = waiters
    BY <1>7 DEF PollRead, history
  <2>2. \A v \in Workers \ {w} : worker'[v] = worker[v]
    BY <1>7, <1>0 DEF PollRead
  <2> QED BY <1>0, <2>1, <2>2 DEF WaitersWait
<1>8. ASSUME NEW w \in Workers, PollTake(w) PROVE WaitersWait'
  <2>1. worker[w].step # "wait" /\ waiters' = waiters
    BY <1>8 DEF PollTake, history
  <2>2. \A v \in Workers \ {w} : worker'[v] = worker[v]
    BY <1>8, <1>0 DEF PollTake
  <2> QED BY <1>0, <2>1, <2>2 DEF WaitersWait
<1>9. ASSUME NEW w \in Workers, PollRemove(w) PROVE WaitersWait'
  <2>1. worker[w].step # "wait" /\ waiters' = waiters
    BY <1>9 DEF PollRemove, history
  <2>2. \A v \in Workers \ {w} : worker'[v] = worker[v]
    BY <1>9, <1>0 DEF PollRemove
  <2> QED BY <1>0, <2>1, <2>2 DEF WaitersWait
<1>10. ASSUME NEW w \in Workers, Callback(w) PROVE WaitersWait'
  <2>1. worker[w].step # "wait" /\ waiters' = waiters
    BY <1>10 DEF Callback, history
  <2>2. \A v \in Workers \ {w} : worker'[v] = worker[v]
    BY <1>10, <1>0 DEF Callback
  <2> QED BY <1>0, <2>1, <2>2 DEF WaitersWait
<1>11. ASSUME NEW w \in Workers, Resend(w) PROVE WaitersWait'
  <2> DEFINE W == Woken(ClientOf[w])
  <2>1. ClientOf[w] \in Clients
    BY MQAssumption
  <2>2. \A d \in Clients : \A i \in 1 .. Len(waiters'[d]) :
          /\ W[waiters'[d][i]].step = "wait"
          /\ waiters'[d][i] \in Workers
          /\ ClientOf[waiters'[d][i]] = d
          /\ \A j \in 1 .. Len(waiters'[d]) : waiters'[d][i] = waiters'[d][j] => i = j
    BY <1>11, <2>1, WakeupWaiters DEF Resend
  <2>3. W[w].step # "wait"
    BY <1>11, <2>1, WakeupKeeps DEF Resend
  <2>4. W \in [Workers -> WorkerType]
    BY <2>1, WakeupTypes
  <2>5. worker' = [W EXCEPT ![w].step = "ack",
                            ![w].done = @ \cup worker[w].deferred,
                            ![w].deferred = {}]
    BY <1>11 DEF Resend
  <2> HIDE DEF W
  <2>6. \A v \in Workers \ {w} : worker'[v] = W[v]
    BY <2>4, <2>5
  <2> QED BY <2>2, <2>3, <2>6 DEF WaitersWait
<1>12. ASSUME NEW w \in Workers, Ack(w) PROVE WaitersWait'
  <2>1. worker[w].step # "wait" /\ waiters' = waiters
    BY <1>12 DEF Ack, history
  <2>2. \A v \in Workers \ {w} : worker'[v] = worker[v]
    BY <1>12, <1>0 DEF Ack
  <2> QED BY <1>0, <2>1, <2>2 DEF WaitersWait
<1>13. ASSUME NEW w \in Workers, Register(w) PROVE WaitersWait'
  <2> DEFINE c == ClientOf[w]
  <2>0. c \in Clients
    BY MQAssumption
  <2>1. \A d \in Clients : waiters'[d] = IF d = c THEN Append(waiters[d], w)
                                     ELSE waiters[d]
    BY <1>13, <1>0 DEF Register
  <2>2. worker'[w].step = "wait" /\ \A v \in Workers \ {w} : worker'[v] = worker[v]
    BY <1>13, <1>0 DEF Register, WorkerType
  <2>3. \A d \in Clients : \A i \in 1 .. Len(waiters[d]) : waiters[d][i] # w
    BY <1>13 DEF Register, WaitersWait
  <2> HIDE DEF c
  <2>4. ASSUME NEW d \in Clients, NEW i \in 1 .. Len(waiters'[d])
        PROVE  /\ worker'[waiters'[d][i]].step = "wait"
               /\ ClientOf[waiters'[d][i]] = d
               /\ \A j \in 1 .. Len(waiters'[d]) :
                    waiters'[d][i] = waiters'[d][j] => i = j
    <3>1. CASE d = c
      <4>1. waiters'[d] = Append(waiters[d], w)
        BY <2>1, <3>1
      <4>2. Len(waiters'[d]) = Len(waiters[d]) + 1
        BY <4>1, <1>0
      <4>3. \A j \in 1 .. Len(waiters'[d]) :
              waiters'[d][j] = IF j = Len(waiters[d]) + 1 THEN w ELSE waiters[d][j]
        BY <4>1, <1>0
      <4>4. ClientOf[w] = d
        BY <3>1 DEF c
      <4> QED BY <1>0, <2>2, <2>3, <4>2, <4>3, <4>4 DEF WaitersWait
    <3>2. CASE d # c
      <4>1. waiters'[d] = waiters[d]
        BY <2>1, <3>2
      <4>2. i \in 1 .. Len(waiters[d])
        BY <4>1
      <4>3. waiters[d][i] \in Workers \ {w}
        BY <1>0, <2>3, <4>2
      <4>4. worker'[waiters[d][i]] = worker[waiters[d][i]]
        BY <2>2, <4>3
      <4>5. /\ worker[waiters[d][i]].step = "wait"
            /\ ClientOf[waiters[d][i]] = d
            /\ \A j \in 1 .. Len(waiters[d]) :
                 waiters[d][i] = waiters[d][j] => i = j
        BY <4>2 DEF WaitersWait
      <4> QED BY <4>1, <4>4, <4>5
    <3> QED BY <3>1, <3>2
  <2> QED BY <2>4 DEF WaitersWait
<1>14. ASSUME NEW w \in Workers, SleepEnds(w) PROVE WaitersWait'
  <2> DEFINE c == ClientOf[w]
  <2>0. c \in Clients
    BY MQAssumption
  <2>1. \A d \in Clients : waiters'[d] = IF d = c THEN Without(waiters[d], w)
                                     ELSE waiters[d]
    BY <1>14, <1>0 DEF SleepEnds
  <2>2. \A v \in Workers \ {w} : worker'[v] = worker[v]
    BY <1>14, <1>0 DEF SleepEnds
  <2>3. \A d \in Clients \ {c} : \A i \in 1 .. Len(waiters[d]) : waiters[d][i] # w
    BY DEF WaitersWait
  <2> HIDE DEF c
  <2>4. ASSUME NEW d \in Clients, NEW i \in 1 .. Len(waiters'[d])
        PROVE  /\ worker'[waiters'[d][i]].step = "wait"
               /\ ClientOf[waiters'[d][i]] = d
               /\ \A j \in 1 .. Len(waiters'[d]) :
                    waiters'[d][i] = waiters'[d][j] => i = j
    <3>1. CASE d = c
      <4>1. waiters'[d] = Without(waiters[d], w)
        BY <2>1, <3>1
      <4>2. /\ \A k \in 1 .. Len(Without(waiters[d], w)) :
                 /\ Without(waiters[d], w)[k] # w
                 /\ \E l \in 1 .. Len(waiters[d]) :
                      Without(waiters[d], w)[k] = waiters[d][l]
            /\ \A k, l \in 1 .. Len(Without(waiters[d], w)) :
                 Without(waiters[d], w)[k] = Without(waiters[d], w)[l] => k = l
        BY <1>0, WithoutEntries DEF WaitersWait
      <4> QED BY <1>0, <2>2, <4>1, <4>2 DEF WaitersWait
    <3>2. CASE d # c
      BY <1>0, <2>0, <2>1, <2>2, <2>3, <3>2 DEF WaitersWait
    <3> QED BY <3>1, <3>2
  <2> QED BY <2>4 DEF WaitersWait
<1>15. ASSUME NEW w \in Workers, StaleSleepEnds(w) PROVE WaitersWait'
  <2> DEFINE c == ClientOf[w]
  <2>0. c \in Clients
    BY MQAssumption
  <2>1. \A d \in Clients : waiters'[d] = IF d = c THEN Without(waiters[d], w)
                                     ELSE waiters[d]
    BY <1>15, <1>0 DEF StaleSleepEnds
  <2>2. \A v \in Workers \ {w} : worker'[v] = worker[v]
    BY <1>15, <1>0 DEF StaleSleepEnds
  <2>3. \A d \in Clients \ {c} : \A i \in 1 .. Len(waiters[d]) : waiters[d][i] # w
    BY DEF WaitersWait
  <2> HIDE DEF c
  <2>4. ASSUME NEW d \in Clients, NEW i \in 1 .. Len(waiters'[d])
        PROVE  /\ worker'[waiters'[d][i]].step = "wait"
               /\ ClientOf[waiters'[d][i]] = d
               /\ \A j \in 1 .. Len(waiters'[d]) :
                    waiters'[d][i] = waiters'[d][j] => i = j
    <3>1. CASE d = c
      <4>1. waiters'[d] = Without(waiters[d], w)
        BY <2>1, <3>1
      <4>2. /\ \A k \in 1 .. Len(Without(waiters[d], w)) :
                 /\ Without(waiters[d], w)[k] # w
                 /\ \E l \in 1 .. Len(waiters[d]) :
                      Without(waiters[d], w)[k] = waiters[d][l]
            /\ \A k, l \in 1 .. Len(Without(waiters[d], w)) :
                 Without(waiters[d], w)[k] = Without(waiters[d], w)[l] => k = l
        BY <1>0, WithoutEntries DEF WaitersWait
      <4> QED BY <1>0, <2>2, <4>1, <4>2 DEF WaitersWait
    <3>2. CASE d # c
      BY <1>0, <2>0, <2>1, <2>2, <2>3, <3>2 DEF WaitersWait
    <3> QED BY <3>1, <3>2
  <2> QED BY <2>4 DEF WaitersWait
<1>16. ASSUME NEW w \in Workers, RenewRead(w) PROVE WaitersWait'
  BY <1>16 DEF WaitersWait, RenewRead, tables, history
<1>17. ASSUME NEW w \in Workers, RenewWrite(w) PROVE WaitersWait'
  BY <1>17 DEF WaitersWait, RenewWrite, tables, history
<1>18. ASSUME NEW m \in Ids, LeaseRunsOut(m) PROVE WaitersWait'
  BY <1>18 DEF WaitersWait, LeaseRunsOut, tables, history
<1>19. CASE CheckQueued
  BY <1>19 DEF WaitersWait, CheckQueued, tables, history
<1>20. CASE CheckProcessing
  BY <1>20 DEF WaitersWait, CheckProcessing, tables, history
<1>21. CASE DeviceSleeps
  BY <1>21 DEF WaitersWait, DeviceSleeps, tables, history
<1>22. CASE UNCHANGED vars
  BY <1>22 DEF WaitersWait, vars
<1>23. ASSUME NEW w \in Workers, PollFails(w) PROVE WaitersWait'
  <2>1. worker[w].step # "wait" /\ waiters' = waiters
    BY <1>23 DEF PollFails
  <2>2. \A v \in Workers \ {w} : worker'[v] = worker[v]
    BY <1>23, <1>0 DEF PollFails
  <2> QED BY <1>0, <2>1, <2>2 DEF WaitersWait
<1>24. ASSUME NEW w \in Workers, CallbackFails(w) PROVE WaitersWait'
  <2>1. worker[w].step # "wait" /\ waiters' = waiters
    BY <1>24 DEF CallbackFails
  <2>2. \A v \in Workers \ {w} : worker'[v] = worker[v]
    BY <1>24, <1>0 DEF CallbackFails
  <2> QED BY <1>0, <2>1, <2>2 DEF WaitersWait
<1>25. ASSUME NEW c \in Clients, RequeueFails(c) PROVE WaitersWait'
  BY <1>25 DEF WaitersWait, RequeueFails, tables, history
<1> QED BY <1>1, <1>2, <1>3, <1>4, <1>5, <1>6, <1>7, <1>8, <1>9, <1>10,
     <1>11, <1>12, <1>13, <1>14, <1>15, <1>16, <1>17, <1>18, <1>19, <1>20,
     <1>21, <1>22, <1>23, <1>24, <1>25 DEF Next

\* A wake-up always reaches a worker that waits.
THEOREM WakeupsReachWaiters == Spec => []WaitersWait
<1>1. Init => WaitersWait
  BY DEF Init, WaitersWait
<1> QED BY <1>1, WaitersWaitStep, MessageQueueTypes, PTL DEF Spec
=============================================================================
