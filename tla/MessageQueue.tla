---------------------------- MODULE MessageQueue ----------------------------
(***************************************************************************)
(* One queue of the client's message queue (client/data/mq.datastore.ts),  *)
(* with the index queue's consumer (plugs/index/queue.ts) as its callback. *)
(* Every window of the space is a client with workers of its own; they     *)
(* share the queued and processing tables of one IndexedDB store, in which *)
(* each batch call is one transaction and nothing joins two of them.       *)
(*                                                                         *)
(* Messages are numbered in the order of their ids.  A table maps a        *)
(* message to the retry count of its copy there, Absent when it has none.  *)
(* Time is abstract: a copy's lease is running or has run out.  The calls  *)
(* on the store may fail: in poll that ends the worker for the session, in *)
(* its callback the messages wait for their lease, in requeueTimeouts what *)
(* was deleted is gone.                                                    *)
(***************************************************************************)
EXTENDS Integers, FiniteSets, Sequences

CONSTANTS Clients, Workers,
          ClientOf,      \* the client a worker belongs to
          LastId,        \* bound: messages ever sent
          BatchSize,     \* options.batchSize
          MaxRetries,    \* mqTimeoutRetry
          MaxTroubles    \* bound: windows closed without warning, sleeps of
                         \* the device longer than mqTimeout, plug reloads,
                         \* callbacks slow enough for a renewal and failed
                         \* calls on the store

ASSUME MQAssumption ==
  /\ LastId \in Nat /\ BatchSize \in Nat \ {0} /\ MaxRetries \in Nat \ {0}
  /\ MaxTroubles \in Nat
  /\ ClientOf \in [Workers -> Clients]

VARIABLES
  sent,        \* how many messages were sent: 1 .. sent
  queued,      \* the table ["mq", "queued"]
  processing,  \* the table ["mq", "processing"]
  expired,     \* the copies in processing whose ts is older than mqTimeout
  worker,      \* QueueWorker: where its run() is, the batch it holds, ...
  renew,       \* renewLease calls between their batchGet and their batchSet
  waiters,     \* queueWaiters of each client
  timers,      \* the workers' poll-interval sleeps left from earlier waits
  requeue,     \* requeueTimeouts of each client
  check,       \* one isQueueEmpty call: the messages its first count passed,
               \* {} before it, and what it overlooked when it said yes
  handled,     \* history: processed
  resent,      \* history: deferred and sent anew under another id
  dropped,     \* history: flushed by requeueTimeouts after too many retries
  holes,       \* history: lost at one of the two places named in the README
  handedOut,   \* history: times poll copied a message to processing
  troubles     \* crashes, sleeps, reloads, renewals and failures so far

tables == <<queued, processing, expired>>
history == <<handled, resent, dropped, holes, handedOut>>
vars == <<sent, tables, worker, renew, waiters, timers, requeue, check,
          history, troubles>>

Ids == 1 .. LastId
Absent == -1
Copies == [Ids -> Absent .. MaxRetries]
NoCopies == [m \in Ids |-> Absent]
In(t) == {m \in Ids : t[m] # Absent}
Put(t, s) == [m \in Ids |-> IF s[m] # Absent THEN s[m] ELSE t[m]]
Delete(t, S) == [m \in Ids |-> IF m \in S THEN Absent ELSE t[m]]
Only(t, S) == [m \in Ids |-> IF m \in S THEN t[m] ELSE Absent]

Steps == {"off", "dead", "poll", "take", "remove", "callback", "resend", "ack",
          "empty", "wait"}
WorkerType ==
  [step : Steps, copies : Copies, batch : SUBSET Ids, done : SUBSET Ids,
   deferred : SUBSET Ids, stopping : BOOLEAN]
IdleWorker == [step |-> "off", copies |-> NoCopies, batch |-> {},
               done |-> {}, deferred |-> {}, stopping |-> FALSE]

Init ==
  /\ sent = 0
  /\ queued = NoCopies /\ processing = NoCopies /\ expired = {}
  /\ worker = [w \in Workers |-> IdleWorker]
  /\ renew = [w \in Workers |-> NoCopies]
  /\ waiters = [c \in Clients |-> <<>>]
  /\ timers = [w \in Workers |-> FALSE]
  /\ requeue = [c \in Clients |-> [step |-> "idle", copies |-> NoCopies]]
  /\ check = [since |-> {}, missed |-> {}]
  /\ handled = {} /\ resent = {} /\ dropped = {} /\ holes = {}
  /\ handedOut = [m \in Ids |-> 0]
  /\ troubles = 0

-----------------------------------------------------------------------------
(* Waiting workers                                                         *)

\* removeQueuedWorker: the entry of one worker is spliced out, if it is there.
PlaceOf(ws, w) == CHOOSE i \in 1 .. Len(ws) : ws[i] = w
Without(ws, w) ==
  IF \E i \in 1 .. Len(ws) : ws[i] = w
  THEN [j \in 1 .. Len(ws) - 1 |->
          IF j < PlaceOf(ws, w) THEN ws[j] ELSE ws[j + 1]]
  ELSE ws

\* wakeupWorker: the first waiter's promise is resolved; its sleep goes on.
Wakeup(c) ==
  IF waiters[c] = <<>>
  THEN UNCHANGED <<waiters, timers>>
  ELSE /\ waiters' = [waiters EXCEPT ![c] = Tail(@)]
       /\ timers' = [timers EXCEPT ![Head(waiters[c])] = TRUE]

\* The worker record after a wake-up of its client's first waiter.
Woken(c) ==
  IF waiters[c] = <<>> THEN worker
  ELSE [worker EXCEPT ![Head(waiters[c])].step = "poll"]

\* The ids that deferred messages will be sent under.
Reserved == Cardinality({p \in Workers \X Ids : p[2] \in worker[p[1]].deferred})

\* batchSend by a window: the batchSet of new copies, then wakeupWorker.
Send(c) ==
  /\ sent < LastId /\ sent + Reserved < LastId
  /\ sent' = sent + 1
  /\ queued' = [queued EXCEPT ![sent + 1] = 0]
  /\ worker' = Woken(c)
  /\ Wakeup(c)
  /\ UNCHANGED <<processing, expired, renew, requeue, check, history, troubles>>

-----------------------------------------------------------------------------
(* QueueWorker.run                                                         *)

\* The head of the loop: a stopping worker ends, any other reads the first
\* BatchSize messages of the queue.
FirstOf(t) == {m \in In(t) :
                 Cardinality({k \in In(t) : k < m}) < BatchSize}

\* A wrong poll: the batch is deleted from queued before it is in processing.
PollReadPops(w) ==
  /\ worker[w].step = "poll"
  /\ queued # NoCopies
  /\ worker' = [worker EXCEPT ![w].copies = Only(queued, FirstOf(queued)),
                              ![w].batch = FirstOf(queued),
                              ![w].step = "take"]
  /\ queued' = Delete(queued, FirstOf(queued))
  /\ UNCHANGED <<sent, processing, expired, renew, waiters, timers, requeue,
                 check, history, troubles>>

PollRead(w) ==
  /\ worker[w].step = "poll"
  /\ \/ /\ worker[w].stopping
        /\ worker' = [worker EXCEPT ![w] = IdleWorker]
        /\ timers' = [timers EXCEPT ![w] = FALSE]
     \/ /\ ~worker[w].stopping
        /\ UNCHANGED timers
        /\ worker' = [worker EXCEPT
                         ![w].copies = Only(queued, FirstOf(queued)),
                         ![w].batch = FirstOf(queued),
                         ![w].step = IF In(queued) = {} THEN "empty"
                                     ELSE "take"]
  /\ UNCHANGED <<sent, tables, renew, waiters, requeue, check,
                 history, troubles>>

\* poll: the batch is written to processing with a new lease.
HandOut(S) == [m \in Ids |->
                 IF m \in S /\ handedOut[m] <= MaxRetries
                 THEN handedOut[m] + 1 ELSE handedOut[m]]

PollTake(w) ==
  /\ worker[w].step = "take"
  /\ processing' = Put(processing, worker[w].copies)
  /\ expired' = expired \ worker[w].batch
  /\ handedOut' = HandOut(worker[w].batch)
  /\ worker' = [worker EXCEPT ![w].step = "remove", ![w].copies = NoCopies]
  /\ UNCHANGED <<sent, queued, renew, waiters, timers, requeue, check,
                 handled, resent, dropped, holes, troubles>>

\* poll: then the batch is deleted from queued.  When the lease of a message
\* ran out between the two, this deletes the copy that was put back.
PollRemove(w) ==
  LET batch == worker[w].batch IN
  /\ worker[w].step = "remove"
  /\ queued' = Delete(queued, batch)
  /\ holes' = holes \cup (batch \ In(processing))
  /\ worker' = [worker EXCEPT ![w].step = "callback"]
  /\ UNCHANGED <<sent, processing, expired, renew, waiters, timers, requeue,
                 check, handled, resent, dropped, handedOut, troubles>>

\* processIndexQueue up to its batchSend: some messages are indexed, some are
\* deferred until sync has delivered the file, the others fail.
Callback(w) ==
  /\ worker[w].step = "callback"
  /\ \E done, deferred \in SUBSET worker[w].batch :
       /\ done \cap deferred = {}
       /\ sent + Reserved + Cardinality(deferred) <= LastId
       /\ handled' = handled \cup done
       /\ worker' = [worker EXCEPT
                       ![w].done = done, ![w].deferred = deferred,
                       ![w].step = IF deferred # {} THEN "resend" ELSE "ack"]
  /\ UNCHANGED <<sent, tables, renew, waiters, timers, requeue, check,
                 resent, dropped, holes, handedOut, troubles>>

\* The deferred bodies are sent again under new ids, which wakes a worker.
\* A count of isQueueEmpty that has passed them sees them no more.
Resend(w) ==
  LET n == Cardinality(worker[w].deferred)
      c == ClientOf[w]
  IN
  /\ worker[w].step = "resend"
  /\ sent + n <= LastId
  /\ sent' = sent + n
  /\ queued' = [m \in Ids |-> IF m \in sent + 1 .. sent + n THEN 0
                              ELSE queued[m]]
  /\ resent' = resent \cup worker[w].deferred
  /\ check' = [check EXCEPT !.since = @ \ worker[w].deferred]
  /\ worker' = [Woken(c) EXCEPT
                  ![w].step = "ack",
                  ![w].done = @ \cup worker[w].deferred,
                  ![w].deferred = {}]
  /\ Wakeup(c)
  /\ UNCHANGED <<processing, expired, renew, requeue, handled, dropped, holes,
                 handedOut, troubles>>

\* batchAck of what was done; then the renewal timer is cleared and the loop
\* polls again.
Ack(w) ==
  /\ worker[w].step = "ack"
  /\ processing' = Delete(processing, worker[w].done)
  /\ expired' = expired \ worker[w].done
  /\ worker' = [worker EXCEPT ![w].step = "poll", ![w].batch = {},
                              ![w].done = {}]
  /\ UNCHANGED <<sent, queued, renew, waiters, timers, requeue, check, history,
                 troubles>>

Trouble == troubles < MaxTroubles /\ troubles' = troubles + 1

\* A call of poll on the store throws: run() ends, and nothing starts another
\* worker in its place before a plug is reloaded or a window opened.
PollFails(w) ==
  /\ worker[w].step \in {"poll", "take", "remove"}
  /\ worker[w].step = "poll" => ~worker[w].stopping
  /\ Trouble
  /\ worker' = [worker EXCEPT ![w] = [IdleWorker EXCEPT !.step = "dead"]]
  /\ timers' = [timers EXCEPT ![w] = FALSE]
  /\ UNCHANGED <<sent, tables, renew, waiters, requeue, check, history>>

\* The batchSend or the batchAck of the callback throws: nothing is
\* acknowledged, and the worker polls again.
CallbackFails(w) ==
  /\ worker[w].step \in {"resend", "ack"}
  /\ Trouble
  /\ worker' = [worker EXCEPT ![w] = [IdleWorker EXCEPT
                                         !.step = "poll",
                                         !.stopping = worker[w].stopping]]
  /\ UNCHANGED <<sent, tables, renew, waiters, timers, requeue, check, history>>

\* An empty poll: the worker registers as a waiter, whether it was stopped
\* meanwhile or not, and starts a poll-interval sleep.
Register(w) ==
  /\ worker[w].step = "empty"
  /\ worker' = [worker EXCEPT ![w].step = "wait"]
  /\ waiters' = [waiters EXCEPT ![ClientOf[w]] = Append(@, w)]
  /\ UNCHANGED <<sent, tables, renew, timers, requeue, check, history, troubles>>

\* Wrong ends of the sleep: the worker stays among the waiters; the worker has
\* no poll interval and waits to be woken.
SleepEndsRegistered(w) ==
  /\ worker[w].step = "wait"
  /\ worker' = [worker EXCEPT ![w].step = "poll"]
  /\ UNCHANGED <<sent, tables, renew, waiters, timers, requeue, check, history,
                 troubles>>

SleepNeverEnds(w) == FALSE /\ worker[w].step = "wait" /\ UNCHANGED vars

\* The sleep of the current wait ends: the worker leaves the waiters and
\* polls again.
SleepEnds(w) ==
  /\ worker[w].step = "wait"
  /\ worker' = [worker EXCEPT ![w].step = "poll"]
  /\ waiters' = [waiters EXCEPT ![ClientOf[w]] = Without(@, w)]
  /\ UNCHANGED <<sent, tables, renew, timers, requeue, check, history, troubles>>

\* The sleep of a wait that a wake-up ended goes off later: it removes the
\* worker's current registration, if there is one, and resolves nothing.
StaleSleepEnds(w) ==
  /\ timers[w]
  /\ timers' = [timers EXCEPT ![w] = FALSE]
  /\ waiters' = [waiters EXCEPT ![ClientOf[w]] = Without(@, w)]
  /\ UNCHANGED <<sent, tables, worker, renew, requeue, check, history, troubles>>

\* The renewal interval of a worker whose callback runs: batchGet of the
\* copies that are still in processing ...
RenewRead(w) ==
  /\ worker[w].step \in {"callback", "resend", "ack"}
  /\ renew[w] = NoCopies
  /\ Trouble
  /\ renew' = [renew EXCEPT ![w] = Only(processing, worker[w].batch)]
  /\ renew' # renew
  /\ UNCHANGED <<sent, tables, worker, waiters, timers, requeue, check,
                 history>>

\* ... and batchSet of what was read, with a new lease.
RenewWrite(w) ==
  /\ renew[w] # NoCopies
  /\ processing' = Put(processing, renew[w])
  /\ expired' = expired \ In(renew[w])
  /\ renew' = [renew EXCEPT ![w] = NoCopies]
  /\ UNCHANGED <<sent, queued, worker, waiters, timers, requeue, check,
                 history, troubles>>

-----------------------------------------------------------------------------
(* requeueTimeouts, every 20 seconds in every window                       *)

RequeueScan(c) ==
  /\ requeue[c].step = "idle"
  /\ expired # {}
  /\ requeue' = [requeue EXCEPT
                   ![c] = [step |-> "scanned",
                           copies |-> Only(processing, expired)]]
  /\ UNCHANGED <<sent, tables, worker, renew, waiters, timers, check,
                 history, troubles>>

RequeueDelete(c) ==
  LET found == In(requeue[c].copies) IN
  /\ requeue[c].step = "scanned"
  /\ processing' = Delete(processing, found)
  /\ expired' = expired \ found
  /\ requeue' = [requeue EXCEPT ![c].step = "deleted"]
  /\ check' = [check EXCEPT !.since = @ \ found]
  /\ UNCHANGED <<sent, queued, worker, renew, waiters, timers, history,
                 troubles>>

\* Copies with retries left return to queued; the rest are flushed
\* (disableDLQ is set).
TooOftenLate(s) == {m \in In(s) : s[m] > MaxRetries}
TooOftenEarly(s) == {m \in In(s) : s[m] + 1 >= MaxRetries}
TooOften(s) == {m \in In(s) : s[m] + 1 > MaxRetries}

RequeueSet(c) ==
  LET found == requeue[c].copies
      again == In(found) \ TooOften(found)
  IN
  /\ requeue[c].step = "deleted"
  /\ queued' = [m \in Ids |-> IF m \in again THEN found[m] + 1 ELSE queued[m]]
  /\ dropped' = dropped \cup TooOften(found)
  /\ requeue' = [requeue EXCEPT ![c] = [step |-> "idle",
                                        copies |-> NoCopies]]
  /\ UNCHANGED <<sent, processing, expired, worker, renew, waiters, timers,
                 check, handled, resent, holes, handedOut, troubles>>

\* The batchDelete throws, or the batchSet: then the messages are nowhere.
RequeueFails(c) ==
  /\ requeue[c].step # "idle"
  /\ Trouble
  /\ requeue' = [requeue EXCEPT ![c] = [step |-> "idle", copies |-> NoCopies]]
  /\ holes' = IF requeue[c].step = "deleted"
              THEN holes \cup In(requeue[c].copies) ELSE holes
  /\ UNCHANGED <<sent, tables, worker, renew, waiters, timers, check, handled,
                 resent, dropped, handedOut>>

-----------------------------------------------------------------------------
(* isQueueEmpty: getQueueStats counts queued, then processing              *)

\* Messages nobody will process any more; messages still to be processed under
\* their own id; those that a requeueTimeouts call has taken out of processing
\* and not yet put back.
Finished == handled \cup dropped \cup holes
Unsettled == (1 .. sent) \ (Finished \cup resent)
Requeueing == UNION {In(requeue[c].copies) :
                       c \in {d \in Clients : requeue[d].step = "deleted"}}

CheckQueued ==
  /\ check.since = {}
  /\ In(queued) = {}
  /\ check' = [check EXCEPT !.since = Unsettled \ Requeueing]
  /\ UNCHANGED <<sent, tables, worker, renew, waiters, timers, requeue,
                 history, troubles>>

\* A wrong check: an empty queued table is taken for an empty queue.
CheckQueuedOnly ==
  /\ check.since # {}
  /\ check' = [since |-> {}, missed |-> check.since \ Finished]
  /\ UNCHANGED <<sent, tables, worker, renew, waiters, timers, requeue,
                 history, troubles>>

CheckProcessing ==
  /\ check.since # {}
  /\ check' = [since |-> {},
               missed |-> IF In(processing) = {}
                          THEN check.since \ Finished ELSE {}]
  /\ UNCHANGED <<sent, tables, worker, renew, waiters, timers, requeue,
                 history, troubles>>

-----------------------------------------------------------------------------
(* The environment                                                         *)

Held == UNION {worker[w].batch : w \in {v \in Workers :
                 worker[v].step \in {"remove", "callback", "resend", "ack"}}}

\* A copy nobody renews grows older than mqTimeout.
LeaseRunsOut(m) ==
  /\ m \in In(processing) \ (Held \cup expired)
  /\ expired' = expired \cup {m}
  /\ UNCHANGED <<sent, queued, processing, worker, renew, waiters, timers,
                 requeue, check, history, troubles>>

\* The device sleeps past mqTimeout: every lease has run out when it wakes,
\* and every suspended call goes on from where it was.
DeviceSleeps ==
  /\ Trouble
  /\ expired # In(processing)
  /\ expired' = In(processing)
  /\ UNCHANGED <<sent, queued, processing, worker, renew, waiters, timers,
                 requeue, check, history>>

Mine(c) == {w \in Workers : ClientOf[w] = c}

\* A window is closed: what it held in memory is gone.
Crash(c) ==
  /\ Trouble
  /\ worker' = [w \in Workers |-> IF w \in Mine(c) THEN IdleWorker
                                  ELSE worker[w]]
  /\ renew' = [w \in Workers |-> IF w \in Mine(c) THEN NoCopies ELSE renew[w]]
  /\ timers' = [w \in Workers |-> timers[w] /\ w \notin Mine(c)]
  /\ waiters' = [waiters EXCEPT ![c] = <<>>]
  /\ requeue' = [requeue EXCEPT ![c] = [step |-> "idle",
                                        copies |-> NoCopies]]
  /\ holes' = IF requeue[c].step = "deleted"
              THEN holes \cup In(requeue[c].copies) ELSE holes
  /\ UNCHANGED <<sent, tables, check, handled, resent, dropped, handedOut>>

\* reloadQueues: every worker of the client is told to stop, one that waits
\* ends at once, and the queue's one subscription gets a new worker, which
\* takes the place of any that has ended.
Stopped(c) == {w \in Mine(c) : worker[w].step \in {"off", "dead"}}
Running(c) == Mine(c) \ Stopped(c)
Slot(c) == CHOOSE w \in Stopped(c) : TRUE

AfterStop(w) ==
  IF worker[w].step = "wait" THEN IdleWorker
  ELSE [worker[w] EXCEPT !.stopping = TRUE]

Reload(c) ==
  /\ Running(c) # {} => troubles < MaxTroubles
  /\ Stopped(c) # {}
  /\ worker' = [w \in Workers |->
                  IF w = Slot(c) THEN [IdleWorker EXCEPT !.step = "poll"]
                  ELSE IF w \in Running(c) THEN AfterStop(w)
                  ELSE worker[w]]
  /\ waiters' = [waiters EXCEPT ![c] = <<>>]
  /\ timers' = [w \in Workers |-> timers[w] /\ ~(w \in Running(c)
                                            /\ worker[w].step = "wait")]
  /\ troubles' = IF Running(c) = {} THEN troubles ELSE troubles + 1
  /\ UNCHANGED <<sent, tables, renew, requeue, check, history>>

Next ==
  \/ \E c \in Clients :
       Send(c) \/ RequeueScan(c) \/ RequeueDelete(c) \/ RequeueSet(c)
         \/ RequeueFails(c) \/ Crash(c) \/ Reload(c)
  \/ \E w \in Workers :
       PollRead(w) \/ PollTake(w) \/ PollRemove(w) \/ Callback(w)
         \/ Resend(w) \/ Ack(w) \/ Register(w) \/ SleepEnds(w)
         \/ StaleSleepEnds(w) \/ RenewRead(w) \/ RenewWrite(w)
         \/ PollFails(w) \/ CallbackFails(w)
  \/ \E m \in Ids : LeaseRunsOut(m)
  \/ CheckQueued \/ CheckProcessing \/ DeviceSleeps

Spec == Init /\ [][Next]_vars

WorkerStep(w) ==
  PollRead(w) \/ PollTake(w) \/ PollRemove(w) \/ Callback(w) \/ Resend(w)
    \/ Ack(w) \/ Register(w) \/ SleepEnds(w)

\* A window that is closed, or that has not loaded its plugs yet; one whose
\* last worker a failed poll has ended.
Closed(c) == \A w \in Mine(c) : worker[w].step = "off"
Abandoned(c) == Running(c) = {} /\ ~Closed(c)

\* Promises and timers of an open window run on; a window is opened again and
\* loads its plugs, but no window is owed a worker for one that died; the clock
\* goes on.
FairSpec ==
  /\ Spec
  /\ \A w \in Workers : WF_vars(WorkerStep(w)) /\ WF_vars(RenewWrite(w))
  /\ \A c \in Clients :
       /\ WF_vars(Closed(c) /\ Reload(c))
       /\ WF_vars(RequeueScan(c) \/ RequeueDelete(c) \/ RequeueSet(c))
  /\ WF_vars(\E m \in Ids : LeaseRunsOut(m))

-----------------------------------------------------------------------------
(* What the queue promises                                                 *)

TypeOK ==
  /\ sent \in 0 .. LastId
  /\ queued \in Copies /\ processing \in Copies
  /\ expired \subseteq In(processing)
  /\ worker \in [Workers -> WorkerType]
  /\ renew \in [Workers -> Copies]
  /\ waiters \in [Clients -> Seq(Workers)]
  /\ timers \in [Workers -> BOOLEAN]
  /\ requeue \in [Clients -> [step : {"idle", "scanned", "deleted"},
                             copies : Copies]]
  /\ check \in [since : SUBSET Ids, missed : SUBSET Ids]
  /\ handled \subseteq Ids /\ resent \subseteq Ids
  /\ dropped \subseteq Ids /\ holes \subseteq Ids
  /\ handedOut \in [Ids -> 0 .. MaxRetries + 1]

\* At least once: a message that was sent is stored, or a requeueTimeouts
\* call of an open window holds it, or it was processed, or sent anew under
\* another id, or flushed after its retries -- except through the two holes:
\* a requeueTimeouts that does not get from its first half to its second (the
\* window is closed, the batchSet fails), and a lease that ran out between the
\* two halves of poll.  Windows may crash, calls fail, and several workers
\* poll, renew and acknowledge the same messages, in every order.
Stored == In(queued) \cup In(processing)
NoMessageLost ==
  (1 .. sent) \subseteq Stored \cup Requeueing \cup resent \cup Finished

\* The retry count of a message never runs ahead of the deliveries: one that
\* is flushed as exceeding MaxRetries was handed out more than MaxRetries
\* times, whatever duplicates, renewals and concurrent requeues did.
RetryBudget == \A m \in dropped : handedOut[m] > MaxRetries

\* isQueueEmpty (which reindexSpace and the first index wait for) counts two
\* tables one after the other.  What it may overlook when it says yes is only
\* what goes back to queued behind its first count: the copy of a message that
\* was deferred and sent anew meanwhile, and messages a requeueTimeouts call
\* has in its hands or takes meanwhile.  Every other message that was pending
\* at the first count has been processed, flushed or lost through a hole.  So
\* yes does not mean that every file is indexed (README, section 4).
OverlooksOnlyMoved == check.missed = {}

\* A wake-up is never spent on a worker that is not waiting for it: whoever
\* leaves the wait by its own timer or by stop() has left the waiters first.
WaitersWait ==
  \A c \in Clients : \A i \in 1 .. Len(waiters[c]) :
    /\ worker[waiters[c][i]].step = "wait"
    /\ ClientOf[waiters[c][i]] = c
    /\ \A j \in 1 .. Len(waiters[c]) : waiters[c][i] = waiters[c][j] => i = j

\* Every message is in the end processed, flushed or sent anew, unless in the
\* end no window has a worker any more because polls have failed: a lost
\* wake-up, a worker that stops, a callback that throws and a window that is
\* closed only delay it.  (Sends are bounded and what is settled stays so, hence
\* "again and again none is left" says it of each message.)
EveryMessageSettles == []<>(Unsettled = {} \/ \A c \in Clients : Abandoned(c))
=============================================================================
