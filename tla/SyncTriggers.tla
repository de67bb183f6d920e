---------------------------- MODULE SyncTriggers ----------------------------
(***************************************************************************)
(* What starts performSync on one device: the interval, the 30 s after a   *)
(* saved page, the return to the app, the "changed" signals of ChessNote   *)
(* Cloud (push.ts coalesces them, push_trigger.ts debounces them) and the  *)
(* command.  All but the command go through runAllConfiguredSyncs, which   *)
(* drops a trigger that meets its provider's lock (auto_trigger.ts).       *)
(*                                                                         *)
(* A change is known by its number: version[p] changes concern provider p, *)
(* and a run that lists after a change will sync it.                       *)
(*                                                                         *)
(* Names that PushSocket has too carry the prefix Trigger, so that one     *)
(* module can extend both ends of the realtime channel.                    *)
(***************************************************************************)
EXTENDS Naturals, FiniteSets

CONSTANTS
  Providers,      \* the providers that are configured and logged in
  Push,           \* those with a realtime channel
  Interval,       \* is autoIntervalMinutes positive
  Slots,          \* bound: runs of one provider at one time
  MaxChanges,     \* bound: changes
  MaxResumes,     \* bound: returns to the app
  MaxCommandRuns, \* bound: "Chess: sync" commands
  MaxTrouble      \* bound: failed runs and lost connections

ASSUME TriggerAssumption ==
  /\ Push \subseteq Providers
  /\ Interval \in BOOLEAN
  /\ {MaxChanges, MaxResumes, MaxCommandRuns, MaxTrouble} \subseteq Nat

VARIABLES
  version,     \* version[p]: changes provider p has to sync
  seen,        \* seen[p]: the changes that finished runs have synced
  lock,        \* providerLocks
  run,         \* run[p][i]: the i-th run of provider p, or Free
  saveTimer,   \* debounceHandle of auto_trigger.ts
  pushTimer,   \* pushDebounceTimer of push_trigger.ts
  due,         \* the server's coalescing timer (pendingBroadcastByUser)
  sent,        \* a "changed" message is on its way
  connected,   \* the push socket is open
  changes, resumes, commandRuns, trouble

timers == <<saveTimer, pushTimer>>
server == <<due, sent, connected>>
counts == <<changes, resumes, commandRuns, trouble>>
triggerVars == <<version, seen, lock, run, timers, server, counts>>

Free == [pc |-> "free", auto |-> FALSE, listed |-> 0]
Runs == [pc : {"free", "start", "listed"}, auto : BOOLEAN, listed : Nat]

TriggerInit ==
  /\ version = [p \in Providers |-> 0]
  /\ seen = [p \in Providers |-> 0]
  /\ lock = [p \in Providers |-> FALSE]
  /\ run = [p \in Providers |-> [i \in Slots |-> Free]]
  /\ saveTimer = FALSE /\ pushTimer = FALSE
  /\ due = FALSE /\ sent = FALSE /\ connected = TRUE
  /\ changes = 0 /\ resumes = 0 /\ commandRuns = 0 /\ trouble = 0

-----------------------------------------------------------------------------
(* Starting runs *)

FreeSlot(p) == {i \in Slots : run[p][i] = Free}

\* Mutant: the lock is set but not asked for.
RunAllUnlocked ==
  /\ \A p \in Providers : FreeSlot(p) # {}
  /\ lock' = [p \in Providers |-> TRUE]
  /\ run' = [p \in Providers |->
       [run[p] EXCEPT ![CHOOSE i \in FreeSlot(p) : TRUE] =
          [pc |-> "start", auto |-> TRUE, listed |-> 0]]]

\* runOneQuiet of every provider, up to its first await.
RunAllConfiguredSyncs ==
  LET starting == {p \in Providers : ~lock[p]}
  IN /\ \A p \in starting : FreeSlot(p) # {}
     /\ lock' = [p \in Providers |-> TRUE]
     /\ run' = [p \in Providers |->
          IF p \notin starting THEN run[p]
          ELSE [run[p] EXCEPT ![CHOOSE i \in FreeSlot(p) : TRUE] =
                  [pc |-> "start", auto |-> TRUE, listed |-> 0]]]

IntervalFires ==
  /\ Interval
  /\ RunAllConfiguredSyncs
  /\ UNCHANGED <<version, seen, timers, server, counts>>

ActivityResumed ==
  /\ resumes < MaxResumes
  /\ resumes' = resumes + 1
  /\ RunAllConfiguredSyncs
  /\ UNCHANGED <<version, seen, timers, server, changes, commandRuns, trouble>>

SaveTimerFires ==
  /\ saveTimer
  /\ saveTimer' = FALSE
  /\ RunAllConfiguredSyncs
  /\ UNCHANGED <<version, seen, pushTimer, server, counts>>

PushTimerFires ==
  /\ pushTimer
  /\ pushTimer' = FALSE
  /\ RunAllConfiguredSyncs
  /\ UNCHANGED <<version, seen, saveTimer, server, counts>>

\* commandWebDavSync, commandDropboxSync: no lock is asked or taken.
CommandSync(p) ==
  /\ commandRuns < MaxCommandRuns
  /\ commandRuns' = commandRuns + 1
  /\ \E i \in FreeSlot(p) :
       run' = [run EXCEPT ![p][i] = [pc |-> "start", auto |-> FALSE, listed |-> 0]]
  /\ UNCHANGED <<version, seen, lock, timers, server, changes, resumes, trouble>>

-----------------------------------------------------------------------------
(* Runs *)

List(p, i) ==
  /\ run[p][i].pc = "start"
  /\ run' = [run EXCEPT ![p][i] = [@ EXCEPT !.pc = "listed", !.listed = version[p]]]
  /\ UNCHANGED <<version, seen, lock, timers, server, counts>>

\* Mutant: a run that left is still counted.
LeaveDone(p, i) ==
  /\ run' = [run EXCEPT ![p][i].pc = "done"]
  /\ lock' = [lock EXCEPT ![p] = @ /\ ~run[p][i].auto]

\* A run leaves; an automatic one gives the lock back, whatever happened.
Leave(p, i) ==
  /\ run' = [run EXCEPT ![p][i] = Free]
  /\ lock' = [lock EXCEPT ![p] = @ /\ ~run[p][i].auto]

\* What the run changed comes back as events: a page it wrote is a saved page,
\* and an upload to ChessNote Cloud is a change it announces to this device too.
Finish(p, i) ==
  LET r == run[p][i]
  IN /\ r.pc = "listed"
     /\ Leave(p, i)
     /\ seen' = [seen EXCEPT ![p] = IF r.listed > @ THEN r.listed ELSE @]
     /\ \/ UNCHANGED <<saveTimer, due>>
        \/ /\ r.listed > seen[p]
           /\ \/ saveTimer' = TRUE /\ UNCHANGED due
              \/ p \in Push /\ due' = TRUE /\ UNCHANGED saveTimer
  /\ UNCHANGED <<version, pushTimer, sent, connected, counts>>

Trouble == trouble < MaxTrouble /\ trouble' = trouble + 1

\* Mutant: the lock is given back after success only (no finally).
FailKeepsLock(p, i) ==
  /\ run[p][i].pc # "free"
  /\ Trouble
  /\ run' = [run EXCEPT ![p][i] = Free]
  /\ UNCHANGED <<version, seen, lock, timers, server, changes, resumes, commandRuns>>

Fail(p, i) ==
  /\ run[p][i].pc # "free"
  /\ Trouble
  /\ Leave(p, i)
  /\ UNCHANGED <<version, seen, timers, server, changes, resumes, commandRuns>>

-----------------------------------------------------------------------------
(* Changes and signals *)

Change == changes < MaxChanges /\ changes' = changes + 1

\* onPageSaved restarts the debounce.
PageSaved ==
  /\ Change
  /\ version' = [p \in Providers |-> version[p] + 1]
  /\ saveTimer' = TRUE
  /\ UNCHANGED <<seen, lock, run, pushTimer, server, resumes, commandRuns, trouble>>

\* Another device writes or deletes a file; ChessNote Cloud calls
\* broadcastChanged.
RemoteChange(p) ==
  /\ Change
  /\ version' = [version EXCEPT ![p] = @ + 1]
  /\ due' = (due \/ p \in Push)
  /\ UNCHANGED <<seen, lock, run, timers, sent, connected, resumes, commandRuns, trouble>>

\* 800 ms later: whoever is connected now is told.
Broadcast ==
  /\ due
  /\ due' = FALSE
  /\ sent' = (sent \/ connected)
  /\ UNCHANGED <<version, seen, lock, run, timers, connected, counts>>

OnChanged ==
  /\ sent
  /\ sent' = FALSE
  /\ pushTimer' = TRUE
  /\ UNCHANGED <<version, seen, lock, run, saveTimer, due, connected, counts>>

Disconnected ==
  /\ connected
  /\ Trouble
  /\ connected' = FALSE
  /\ sent' = FALSE
  /\ UNCHANGED <<version, seen, lock, run, timers, due, changes, resumes, commandRuns>>

Reconnected ==
  /\ ~connected
  /\ connected' = TRUE
  /\ UNCHANGED <<version, seen, lock, run, timers, due, sent, counts>>

-----------------------------------------------------------------------------

RunStep(p, i) == List(p, i) \/ Finish(p, i)

TriggerNext ==
  \/ IntervalFires \/ ActivityResumed \/ SaveTimerFires \/ PushTimerFires
  \/ \E p \in Providers : \/ CommandSync(p) \/ RemoteChange(p)
                          \/ \E i \in Slots : RunStep(p, i) \/ Fail(p, i)
  \/ PageSaved \/ Broadcast \/ OnChanged \/ Disconnected \/ Reconnected

TriggerSpec == TriggerInit /\ [][TriggerNext]_triggerVars

\* Timers fire, and a run ends: each of its requests answers, fails or times
\* out after 30 s.
TriggerFairness ==
  /\ WF_triggerVars(IntervalFires)
  /\ WF_triggerVars(SaveTimerFires)
  /\ WF_triggerVars(PushTimerFires)
  /\ \A p \in Providers, i \in Slots : WF_triggerVars(RunStep(p, i))

TriggerFairSpec == TriggerSpec /\ TriggerFairness

-----------------------------------------------------------------------------
(* Properties *)

TriggerTypeOK ==
  /\ version \in [Providers -> 0 .. MaxChanges]
  /\ seen \in [Providers -> 0 .. MaxChanges]
  /\ lock \in [Providers -> BOOLEAN]
  /\ run \in [Providers -> [Slots -> Runs]]
  /\ {saveTimer, pushTimer, due, sent, connected} \subseteq BOOLEAN
  /\ changes \in 0 .. MaxChanges
  /\ resumes \in 0 .. MaxResumes
  /\ commandRuns \in 0 .. MaxCommandRuns
  /\ trouble \in 0 .. MaxTrouble

\* The lock of a provider is held exactly while one automatic run of it is
\* under way (lines 16-18 and 21-42): never two, and never none.
AutoRuns(p) == {i \in Slots : run[p][i].auto}

LockIsARun ==
  \A p \in Providers : Cardinality(AutoRuns(p)) = IF lock[p] THEN 1 ELSE 0

\* With the interval on, every change is synced in the end, whatever triggers
\* the lock has dropped and whatever runs have failed.
AllSeen == \A p \in Providers : seen[p] = version[p]
EverythingSynced == <>[]AllSeen

\* "synced 30 seconds after a page is saved; another device changes something,
\* the signal comes and the device syncs at once" (08-sync.md 20-21): when no
\* trigger or signal is on its way and nothing runs, a device that never lost
\* its connection has synced everything it was told of.
Quiet ==
  /\ ~due /\ ~sent /\ ~pushTimer /\ ~saveTimer
  /\ \A p \in Providers, i \in Slots : run[p][i] = Free

TriggersHeeded == Quiet /\ trouble = 0 => \A p \in Push : seen[p] = version[p]
=============================================================================
