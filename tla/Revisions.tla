----------------------------- MODULE Revisions -----------------------------
(***************************************************************************)
(* The history of a space: server/src/revisions/engine.rs, which commits   *)
(* to git (store.rs) what it is told has changed, and the way it is told:  *)
(* the handlers that note who writes (fs_guard.rs), the file-system        *)
(* watcher that turns changes into events (watcher.rs), and the bounded    *)
(* channel between them.                                                   *)
(*                                                                         *)
(* The k-th change of a path is number k of its log; the file on the disk  *)
(* is what the last one made it, index and HEAD hold the number they were  *)
(* given.  Time is abstract: a deadline, a note or a debounce may end at   *)
(* any moment.                                                             *)
(*                                                                         *)
(* git add and git commit of one batch are one step, since only the holder *)
(* of commit_lock touches the index; when the second fails the first has   *)
(* happened.                                                               *)
(***************************************************************************)
EXTENDS Naturals, Sequences, FiniteSets

CONSTANTS
  Paths,
  Initial,      \* the paths of files that are there at first
  Accounts,
  External,     \* author of changes made outside the server
  System,       \* author of snapshots
  MaxChanges,   \* bound: changes of files after the start
  Capacity,     \* CHANNEL_CAPACITY
  Flood,        \* FLOOD_THRESHOLD
  MaxTroubles,  \* bound: git failures, lost file-system events, crashes
  MaxCalls,     \* bound: manual snapshots and orderly stops
  None

Author == Accounts \cup {External, System}

ASSUME BoundsAssumption ==
  /\ MaxChanges \in Nat /\ MaxTroubles \in Nat
  /\ MaxCalls \in Nat /\ Flood \in Nat /\ Capacity \in Nat \ {0}
ASSUME NamesAssumption ==
  /\ IsFiniteSet(Paths) /\ Initial \subseteq Paths
  /\ External \notin Accounts /\ System \notin Accounts /\ External # System
  /\ None \notin Author /\ None \notin Paths /\ \A S \in SUBSET Paths : S # None

VARIABLES
  log,         \* the changes of each path: who made it, and was it a deletion
  raw,         \* the debounce loop's pending paths
  events,      \* the broadcast channel, as the history engine receives it
  lagged,      \* the channel has dropped events
  dirty,       \* EngineState.dirty
  marked,      \* first_mark is Some
  at,          \* where the history thread and the other caller are
  batch,       \* the batch a commit_now is working on
  rest,        \* what follows this commit_now
  stopping,
  first,       \* the initial snapshot's paths, None when it is done
  index,       \* git's index
  head,        \* git's HEAD commit
  missed,      \* history: paths with a change that no event will report
  unearned,    \* history: changes credited to an account that did not make them
  excused,     \* history: changes in one of the named windows
  used         \* changes, troubles and calls so far

channel == <<events, lagged>>
outside == <<log, raw, channel>>
marks == <<dirty, marked>>
work == <<batch, rest, stopping>>
repo == <<index, head, first>>
history == <<missed, unearned, excused>>
vars == <<outside, marks, at, work, repo, history, used>>

Last(p) == Len(log[p])

\* What change k makes of the file; 0 when there is none.
Text(p, k) == IF k = 0 \/ log[p][k].gone THEN 0 ELSE k
Exists(p) == Text(p, Last(p)) # 0
Uncommitted == {p \in Paths : Text(p, Last(p)) # Text(p, head[p])}

\* Mutant: what is staged and not committed is not looked for.
Unstaged == {p \in Paths : Text(p, Last(p)) # Text(p, index[p])}
\* uncommitted_files: what git status tells.
Unclean == Uncommitted \cup {p \in Paths : Text(p, Last(p)) # Text(p, index[p])}

NoMarks == [p \in Paths |-> None]
Resync == [path |-> None, by |-> External]
Callers == {"thread", "caller"}

Trouble ==
  /\ used.troubles < MaxTroubles
  /\ used' = [used EXCEPT !.troubles = @ + 1]

-----------------------------------------------------------------------------
\* A space without commits, whose files the first commit is to snapshot, or one
\* whose files are committed.
Init ==
  /\ log = [p \in Paths |-> IF p \in Initial
                            THEN <<[by |-> External, gone |-> FALSE]>>
                            ELSE <<>>]
  /\ raw = {} /\ events = <<>> /\ lagged = FALSE
  /\ dirty = NoMarks /\ marked = FALSE
  /\ at = [j \in Callers |-> IF j = "thread" THEN "first" ELSE "idle"]
  /\ batch = [j \in Callers |-> NoMarks]
  /\ rest = [j \in Callers |-> "none"]
  /\ stopping = FALSE
  /\ \/ /\ first = {p \in Paths : Exists(p)}
        /\ head = [p \in Paths |-> 0]
     \/ /\ first = None
        /\ head = [p \in Paths |-> Last(p)]
  /\ index = head
  /\ missed = {} /\ unearned = {} /\ excused = {}
  /\ used = [changes |-> 0, troubles |-> 0, calls |-> 0]

-----------------------------------------------------------------------------
(* Writers and the watcher                                                 *)

\* The handlers of fs.rs and other programs write and delete files.  The
\* event may get lost.
Change(p, a, gone) ==
  /\ used.changes < MaxChanges
  /\ gone => Exists(p)
  /\ log' = [log EXCEPT ![p] = Append(@, [by |-> a, gone |-> gone])]
  /\ \/ /\ used' = [used EXCEPT !.changes = @ + 1]
        /\ raw' = raw \cup {p}
        /\ UNCHANGED missed
     \/ /\ used.troubles < MaxTroubles
        /\ used' = [used EXCEPT !.changes = @ + 1, !.troubles = @ + 1]
        /\ missed' = missed \cup {p}
        /\ UNCHANGED raw
  /\ UNCHANGED <<channel, marks, at, work, repo, unearned, excused>>

\* enrich_event: a change is looked up by its content, a deletion is put down
\* to the latest write of the path that a handler has noted.  A note may not be
\* there yet, for it is made after the write, or have expired.
NotedWriters(p) ==
  {log[p][k].by : k \in {l \in 1 .. Last(p) :
     /\ Exists(p) => l = Last(p)
     /\ log[p][l].by \in Accounts
     /\ \A m \in l + 1 .. Last(p) - 1 : log[p][m].by = External}}
Attributions(p) == {External} \cup NotedWriters(p)

\* Mutant: a channel without a bound.
BroadcastAlways(ev) == events' = Append(events, ev) /\ UNCHANGED lagged
\* A full channel drops its oldest event.
Broadcast(ev) ==
  IF Len(events) < Capacity
  THEN events' = Append(events, ev) /\ UNCHANGED lagged
  ELSE events' = Append(Tail(events), ev) /\ lagged' = TRUE

\* Change k of p, when it is put down to an account that did not make it.
NotOf(p, k, by) == {<<p, k>> : a \in (Accounts \cap {by}) \ {log[p][k].by}}

\* The debounce loop sends an event for each path that has been quiet ...
Flush(p) ==
  /\ p \in raw
  /\ raw' = raw \ {p}
  /\ \E by \in Attributions(p) :
       /\ Broadcast([path |-> p, by |-> by])
       /\ excused' = excused \cup NotOf(p, Last(p), by)
  /\ UNCHANGED <<log, marks, at, work, repo, missed, unearned, used>>

\* ... or one resync for too many of them.
FlushFlood ==
  \E S \in SUBSET raw :
    /\ Cardinality(S) > Flood
    /\ raw' = raw \ S
    /\ Broadcast(Resync)
    /\ UNCHANGED <<log, marks, at, work, repo, history, used>>

-----------------------------------------------------------------------------
(* EngineState                                                             *)

\* notify_all reaches the history thread only when it waits.
Notified == [at EXCEPT !["thread"] = IF @ \in {"asleep", "parked"}
                                     THEN "check" ELSE @]

\* record: marks wake the thread only on the idle -> dirty transition.
Marks(new) ==
  /\ dirty' = new
  /\ IF new # NoMarks
     THEN marked' = TRUE /\ at' = IF marked THEN at ELSE Notified
     ELSE UNCHANGED <<marked, at>>

\* rescan_as_external lists the files that exist, and relabels no pending mark.
Rescanned == [p \in Paths |-> IF Exists(p) /\ dirty[p] = None
                              THEN External ELSE dirty[p]]

Rescan ==
  /\ Marks(Rescanned)
  /\ missed' = missed \cup {p \in Paths : ~Exists(p) /\ dirty[p] = None}
  /\ excused' = excused \cup UNION {NotOf(p, Last(p), dirty[p]) :
                               p \in {q \in Paths : dirty[q] # None}}
  /\ UNCHANGED unearned

\* Mutant: the events that were dropped are only counted.
ReceiveNext ==
  /\ events # <<>>
  /\ events' = Tail(events)
  /\ lagged' = FALSE
  /\ IF Head(events) = Resync
     THEN Rescan
     ELSE /\ Marks([dirty EXCEPT ![Head(events).path] = Head(events).by])
          /\ UNCHANGED history
  /\ UNCHANGED <<log, raw, work, repo, used>>
\* The event thread.
Receive ==
  /\ lagged \/ events # <<>>
  /\ IF lagged
     THEN lagged' = FALSE /\ Rescan /\ UNCHANGED events
     ELSE /\ events' = Tail(events)
          /\ IF Head(events) = Resync
             THEN Rescan
             ELSE /\ Marks([dirty EXCEPT ![Head(events).path] =
                                           Head(events).by])
                  /\ UNCHANGED history
          /\ UNCHANGED lagged
  /\ UNCHANGED <<log, raw, work, repo, used>>

-----------------------------------------------------------------------------
(* Commits                                                                 *)

Stage(S) == [p \in Paths |-> IF p \in S THEN Last(p) ELSE index[p]]

\* git add refuses a path that is neither on the disk nor in the index, and
\* then adds none of the others.
Unmatched(S) == \E p \in S : ~Exists(p) /\ Text(p, index[p]) = 0

\* On its way to the engine, or marked since the batch was taken.
InChannel(p) ==
  \/ lagged
  \/ \E i \in 1 .. Len(events) : events[i] = Resync \/ events[i].path = p
OnItsWay(p) == p \in raw \cup missed \/ InChannel(p) \/ dirty[p] # None

\* What a commit of the index changes in HEAD, and who did not make it.
New(S) == {p \in Paths : Text(p, Stage(S)[p]) # Text(p, head[p])}
Wrong(S, T, by) == UNION {NotOf(p, Stage(S)[p], by) : p \in T}

\* git commit takes the whole index, whatever was staged for this author.
Commit(S, by) ==
  /\ index' = Stage(S)
  /\ head' = IF New(S) = {} THEN head ELSE Stage(S)
  /\ unearned' = unearned \cup Wrong(S, New(S), by)
  /\ excused' = excused \cup
       Wrong(S, {p \in New(S) : p \notin S \/ OnItsWay(p)}, by)
  /\ missed' = {p \in missed : Text(p, Stage(S)[p]) # Text(p, Last(p))}

\* add has failed, or add has succeeded and commit has failed.
CommitFails(S) ==
  /\ \/ Unmatched(S) /\ index' = index /\ UNCHANGED used
     \/ Trouble /\ index' \in {index} \cup {t \in {Stage(S)} : ~Unmatched(S)}
  /\ UNCHANGED <<head, history>>

Free(j) == \A i \in Callers \ {j} : at[i] # "groups"

\* ensure_initial_snapshot_locked: the files of the start that still exist.
\* None is left when it is done; it is tried again after a failure.
InitialSnapshot ==
  LET S == IF first = None THEN {} ELSE {p \in first : Exists(p)} IN
  \/ /\ S = {}
     /\ first' = None
     /\ UNCHANGED <<index, head, history, used>>
  \/ /\ S # {}
     /\ Commit(S, System)
     /\ first' = None
     /\ UNCHANGED used
  \/ /\ S # {}
     /\ CommitFails(S)
     /\ UNCHANGED first

\* The thread's first pass.
FirstPass ==
  /\ at["thread"] = "first"
  /\ Free("thread")
  /\ InitialSnapshot
  /\ at' = [at EXCEPT !["thread"] = "check"]
  /\ UNCHANGED <<outside, marks, work>>

\* commit_now takes commit_lock, then everything that is marked.
CommitNow(j) ==
  /\ at[j] = "begin"
  /\ Free(j)
  /\ InitialSnapshot
  /\ batch' = [batch EXCEPT ![j] = dirty]
  /\ dirty' = NoMarks
  /\ marked' = FALSE
  /\ at' = [at EXCEPT ![j] = "groups"]
  /\ UNCHANGED <<outside, rest, stopping>>

Group(j, by) == {p \in Paths : batch[j][p] = by}
Without(j, by) ==
  [batch EXCEPT ![j] = [p \in Paths |-> IF @[p] = by THEN None ELSE @[p]]]

CommitGroup(j, by) ==
  /\ at[j] = "groups"
  /\ Group(j, by) # {}
  /\ ~Unmatched(Group(j, by))
  /\ Commit(Group(j, by), by)
  /\ batch' = Without(j, by)
  /\ UNCHANGED <<outside, marks, at, rest, stopping, first, used>>

\* Mutant: ... a newer mark notwithstanding.
PutBackOver(j, by) == [p \in Paths |-> IF p \in Group(j, by)
                                       THEN by ELSE dirty[p]]
\* A group that failed is marked again, except where there is a newer mark.
PutBack(j, by) == [p \in Paths |-> IF p \in Group(j, by) /\ dirty[p] = None
                                   THEN by ELSE dirty[p]]

\* Mutant: nobody is told.
GroupFailsQuietly(j, by) ==
  /\ at[j] = "groups"
  /\ Group(j, by) # {}
  /\ CommitFails(Group(j, by))
  /\ dirty' = PutBack(j, by)
  /\ marked' = TRUE
  /\ batch' = Without(j, by)
  /\ UNCHANGED <<outside, at, rest, stopping, first>>
GroupFails(j, by) ==
  /\ at[j] = "groups"
  /\ Group(j, by) # {}
  /\ CommitFails(Group(j, by))
  /\ dirty' = PutBack(j, by)
  /\ marked' = TRUE
  /\ at' = Notified
  /\ batch' = Without(j, by)
  /\ UNCHANGED <<outside, rest, stopping, first>>

After(j) == IF rest[j] # "none" THEN rest[j]
            ELSE IF j = "thread" THEN "check" ELSE "idle"

GroupsDone(j) ==
  /\ at[j] = "groups"
  /\ batch[j] = NoMarks
  /\ at' = [at EXCEPT ![j] = After(j)]
  /\ rest' = [rest EXCEPT ![j] = "none"]
  /\ UNCHANGED <<outside, marks, batch, stopping, repo, history, used>>

\* commit_all: everything that differs, for the sweep or a manual snapshot.
CommitAll(by) ==
  \/ /\ Commit(Paths, by)
     /\ UNCHANGED used
  \/ /\ Trouble
     /\ index' \in {index, Stage(Paths)}
     /\ UNCHANGED <<head, history>>

Sweep ==
  /\ at["thread"] = "sweep"
  /\ Free("thread")
  /\ \/ /\ Unclean = {} \/ dirty # NoMarks
        /\ UNCHANGED <<index, head, history, used>>
     \/ /\ Unclean # {} /\ dirty = NoMarks
        /\ CommitAll(External)
  /\ at' = [at EXCEPT !["thread"] = "check"]
  /\ UNCHANGED <<outside, marks, work, first>>

-----------------------------------------------------------------------------
(* The history thread                                                      *)

Stopped ==
  /\ at["thread"] \in {"first", "check"}
  /\ stopping
  /\ at' = [at EXCEPT !["thread"] = "gone"]
  /\ UNCHANGED <<outside, marks, work, repo, history, used>>

Due(commit, sweep) ==
  /\ at["thread"] = "check"
  /\ ~stopping
  /\ commit \/ sweep
  /\ commit => marked
  /\ at' = [at EXCEPT !["thread"] = IF commit THEN "begin" ELSE "sweep"]
  /\ rest' = [rest EXCEPT !["thread"] = IF commit /\ sweep THEN "sweep"
                                        ELSE "none"]
  /\ UNCHANGED <<outside, marks, batch, stopping, repo, history, used>>

\* It sleeps until the sweep, or until the earliest deadline of the marks.
Sleep ==
  /\ at["thread"] = "check"
  /\ ~stopping
  /\ at' = [at EXCEPT !["thread"] = IF marked THEN "asleep" ELSE "parked"]
  /\ UNCHANGED <<outside, marks, work, repo, history, used>>

Wake ==
  /\ at["thread"] \in {"asleep", "parked"}
  /\ at' = [at EXCEPT !["thread"] = "check"]
  /\ UNCHANGED <<outside, marks, work, repo, history, used>>

-----------------------------------------------------------------------------
(* Manual snapshots, stop and restart                                      *)

Call ==
  /\ at["caller"] = "idle"
  /\ used.calls < MaxCalls
  /\ used' = [used EXCEPT !.calls = @ + 1]

Snapshot ==
  /\ Call
  /\ at' = [at EXCEPT !["caller"] = "begin"]
  /\ rest' = [rest EXCEPT !["caller"] = "all"]
  /\ UNCHANGED <<outside, marks, batch, stopping, repo, history>>

SnapshotAll ==
  /\ at["caller"] = "all"
  /\ Free("caller")
  /\ CommitAll(System)
  /\ at' = [at EXCEPT !["caller"] = "idle"]
  /\ UNCHANGED <<outside, marks, work, first>>

\* Drop of the engine: the thread is told, joined, and what is left committed.
Stop ==
  /\ Call
  /\ stopping' = TRUE
  /\ at' = [Notified EXCEPT !["caller"] = "join"]
  /\ UNCHANGED <<outside, marks, batch, rest, repo, history>>

Join ==
  /\ at["caller"] = "join"
  /\ at["thread"] = "gone"
  /\ at' = [at EXCEPT !["caller"] = "begin"]
  /\ rest' = [rest EXCEPT !["caller"] = "exit"]
  /\ UNCHANGED <<outside, marks, batch, stopping, repo, history, used>>

\* The server comes up again: what was in memory is gone, and nothing but the
\* sweep will find what was not committed.
Fresh ==
  /\ raw' = {} /\ events' = <<>> /\ lagged' = FALSE
  /\ dirty' = NoMarks /\ marked' = FALSE
  /\ at' = [j \in Callers |-> IF j = "thread" THEN "first" ELSE "idle"]
  /\ batch' = [j \in Callers |-> NoMarks]
  /\ rest' = [j \in Callers |-> "none"]
  /\ stopping' = FALSE
  /\ first' = IF \A p \in Paths : head[p] = 0 THEN {p \in Paths : Exists(p)}
              ELSE None
  /\ missed' = missed \cup Unclean
  /\ UNCHANGED <<log, index, head, unearned, excused>>

Restart == at["caller"] = "exit" /\ Fresh /\ UNCHANGED used
Crash == Trouble /\ Fresh

-----------------------------------------------------------------------------
Committer(j) ==
  \/ CommitNow(j)
  \/ \E by \in Author : CommitGroup(j, by) \/ GroupFails(j, by)
  \/ GroupsDone(j)

Next ==
  \/ \E p \in Paths :
       \/ \E a \in Accounts \cup {External}, gone \in BOOLEAN : Change(p, a, gone)
       \/ Flush(p)
  \/ FlushFlood
  \/ Receive
  \/ FirstPass
  \/ \E j \in Callers : Committer(j)
  \/ Sweep
  \/ Stopped
  \/ \E commit, sweep \in BOOLEAN : Due(commit, sweep)
  \/ Sleep
  \/ Wake
  \/ Snapshot
  \/ SnapshotAll
  \/ Stop
  \/ Join
  \/ Restart
  \/ Crash

Spec == Init /\ [][Next]_vars

Fairness ==
  /\ \A p \in Paths : WF_vars(Flush(p))
  /\ WF_vars(Receive)
  /\ WF_vars(FirstPass \/ Sweep \/ Stopped \/ Wake)
  /\ \A j \in Callers : WF_vars(Committer(j))
  /\ SF_vars(Due(TRUE, FALSE) \/ Due(TRUE, TRUE))
  /\ SF_vars(Due(FALSE, TRUE) \/ Due(TRUE, TRUE))
  /\ WF_vars(SnapshotAll \/ Join \/ Restart)

FairSpec == Spec /\ Fairness

-----------------------------------------------------------------------------
Entries == [by : Author, gone : BOOLEAN]
Events == [path : Paths \cup {None}, by : Author]
Marking == [Paths -> Author \cup {None}]
Numbers == 0 .. MaxChanges + 1
Versions == [Paths -> Numbers]
Places == {"first", "check", "asleep", "parked", "begin", "groups", "sweep",
           "gone", "idle", "all", "join", "exit"}
Rests == {"none", "sweep", "all", "exit"}
Counts == [changes : 0 .. MaxChanges, troubles : 0 .. MaxTroubles,
           calls : 0 .. MaxCalls]

LogOK ==
  /\ log \in [Paths -> Seq(Entries)]
  /\ used \in Counts
  /\ \A p \in Paths : Last(p) <= used.changes + 1
ChannelOK ==
  /\ raw \subseteq Paths
  /\ events \in Seq(Events)
  /\ Len(events) <= Capacity
  /\ lagged \in BOOLEAN
MarksOK == dirty \in Marking /\ marked \in BOOLEAN
WorkOK ==
  /\ at \in [Callers -> Places]
  /\ batch \in [Callers -> Marking]
  /\ rest \in [Callers -> Rests]
  /\ stopping \in BOOLEAN
  /\ first \in {None} \cup SUBSET Paths
RepoOK ==
  /\ index \in Versions /\ head \in Versions
  /\ \A p \in Paths : index[p] <= Last(p) /\ head[p] <= Last(p)
HistoryOK ==
  /\ missed \subseteq Paths
  /\ unearned \subseteq Paths \X Numbers /\ excused \subseteq Paths \X Numbers

TypeOK == LogOK /\ ChannelOK /\ MarksOK /\ WorkOK /\ RepoOK /\ HistoryOK

\* A path whose file is not in index and HEAD is on its way to the engine,
\* marked, in a batch, or due for the initial snapshot -- or was missed: its
\* event got lost, the server restarted, or it is a deletion that a rescan
\* cannot see.
NothingForgotten ==
  \A p \in Unclean :
    \/ OnItsWay(p)
    \/ \E j \in Callers : batch[j][p] # None
    \/ first # None /\ p \in first /\ Exists(p)

\* The history thread never sleeps until the next sweep while a path is marked:
\* no wake-up is lost, whoever marks and whoever fails to commit.
ParkedMeansIdle ==
  at["thread"] = "parked" => ~marked /\ dirty = NoMarks

\* An account is credited with a change of its own, unless ...
CreditIsEarned == unearned \subseteq excused

\* In the end HEAD is the space -- unless a marked file that was created and
\* deleted before it could be committed makes every git add fail.
Phantom == \E p \in Paths :
  /\ ~Exists(p) /\ Text(p, index[p]) = 0
  /\ dirty[p] # None \/ \E j \in Callers : batch[j][p] # None
EverythingCommitted == <>[](Uncommitted = {} \/ Phantom)
=============================================================================
