-------------------------- MODULE RevisionsProofs --------------------------
(***************************************************************************)
(* What holds of the history of a space for any number of files, accounts, *)
(* changes, failures and crashes.                                          *)
(***************************************************************************)
EXTENDS Revisions, TLAPS

-----------------------------------------------------------------------------
(* Types: each part of TypeOK survives what leaves its variables alone.    *)

LEMMA LogFrame == LogOK /\ UNCHANGED <<log, used>> => LogOK'
  BY DEF LogOK, Last

LEMMA LogTrouble == LogOK /\ UNCHANGED log /\ Trouble => LogOK'
  <1> SUFFICES ASSUME LogOK, UNCHANGED log, Trouble PROVE LogOK'
    OBVIOUS
  <1>1. used' \in Counts /\ used'.changes = used.changes
    BY BoundsAssumption DEF LogOK, Trouble, Counts
  <1> QED BY <1>1 DEF LogOK, Last

LEMMA LogCall == LogOK /\ UNCHANGED log /\ Call => LogOK'
  <1> SUFFICES ASSUME LogOK, UNCHANGED log, Call PROVE LogOK'
    OBVIOUS
  <1>1. used' \in Counts /\ used'.changes = used.changes
    BY BoundsAssumption DEF LogOK, Call, Counts
  <1> QED BY <1>1 DEF LogOK, Last

LEMMA ChannelFrame == ChannelOK /\ UNCHANGED <<raw, events, lagged>> => ChannelOK'
  BY DEF ChannelOK

LEMMA MarksFrame == MarksOK /\ UNCHANGED <<dirty, marked>> => MarksOK'
  BY DEF MarksOK

LEMMA RepoFrame == RepoOK /\ UNCHANGED <<log, index, head>> => RepoOK'
  BY DEF RepoOK, Last

LEMMA HistoryFrame == HistoryOK /\ UNCHANGED history => HistoryOK'
  BY DEF HistoryOK, history

LEMMA MarkingTypes ==
  /\ NoMarks \in Marking
  /\ \A f \in Marking, p \in Paths, a \in Author : [f EXCEPT ![p] = a] \in Marking
  /\ External \in Author /\ System \in Author /\ Accounts \subseteq Author
  BY DEF NoMarks, Marking, Author

LEMMA LastType ==
  ASSUME LogOK
  PROVE  \A p \in Paths : Last(p) \in Numbers /\ Last(p) \in Nat
  <1>1. used.changes \in 0 .. MaxChanges
    BY DEF LogOK, Counts
  <1>2. \A p \in Paths : Last(p) \in Nat
    BY DEF LogOK, Last
  <1> QED BY <1>1, <1>2, BoundsAssumption DEF LogOK, Numbers

\* What is put down wrongly is a numbered change of a path.
LEMMA NotOfType ==
  \A p \in Paths, k \in Numbers : \A by : NotOf(p, k, by) \subseteq Paths \X Numbers
  BY DEF NotOf

LEMMA StageType ==
  ASSUME LogOK, RepoOK, NEW S \in SUBSET Paths
  PROVE  /\ Stage(S) \in Versions
         /\ \A p \in Paths : Stage(S)[p] \in Numbers /\ Stage(S)[p] <= Last(p)
  BY LastType DEF Stage, RepoOK, Versions

LEMMA WrongType ==
  ASSUME LogOK, RepoOK, NEW S \in SUBSET Paths, NEW T \in SUBSET Paths, NEW by
  PROVE  Wrong(S, T, by) \subseteq Paths \X Numbers
  <1>1. \A p \in T : NotOf(p, Stage(S)[p], by) \subseteq Paths \X Numbers
    BY StageType, NotOfType
  <1> QED BY <1>1 DEF Wrong

LEMMA CommitTypes ==
  ASSUME LogOK, RepoOK, HistoryOK, NEW S \in SUBSET Paths, NEW by,
         Commit(S, by), UNCHANGED log
  PROVE  RepoOK' /\ HistoryOK'
  <1>1. index' \in Versions /\ head' \in Versions
    BY StageType DEF Commit, RepoOK
  <1>2. \A p \in Paths : index'[p] <= Last(p) /\ head'[p] <= Last(p)
    BY StageType DEF Commit, RepoOK
  <1>3. RepoOK'
    BY <1>1, <1>2 DEF RepoOK, Last
  <1>4. missed' \subseteq Paths
    BY DEF Commit, HistoryOK
  <1>5. unearned' \subseteq Paths \X Numbers
    <2>1. New(S) \in SUBSET Paths
      BY DEF New
    <2> QED BY <2>1, WrongType DEF Commit, HistoryOK
  <1>6. excused' \subseteq Paths \X Numbers
    <2> DEFINE T == {p \in New(S) : p \notin S \/ OnItsWay(p)}
    <2>1. T \in SUBSET Paths
      BY DEF New
    <2>2. excused' = excused \cup Wrong(S, T, by)
      BY DEF Commit
    <2> QED BY <2>1, <2>2, WrongType DEF HistoryOK
  <1> QED BY <1>3, <1>4, <1>5, <1>6 DEF HistoryOK

LEMMA FailsTypes ==
  ASSUME LogOK, RepoOK, HistoryOK, NEW S \in SUBSET Paths,
         CommitFails(S), UNCHANGED log
  PROVE  LogOK' /\ RepoOK' /\ HistoryOK'
  <1>1. LogOK'
    BY LogFrame, LogTrouble DEF CommitFails
  <1>2. index' \in {index, Stage(S)} /\ head' = head
    BY DEF CommitFails
  <1>3. RepoOK'
    BY <1>2, StageType DEF RepoOK, Last
  <1> QED BY <1>1, <1>3, HistoryFrame DEF CommitFails

LEMMA CommitAllTypes ==
  ASSUME LogOK, RepoOK, HistoryOK, NEW by, CommitAll(by), UNCHANGED log
  PROVE  LogOK' /\ RepoOK' /\ HistoryOK'
  <1>1. CASE Commit(Paths, by) /\ UNCHANGED used
    BY <1>1, CommitTypes, LogFrame
  <1>2. CASE Trouble /\ index' \in {index, Stage(Paths)} /\ UNCHANGED <<head, history>>
    <2>1. RepoOK'
      BY <1>2, StageType DEF RepoOK, Last
    <2> QED BY <1>2, <2>1, LogTrouble, HistoryFrame
  <1> QED BY <1>1, <1>2 DEF CommitAll

LEMMA SnapshotTypes ==
  ASSUME LogOK, RepoOK, HistoryOK, WorkOK, InitialSnapshot, UNCHANGED log
  PROVE  /\ LogOK' /\ RepoOK' /\ HistoryOK'
         /\ first' \in {None} \cup SUBSET Paths
  <1> DEFINE S == IF first = None THEN {} ELSE {p \in first : Exists(p)}
  <1>1. S \in SUBSET Paths
    BY DEF WorkOK
  <1>2. first' \in {first, None}
    BY DEF InitialSnapshot
  <1>3. \/ UNCHANGED <<index, head, history, used>>
        \/ Commit(S, System) /\ UNCHANGED used
        \/ CommitFails(S)
    BY DEF InitialSnapshot
  <1>4. LogOK' /\ RepoOK' /\ HistoryOK'
    <2> HIDE DEF S
    <2>1. CASE UNCHANGED <<index, head, history, used>>
      BY <2>1, LogFrame, RepoFrame, HistoryFrame
    <2>2. CASE Commit(S, System) /\ UNCHANGED used
      BY <1>1, <2>2, CommitTypes, LogFrame
    <2>3. CASE CommitFails(S)
      BY <1>1, <2>3, FailsTypes
    <2> QED BY <1>3, <2>1, <2>2, <2>3
  <1> QED BY <1>2, <1>4 DEF WorkOK

LEMMA AtType ==
  ASSUME WorkOK
  PROVE  /\ Notified \in [Callers -> Places]
         /\ \A j \in Callers, s \in Places :
              [at EXCEPT ![j] = s] \in [Callers -> Places]
         /\ \A s \in Places : [Notified EXCEPT !["caller"] = s]
                              \in [Callers -> Places]
  BY DEF WorkOK, Notified, Places

LEMMA MarksTypes ==
  ASSUME MarksOK, WorkOK, NEW new \in Marking, Marks(new)
  PROVE  MarksOK' /\ at' \in [Callers -> Places]
  <1>1. MarksOK'
    BY DEF Marks, MarksOK
  <1>2. at' \in {at, Notified}
    BY DEF Marks
  <1> QED BY <1>1, <1>2, AtType DEF WorkOK

LEMMA BroadcastTypes ==
  ASSUME ChannelOK, NEW ev \in Events, Broadcast(ev)
  PROVE  /\ events' \in Seq(Events)
         /\ Len(events') <= Capacity
         /\ lagged' \in BOOLEAN
  <1>1. CASE Len(events) < Capacity
    BY <1>1, BoundsAssumption DEF Broadcast, ChannelOK
  <1>2. CASE ~(Len(events) < Capacity)
    <2>1. events # <<>>
      BY <1>2, BoundsAssumption DEF ChannelOK
    <2>2. Tail(events) \in Seq(Events) /\ Len(Tail(events)) = Len(events) - 1
      BY <2>1 DEF ChannelOK
    <2>3. events' = Append(Tail(events), ev) /\ lagged' = TRUE
      BY <1>2 DEF Broadcast
    <2> QED BY <2>2, <2>3 DEF ChannelOK
  <1> QED BY <1>1, <1>2

\* A rescan leaves a marking and numbered changes behind.
LEMMA RescanTypes ==
  ASSUME LogOK, MarksOK, WorkOK, HistoryOK, Rescan
  PROVE  MarksOK' /\ at' \in [Callers -> Places] /\ HistoryOK'
  <1>1. Rescanned \in Marking
    BY MarkingTypes DEF Rescanned, Marking, MarksOK
  <1>2. MarksOK' /\ at' \in [Callers -> Places]
    BY <1>1, MarksTypes DEF Rescan
  <1>3. missed' \subseteq Paths /\ unearned' = unearned
    BY DEF Rescan, HistoryOK
  <1>4. \A p \in Paths : NotOf(p, Last(p), dirty[p]) \subseteq Paths \X Numbers
    BY LastType, NotOfType
  <1>5. excused' \subseteq Paths \X Numbers
    BY <1>4 DEF Rescan, HistoryOK
  <1> QED BY <1>2, <1>3, <1>5 DEF HistoryOK

LEMMA EmptyChannel ==
  /\ <<>> \in Seq(Events) /\ Len(<<>>) <= Capacity
  /\ <<>> \in Seq(Entries) /\ Len(<<>>) = 0
  <1>1. \A S : <<>> \in Seq(S)
    OBVIOUS
  <1>2. Len(<<>>) = 0
    OBVIOUS
  <1> QED BY <1>1, <1>2, BoundsAssumption

LEMMA ReceiveTypes == TypeOK /\ Receive => TypeOK'
  <1> SUFFICES ASSUME TypeOK, Receive PROVE TypeOK'
    OBVIOUS
  <1> USE DEF TypeOK
  <1>1. LogOK' /\ RepoOK'
    BY LogFrame, RepoFrame DEF Receive, repo
  <1>2. CASE lagged
    <2>1. lagged' = FALSE /\ Rescan /\ events' = events
      BY <1>2 DEF Receive
    <2>2. ChannelOK'
      BY <2>1 DEF Receive, ChannelOK
    <2> QED BY <1>1, <2>1, <2>2, RescanTypes DEF Receive, WorkOK, work, repo
  <1>3. CASE ~lagged
    <2>1. events # <<>> /\ events' = Tail(events) /\ lagged' = lagged
      BY <1>3 DEF Receive
    <2>2. ChannelOK' /\ Head(events) \in Events
      <3>1. /\ Head(events) \in Events /\ Tail(events) \in Seq(Events)
            /\ Len(Tail(events)) = Len(events) - 1 /\ Len(events) \in Nat
        BY <2>1 DEF ChannelOK
      <3>2. Len(events') <= Capacity
        BY <2>1, <3>1, BoundsAssumption DEF ChannelOK
      <3> QED BY <2>1, <3>1, <3>2 DEF Receive, ChannelOK
    <2>3. MarksOK' /\ at' \in [Callers -> Places] /\ HistoryOK'
      <3>1. CASE Head(events) = Resync
        BY <1>3, <3>1, RescanTypes DEF Receive
      <3>2. CASE Head(events) # Resync
        <4> DEFINE new == [dirty EXCEPT ![Head(events).path] = Head(events).by]
        <4>1. Marks(new) /\ HistoryOK'
          BY <1>3, <3>2, HistoryFrame DEF Receive
        <4>2. new \in Marking
          BY <2>2 DEF MarksOK, Marking, Events
        <4> QED BY <4>1, <4>2, MarksTypes
      <3> QED BY <3>1, <3>2
    <2> QED BY <1>1, <2>2, <2>3 DEF Receive, WorkOK, work, repo
  <1> QED BY <1>2, <1>3

LEMMA WatcherTypes ==
  ASSUME TypeOK
  PROVE  /\ \A p \in Paths, a \in Accounts \cup {External}, gone \in BOOLEAN :
              Change(p, a, gone) => TypeOK'
         /\ \A p \in Paths : Flush(p) => TypeOK'
         /\ FlushFlood => TypeOK'
  <1> USE DEF TypeOK
  <1>1. ASSUME NEW p \in Paths, NEW a \in Accounts \cup {External},
               NEW gone \in BOOLEAN, Change(p, a, gone)
        PROVE  TypeOK'
    <2> DEFINE e == [by |-> a, gone |-> gone]
    <2>1. e \in Entries
      BY MarkingTypes DEF Entries
    <2>2. log' = [log EXCEPT ![p] = Append(@, e)]
      BY <1>1 DEF Change
    <2>3. used' \in Counts /\ used'.changes = used.changes + 1
      <3>1. /\ used.changes \in 0 .. MaxChanges /\ used.calls \in 0 .. MaxCalls
            /\ used.troubles \in 0 .. MaxTroubles /\ used \in Counts
        BY DEF LogOK, Counts
      <3>2. used.changes + 1 \in 0 .. MaxChanges
        BY <1>1, <3>1, BoundsAssumption DEF Change
      <3>3. CASE used' = [used EXCEPT !.changes = @ + 1]
        BY <3>1, <3>2, <3>3 DEF Counts
      <3>4. CASE /\ used.troubles < MaxTroubles
                 /\ used' = [used EXCEPT !.changes = @ + 1, !.troubles = @ + 1]
        <4>1. used.troubles + 1 \in 0 .. MaxTroubles
          BY <3>1, <3>4, BoundsAssumption
        <4> QED BY <3>1, <3>2, <3>4, <4>1 DEF Counts
      <3> QED BY <1>1, <3>3, <3>4 DEF Change
    <2>4. \A q \in Paths : Last(q)' \in {Last(q), Last(q) + 1} /\ Last(q) \in Nat
      BY <2>1, <2>2 DEF LogOK, Last
    <2>5. log' \in [Paths -> Seq(Entries)]
      BY <2>1, <2>2 DEF LogOK
    <2>6. LogOK'
      <3>1. used.changes \in Nat
        BY BoundsAssumption DEF LogOK, Counts
      <3>2. \A q \in Paths : Last(q) <= used.changes + 1
        BY DEF LogOK
      <3>3. \A q \in Paths : Last(q)' <= used'.changes + 1
        BY <2>3, <2>4, <3>1, <3>2
      <3> QED BY <2>3, <2>5, <3>3 DEF LogOK
    <2>7. RepoOK'
      BY SMTT(40), <1>1, <2>4 DEF Change, RepoOK, repo, Versions, Numbers
    <2>8. ChannelOK' /\ HistoryOK'
      BY <1>1 DEF Change, ChannelOK, HistoryOK, channel
    <2>9. MarksOK' /\ WorkOK'
      BY <1>1 DEF Change, MarksOK, WorkOK, marks, work, repo
    <2> QED BY <2>6, <2>7, <2>8, <2>9
  <1>2. ASSUME NEW p \in Paths, Flush(p) PROVE TypeOK'
    <2>1. Attributions(p) \subseteq Author
      BY MarkingTypes DEF Attributions, NotedWriters
    <2>2. PICK by \in Attributions(p) :
            /\ Broadcast([path |-> p, by |-> by])
            /\ excused' = excused \cup NotOf(p, Last(p), by)
      BY <1>2 DEF Flush
    <2>3. [path |-> p, by |-> by] \in Events
      BY <2>1 DEF Events
    <2>4. ChannelOK'
      BY <1>2, <2>2, <2>3, BroadcastTypes DEF Flush, ChannelOK
    <2>5. HistoryOK'
      BY <1>2, <2>2, LastType, NotOfType DEF Flush, HistoryOK
    <2>6. LogOK' /\ RepoOK' /\ MarksOK' /\ WorkOK'
      BY <1>2, LogFrame, RepoFrame, MarksFrame
         DEF Flush, WorkOK, marks, work, repo
    <2> QED BY <2>4, <2>5, <2>6
  <1>3. ASSUME FlushFlood PROVE TypeOK'
    <2>1. Resync \in Events
      BY MarkingTypes DEF Resync, Events
    <2>2. raw' \subseteq raw /\ Broadcast(Resync)
      BY <1>3 DEF FlushFlood
    <2>3. ChannelOK'
      BY <2>1, <2>2, BroadcastTypes DEF ChannelOK
    <2>4. LogOK' /\ RepoOK' /\ MarksOK' /\ WorkOK' /\ HistoryOK'
      BY <1>3, LogFrame, RepoFrame, MarksFrame, HistoryFrame
         DEF FlushFlood, WorkOK, marks, work, repo
    <2> QED BY <2>3, <2>4
  <1> QED BY <1>1, <1>2, <1>3

LEMMA CommitterTypes ==
  ASSUME TypeOK, NEW j \in Callers
  PROVE  /\ CommitNow(j) => TypeOK'
         /\ \A by \in Author : CommitGroup(j, by) \/ GroupFails(j, by) => TypeOK'
         /\ GroupsDone(j) => TypeOK'
  <1> USE DEF TypeOK
  <1>1. \A by \in Author : Group(j, by) \in SUBSET Paths
                          /\ Without(j, by) \in [Callers -> Marking]
    BY DEF Group, Without, WorkOK, Marking
  <1>2. ASSUME CommitNow(j) PROVE TypeOK'
    <2>1. /\ LogOK' /\ RepoOK' /\ HistoryOK'
          /\ first' \in {None} \cup SUBSET Paths
      BY <1>2, SnapshotTypes DEF CommitNow, outside
    <2>2. ChannelOK' /\ MarksOK'
      BY <1>2, MarkingTypes, ChannelFrame
         DEF CommitNow, MarksOK, outside, channel
    <2>3. at' \in [Callers -> Places]
      BY <1>2, AtType DEF CommitNow, Places
    <2>4. batch' \in [Callers -> Marking]
      BY <1>2 DEF CommitNow, WorkOK, MarksOK
    <2> QED BY <1>2, <2>1, <2>2, <2>3, <2>4 DEF CommitNow, WorkOK
  <1>3. ASSUME NEW by \in Author, CommitGroup(j, by) PROVE TypeOK'
    <2>1. LogOK' /\ RepoOK' /\ HistoryOK'
      BY <1>1, <1>3, CommitTypes, LogFrame DEF CommitGroup, outside
    <2>2. ChannelOK' /\ MarksOK'
      BY <1>3, ChannelFrame, MarksFrame DEF CommitGroup, outside, channel, marks
    <2>3. WorkOK'
      BY <1>1, <1>3 DEF CommitGroup, WorkOK
    <2> QED BY <2>1, <2>2, <2>3
  <1>4. ASSUME NEW by \in Author, GroupFails(j, by) PROVE TypeOK'
    <2>1. LogOK' /\ RepoOK' /\ HistoryOK'
      BY <1>1, <1>4, FailsTypes DEF GroupFails, outside
    <2>2. ChannelOK'
      BY <1>4, ChannelFrame DEF GroupFails, outside, channel
    <2>3. MarksOK'
      BY <1>4 DEF GroupFails, PutBack, MarksOK, Marking
    <2>4. WorkOK'
      BY <1>1, <1>4, AtType DEF GroupFails, WorkOK
    <2> QED BY <2>1, <2>2, <2>3, <2>4
  <1>5. ASSUME GroupsDone(j) PROVE TypeOK'
    <2>1. LogOK' /\ RepoOK' /\ HistoryOK' /\ ChannelOK' /\ MarksOK'
      BY <1>5, LogFrame, RepoFrame, HistoryFrame, ChannelFrame, MarksFrame
         DEF GroupsDone, outside, channel, marks, repo
    <2>2. After(j) \in Places
      BY DEF After, WorkOK, Rests, Places
    <2>3. at' \in [Callers -> Places]
      BY <1>5, <2>2, AtType DEF GroupsDone
    <2>4. rest' \in [Callers -> Rests]
      BY <1>5 DEF GroupsDone, WorkOK, Rests
    <2> QED BY <1>5, <2>1, <2>3, <2>4 DEF GroupsDone, WorkOK, repo
  <1> QED BY <1>2, <1>3, <1>4, <1>5

\* Steps that only move a thread on.
MovesOn ==
  \/ Stopped \/ Sleep \/ Wake \/ Join
  \/ \E commit, sweep \in BOOLEAN : Due(commit, sweep)

LEMMA MovesOnFrame ==
  MovesOn => UNCHANGED <<outside, marks, batch, stopping, repo, history, used>>
  BY DEF MovesOn, Stopped, Sleep, Wake, Join, Due, work

LEMMA MovesOnTypes == TypeOK /\ MovesOn => TypeOK'
  <1> SUFFICES ASSUME TypeOK, MovesOn PROVE TypeOK'
    OBVIOUS
  <1> USE DEF TypeOK
  <1>1. LogOK' /\ RepoOK' /\ HistoryOK' /\ ChannelOK' /\ MarksOK'
    BY MovesOnFrame, LogFrame, RepoFrame, HistoryFrame, ChannelFrame, MarksFrame
       DEF outside, channel, marks, repo
  <1>2. at' \in [Callers -> Places]
    BY AtType DEF MovesOn, Stopped, Sleep, Wake, Join, Due, Places, Callers
  <1>3. rest' \in [Callers -> Rests]
    BY DEF MovesOn, Stopped, Sleep, Wake, Join, Due, Rests, WorkOK, work
  <1> QED BY <1>1, <1>2, <1>3, MovesOnFrame DEF WorkOK, repo

LEMMA ThreadTypes ==
  TypeOK /\ (FirstPass \/ Sweep \/ SnapshotAll) => TypeOK'
  <1> SUFFICES ASSUME TypeOK, FirstPass \/ Sweep \/ SnapshotAll PROVE TypeOK'
    OBVIOUS
  <1> USE DEF TypeOK
  <1>1. ChannelOK' /\ MarksOK'
    BY ChannelFrame, MarksFrame
       DEF FirstPass, Sweep, SnapshotAll, outside, channel, marks
  <1>2. at' \in [Callers -> Places]
    BY AtType DEF FirstPass, Sweep, SnapshotAll, Places, Callers
  <1>3. CASE FirstPass
    <2>1. /\ LogOK' /\ RepoOK' /\ HistoryOK'
          /\ first' \in {None} \cup SUBSET Paths
      BY <1>3, SnapshotTypes DEF FirstPass, outside
    <2> QED BY <1>1, <1>2, <1>3, <2>1 DEF FirstPass, WorkOK, work
  <1>4. CASE Sweep \/ SnapshotAll
    <2>1. LogOK' /\ RepoOK' /\ HistoryOK'
      BY <1>4, CommitAllTypes, LogFrame, RepoFrame, HistoryFrame
         DEF Sweep, SnapshotAll, outside
    <2> QED BY <1>1, <1>2, <1>4, <2>1 DEF Sweep, SnapshotAll, WorkOK, work
  <1> QED BY <1>3, <1>4

LEMMA CallTypes == TypeOK /\ (Snapshot \/ Stop) => TypeOK'
  <1> SUFFICES ASSUME TypeOK, Snapshot \/ Stop PROVE TypeOK'
    OBVIOUS
  <1> USE DEF TypeOK
  <1>1. LogOK' /\ RepoOK' /\ HistoryOK' /\ ChannelOK' /\ MarksOK'
    BY LogCall, RepoFrame, HistoryFrame, ChannelFrame, MarksFrame
       DEF Snapshot, Stop, outside, channel, marks, repo
  <1>2. at' \in [Callers -> Places]
    BY AtType DEF Snapshot, Stop, Places, Callers
  <1>3. rest' \in [Callers -> Rests] /\ stopping' \in BOOLEAN
    BY DEF Snapshot, Stop, Rests, WorkOK
  <1> QED BY <1>1, <1>2, <1>3 DEF Snapshot, Stop, WorkOK, repo

LEMMA FreshTypes == TypeOK /\ (Restart \/ Crash) => TypeOK'
  <1> SUFFICES ASSUME TypeOK, Restart \/ Crash PROVE TypeOK'
    OBVIOUS
  <1> USE DEF TypeOK
  <1>1. Fresh
    BY DEF Restart, Crash
  <1>2. LogOK'
    BY <1>1, LogFrame, LogTrouble DEF Restart, Crash, Fresh
  <1>3. RepoOK'
    BY <1>1, RepoFrame DEF Fresh
  <1>4. HistoryOK'
    BY <1>1 DEF Fresh, HistoryOK, Unclean, Uncommitted
  <1>5. ChannelOK' /\ MarksOK'
    BY <1>1, MarkingTypes, EmptyChannel DEF Fresh, ChannelOK, MarksOK
  <1>6. WorkOK'
    BY <1>1, MarkingTypes DEF Fresh, WorkOK, Places, Rests
  <1> QED BY <1>2, <1>3, <1>4, <1>5, <1>6

\* Everything the engine and the watcher keep has its type: the channel is
\* within its capacity, git never holds a change that has not happened.
THEOREM Types == Spec => []TypeOK
  <1>1. Init => TypeOK
    <2> SUFFICES ASSUME Init PROVE TypeOK
      OBVIOUS
    <2> USE DEF TypeOK
    <2>1. \A p \in Paths : Last(p) \in {0, 1} /\ log[p] \in Seq(Entries)
      <3> DEFINE e == [by |-> External, gone |-> FALSE]
      <3>1. e \in Entries
        BY MarkingTypes DEF Entries
      <3>2. <<e>> \in Seq(Entries) /\ Len(<<e>>) = 1
        BY <3>1
      <3>3. \A p \in Paths : log[p] \in {<<>>, <<e>>}
        BY DEF Init
      <3> QED BY <3>2, <3>3, EmptyChannel DEF Last
    <2>2. LogOK
      <3>1. used \in Counts /\ used.changes = 0
        BY BoundsAssumption DEF Init, Counts
      <3>2. log \in [Paths -> Seq(Entries)]
        BY <2>1 DEF Init
      <3> QED BY <2>1, <3>1, <3>2 DEF LogOK
    <2>3. RepoOK
      <3>1. \A p \in Paths : head[p] \in {0, Last(p)} /\ index[p] = head[p]
        BY DEF Init
      <3>2. head \in Versions /\ index \in Versions
        BY <2>1, BoundsAssumption DEF Init, Versions, Numbers
      <3> QED BY <2>1, <3>1, <3>2 DEF RepoOK
    <2>4. ChannelOK /\ MarksOK /\ HistoryOK
      BY MarkingTypes, EmptyChannel DEF Init, ChannelOK, MarksOK, HistoryOK
    <2>5. WorkOK
      BY MarkingTypes DEF Init, WorkOK, Places, Rests
    <2> QED BY <2>2, <2>3, <2>4, <2>5
  <1>2. TypeOK /\ [Next]_vars => TypeOK'
    <2> SUFFICES ASSUME TypeOK, [Next]_vars PROVE TypeOK'
      OBVIOUS
    <2>1. CASE UNCHANGED vars
      BY <2>1, LogFrame, RepoFrame, HistoryFrame, ChannelFrame, MarksFrame
         DEF vars, outside, channel, marks, work, repo, TypeOK, WorkOK
    <2>2. CASE Next
      BY <2>2, WatcherTypes, ReceiveTypes, CommitterTypes, MovesOnTypes,
         ThreadTypes, CallTypes, FreshTypes
         DEF Next, Committer, MovesOn
    <2> QED BY <2>1, <2>2
  <1> QED BY <1>1, <1>2, PTL DEF Spec

-----------------------------------------------------------------------------
(* No wake-up is lost.                                                     *)

Woken ==
  /\ dirty # NoMarks => marked
  /\ at["thread"] = "parked" => ~marked

LEMMA MarksWake ==
  ASSUME WorkOK, Woken, NEW new, Marks(new)
  PROVE  Woken'
  <1>1. Notified["thread"] # "parked"
    BY DEF Notified, WorkOK, Callers
  <1> QED BY <1>1 DEF Marks, Woken

\* The history thread never waits for the next sweep while a path is marked,
\* whoever marks it and whoever fails to commit it.
THEOREM NoWakeUpLost == Spec => []ParkedMeansIdle
  <1>1. Init => Woken
    BY DEF Init, Woken, Callers
  <1>2. TypeOK /\ Woken /\ [Next]_vars => Woken'
    <2> SUFFICES ASSUME TypeOK, Woken, [Next]_vars PROVE Woken'
      OBVIOUS
    <2>0. /\ WorkOK /\ MarksOK
          /\ \A j \in Callers : \A s : [at EXCEPT ![j] = s]["thread"] =
                                     IF j = "thread" THEN s ELSE at["thread"]
      BY DEF TypeOK, WorkOK, Callers
    <2>1. Notified["thread"] # "parked"
      BY <2>0 DEF Notified, WorkOK, Callers
    <2>2. CASE UNCHANGED vars
      BY <2>2 DEF vars, marks, Woken
    <2>3. CASE \E p \in Paths :
                 \/ \E a \in Accounts \cup {External}, gone \in BOOLEAN :
                      Change(p, a, gone)
                 \/ Flush(p)
      <3>1. UNCHANGED <<marks, at>>
        BY <2>3 DEF Change, Flush
      <3> QED BY <3>1 DEF marks, Woken
    <2>4. CASE FlushFlood
      BY <2>4 DEF FlushFlood, marks, Woken
    <2>5. CASE Receive
      <3>1. \E new : Marks(new)
        BY <2>5 DEF Receive, Rescan
      <3> QED BY <2>0, <3>1, MarksWake
    <2>6. ASSUME NEW j \in Callers, CommitNow(j) PROVE Woken'
      BY <2>0, <2>6 DEF CommitNow, Woken
    <2>7. ASSUME NEW j \in Callers, NEW by \in Author, CommitGroup(j, by)
          PROVE  Woken'
      BY <2>7 DEF CommitGroup, marks, Woken
    <2>8. ASSUME NEW j \in Callers, NEW by \in Author, GroupFails(j, by)
          PROVE  Woken'
      BY <2>1, <2>8 DEF GroupFails, Woken
    <2>9. ASSUME NEW j \in Callers, GroupsDone(j) PROVE Woken'
      <3>1. After(j) # "parked"
        BY <2>0 DEF After, WorkOK, Rests
      <3> QED BY <2>0, <2>9, <3>1 DEF GroupsDone, marks, Woken
    <2>10. CASE FirstPass \/ Sweep \/ Stopped \/ Wake
      BY <2>0, <2>10 DEF FirstPass, Sweep, Stopped, Wake, Callers, marks, Woken
    <2>11. CASE \E commit, sweep \in BOOLEAN : Due(commit, sweep)
      BY <2>0, <2>11 DEF Due, Callers, marks, Woken
    <2>12. CASE Sleep
      BY <2>0, <2>12 DEF Sleep, Callers, marks, Woken
    <2>13. CASE Snapshot \/ SnapshotAll \/ Join
      BY <2>0, <2>13 DEF Snapshot, SnapshotAll, Join, Callers, marks, Woken
    <2>14. CASE Stop
      <3>1. at'["thread"] = Notified["thread"]
        BY <2>0, <2>14 DEF Stop, Notified, WorkOK, Callers
      <3> QED BY <2>1, <2>14, <3>1 DEF Stop, marks, Woken
    <2>15. CASE Restart \/ Crash
      BY <2>15 DEF Restart, Crash, Fresh, Callers, Woken
    <2> QED BY <2>2, <2>3, <2>4, <2>5, <2>6, <2>7, <2>8, <2>9, <2>10, <2>11,
               <2>12, <2>13, <2>14, <2>15 DEF Next, Committer
  <1>3. Woken => ParkedMeansIdle
    BY DEF Woken, ParkedMeansIdle
  <1> QED BY <1>1, <1>2, <1>3, Types, PTL DEF Spec

-----------------------------------------------------------------------------
(* Nothing is forgotten.                                                   *)

ToSnapshot(p) == first # None /\ p \in first /\ Exists(p)
InBatch(p) == \E j \in Callers : batch[j][p] # None
BatchesAtRest == \A j \in Callers : at[j] # "groups" => batch[j] = NoMarks

Traced ==
  /\ \A p \in Unclean : OnItsWay(p) \/ InBatch(p) \/ ToSnapshot(p)
  /\ BatchesAtRest

LEMMA TextFrame ==
  ASSUME UNCHANGED log
  PROVE  \A p : /\ Exists(p)' = Exists(p) /\ Last(p)' = Last(p)
                /\ \A k : Text(p, k)' = Text(p, k)
  BY DEF Exists, Text, Last

LEMMA UncleanSet ==
  \A p \in Paths : p \in Unclean <=> \/ Text(p, Last(p)) # Text(p, index[p])
                                     \/ Text(p, Last(p)) # Text(p, head[p])
  BY DEF Unclean, Uncommitted

LEMMA UncleanSetNext ==
  ASSUME UNCHANGED log
  PROVE  \A p \in Paths :
           p \in Unclean' <=> \/ Text(p, Last(p)) # Text(p, index'[p])
                              \/ Text(p, Last(p)) # Text(p, head'[p])
  BY DEF Unclean, Uncommitted, Text, Last

LEMMA UncleanPaths == Unclean \subseteq Paths /\ Unclean' \subseteq Paths
  BY DEF Unclean, Uncommitted

LEMMA UncleanFrame == UNCHANGED <<log, index, head>> => Unclean' = Unclean
  BY DEF Unclean, Uncommitted, Text, Last

\* A commit leaves only what it has not staged, and that was unclean before.
LEMMA CommitKeeps ==
  ASSUME NEW S \in SUBSET Paths, NEW by, Commit(S, by), UNCHANGED log
  PROVE  \A p \in Unclean' : p \in Unclean /\ p \notin S /\ (p \in missed => p \in missed')
  <1> SUFFICES ASSUME NEW p \in Unclean'
               PROVE  p \in Unclean /\ p \notin S /\ (p \in missed => p \in missed')
    OBVIOUS
  <1>1. p \in Paths
    BY UncleanPaths
  <1>2. index'[p] = Stage(S)[p] /\ head'[p] \in {head[p], Stage(S)[p]}
    BY DEF Commit
  <1>3. Text(p, head'[p]) = Text(p, Stage(S)[p])
    BY <1>1 DEF Commit, New
  <1>4. Text(p, Last(p)) # Text(p, Stage(S)[p])
    BY <1>1, <1>2, <1>3, UncleanSetNext
  <1>5. p \notin S /\ Stage(S)[p] = index[p]
    BY <1>1, <1>4 DEF Stage
  <1>6. p \in Unclean
    BY <1>1, <1>4, <1>5, UncleanSet
  <1>7. p \in missed => p \in missed'
    BY <1>4 DEF Commit
  <1> QED BY <1>5, <1>6, <1>7

\* A failed commit leaves nothing unclean that was not.
LEMMA FailsKeeps ==
  ASSUME NEW S \in SUBSET Paths, UNCHANGED <<log, head>>,
         index' \in {index, Stage(S)}
  PROVE  Unclean' \subseteq Unclean
  <1>1. \A p \in Paths : index'[p] \in {index[p], Last(p)}
    BY DEF Stage
  <1> QED BY <1>1, UncleanPaths, UncleanSet, UncleanSetNext

LEMMA CommitAllKeeps ==
  ASSUME NEW by, CommitAll(by), UNCHANGED log
  PROVE  \A p \in Unclean' : p \in Unclean /\ (p \in missed => p \in missed')
  <1>1. CASE Commit(Paths, by)
    BY <1>1, CommitKeeps
  <1>2. CASE index' \in {index, Stage(Paths)} /\ UNCHANGED <<head, history>>
    BY <1>2, FailsKeeps DEF history
  <1> QED BY <1>1, <1>2 DEF CommitAll

LEMMA SnapshotKeeps ==
  ASSUME WorkOK, InitialSnapshot, UNCHANGED log
  PROVE  \A p \in Unclean' :
           /\ p \in Unclean
           /\ p \in missed => p \in missed'
           /\ ToSnapshot(p) => ToSnapshot(p)'
  <1> DEFINE S == IF first = None THEN {} ELSE {p \in first : Exists(p)}
  <1>1. S \in SUBSET Paths /\ \A p : ToSnapshot(p) => p \in S
    BY DEF WorkOK, ToSnapshot
  <1>2. \/ S = {} /\ UNCHANGED <<index, head, history>>
        \/ Commit(S, System)
        \/ CommitFails(S) /\ UNCHANGED first
    BY DEF InitialSnapshot
  <1> HIDE DEF S
  <1>3. CASE S = {} /\ UNCHANGED <<index, head, history>>
    BY <1>1, <1>3, UncleanFrame DEF history
  <1>4. CASE Commit(S, System)
    BY <1>1, <1>4, CommitKeeps
  <1>5. CASE CommitFails(S) /\ UNCHANGED first
    <2>1. /\ UNCHANGED <<head, history>>
          /\ index' \in {index, Stage(S)}
      BY <1>5 DEF CommitFails
    <2>2. Unclean' \subseteq Unclean
      BY <1>1, <2>1, FailsKeeps
    <2>3. \A p : ToSnapshot(p) => ToSnapshot(p)'
      BY <1>5, TextFrame DEF ToSnapshot
    <2> QED BY <2>1, <2>2, <2>3 DEF history
  <1> QED BY <1>2, <1>3, <1>4, <1>5

\* What is on its way stays there while nothing takes it.
LEMMA WayFrame ==
  ASSUME UNCHANGED <<raw, channel>>
  PROVE  \A p : /\ InChannel(p) => InChannel(p)'
                /\ ( /\ (p \in missed => p \in missed')
                     /\ (dirty[p] # None => dirty'[p] # None)
                     /\ OnItsWay(p) )
                   => OnItsWay(p)'
  BY DEF OnItsWay, InChannel, channel

LEMMA BroadcastKeeps ==
  ASSUME ChannelOK, NEW ev \in Events, Broadcast(ev)
  PROVE  \A p : InChannel(p) \/ ev = Resync \/ ev.path = p => InChannel(p)'
  <1>1. CASE Len(events) < Capacity
    <2>1. /\ events' = Append(events, ev) /\ lagged' = lagged
          /\ events \in Seq(Events) /\ Len(events) \in Nat
      BY <1>1 DEF Broadcast, ChannelOK
    <2>2. /\ Len(events') = Len(events) + 1
          /\ events'[Len(events) + 1] = ev
          /\ \A i \in 1 .. Len(events) : events'[i] = events[i]
      BY <2>1
    <2>3. /\ Len(events) + 1 \in 1 .. Len(events')
          /\ \A i \in 1 .. Len(events) : i \in 1 .. Len(events')
      BY <2>1, <2>2
    <2> QED BY <2>1, <2>2, <2>3 DEF InChannel
  <1>2. CASE ~(Len(events) < Capacity)
    BY <1>2 DEF Broadcast, InChannel
  <1> QED BY <1>1, <1>2

LEMMA SnapshotFrame ==
  ASSUME UNCHANGED <<log, first>>
  PROVE  \A p : ToSnapshot(p)' = ToSnapshot(p)
  BY TextFrame DEF ToSnapshot

LEMMA RestFrame ==
  ASSUME BatchesAtRest, UNCHANGED batch,
         \A j \in Callers : at[j] = "groups" => at'[j] = "groups"
  PROVE  BatchesAtRest'
  BY DEF BatchesAtRest

LEMMA ChangeTraced ==
  ASSUME TypeOK, Traced, NEW p \in Paths, NEW a, NEW gone, Change(p, a, gone)
  PROVE  Traced'
  <1>1. BatchesAtRest'
    BY RestFrame DEF Traced, Change, work
  <1>2. OnItsWay(p)'
    BY DEF Change, OnItsWay, HistoryOK, ChannelOK, TypeOK
  <1>3. ASSUME NEW q \in Unclean', q # p
        PROVE  OnItsWay(q)' \/ InBatch(q)' \/ ToSnapshot(q)'
    <2>1. q \in Paths
      BY UncleanPaths
    <2>2. log'[q] = log[q]
      BY <1>3, <2>1 DEF Change, TypeOK, LogOK
    <2>3. /\ Exists(q)' = Exists(q)
          /\ q \in Unclean
      BY <1>3, <2>1, <2>2
         DEF Change, Unclean, Uncommitted, Exists, Text, Last, repo
    <2>4. raw \subseteq raw' /\ missed \subseteq missed'
      BY DEF Change
    <2>5. OnItsWay(q) => OnItsWay(q)'
      BY <2>4 DEF Change, OnItsWay, InChannel, channel, marks
    <2>6. (InBatch(q) => InBatch(q)') /\ (ToSnapshot(q) => ToSnapshot(q)')
      BY <2>3 DEF Change, InBatch, ToSnapshot, work, repo
    <2> QED BY <2>3, <2>5, <2>6 DEF Traced
  <1> QED BY <1>1, <1>2, <1>3 DEF Traced

LEMMA FlushTraced ==
  ASSUME TypeOK, Traced, FlushFlood \/ \E p \in Paths : Flush(p)
  PROVE  Traced'
  <1>1. /\ UNCHANGED <<log, index, head, first, missed, dirty, at, batch>>
        /\ Unclean' = Unclean
    BY UncleanFrame DEF Flush, FlushFlood, marks, work, repo, history
  <1>2. BatchesAtRest'
    BY <1>1, RestFrame DEF Traced
  <1>3. PICK ev \in Events :
          /\ Broadcast(ev)
          /\ \A q \in raw \ raw' : ev = Resync \/ ev.path = q
    <2>1. CASE FlushFlood
      <3>1. Resync \in Events
        BY MarkingTypes DEF Resync, Events
      <3> QED BY <2>1, <3>1 DEF FlushFlood
    <2>2. ASSUME NEW p \in Paths, Flush(p)
          PROVE  \E ev \in Events : Broadcast(ev) /\ \A q \in raw \ raw' : ev.path = q
      <3>1. PICK by \in Attributions(p) : Broadcast([path |-> p, by |-> by])
        BY <2>2 DEF Flush
      <3>2. [path |-> p, by |-> by] \in Events
        BY MarkingTypes DEF Attributions, NotedWriters, Events
      <3>3. \A q \in raw \ raw' : q = p
        BY <2>2 DEF Flush
      <3> QED BY <3>1, <3>2, <3>3
    <2> QED BY <2>1, <2>2
  <1>4. \A q : OnItsWay(q) => OnItsWay(q)'
    BY <1>1, <1>3, BroadcastKeeps DEF OnItsWay, TypeOK
  <1> QED BY <1>1, <1>2, <1>4, SnapshotFrame DEF Traced, InBatch

\* After a rescan no unclean path is unknown.
LEMMA RescanTraces ==
  ASSUME MarksOK, Rescan, NEW q \in Paths
  PROVE  OnItsWay(q)'
  <1>1. dirty' = Rescanned
    BY DEF Rescan, Marks
  <1>2. CASE Exists(q) \/ dirty[q] # None
    BY <1>1, <1>2, NamesAssumption, MarkingTypes DEF Rescanned, OnItsWay
  <1>3. CASE ~Exists(q) /\ dirty[q] = None
    BY <1>3 DEF Rescan, OnItsWay
  <1> QED BY <1>2, <1>3

LEMMA ReceiveTraced ==
  ASSUME TypeOK, Traced, Receive
  PROVE  Traced'
  <1>1. /\ UNCHANGED <<log, index, head, first, batch, raw>>
        /\ Unclean' = Unclean
    BY UncleanFrame DEF Receive, work, repo
  <1>2. BatchesAtRest'
    <2>1. at' \in {at, Notified}
      BY DEF Receive, Rescan, Marks
    <2>2. \A j \in Callers : at[j] = "groups" => at'[j] = "groups"
      BY <2>1 DEF Notified, TypeOK, WorkOK
    <2> QED BY <1>1, <2>2, RestFrame DEF Traced
  <1>3. CASE Rescan
    BY <1>1, <1>2, <1>3, RescanTraces, UncleanPaths DEF Traced, TypeOK
  <1>4. CASE ~Rescan
    <2> DEFINE ev == Head(events)
    <2>1. /\ ~lagged /\ events # <<>> /\ events' = Tail(events)
          /\ ev # Resync /\ Marks([dirty EXCEPT ![ev.path] = ev.by])
          /\ UNCHANGED history
      BY <1>4 DEF Receive
    <2>2. /\ ev \in Events /\ ev = events[1] /\ Len(events) \in Nat
          /\ \A i \in 1 .. Len(events) :
               i # 1 => /\ i - 1 \in 1 .. Len(events')
                        /\ events'[i - 1] = events[i]
      <3>1. events \in Seq(Events)
        BY DEF TypeOK, ChannelOK
      <3>2. /\ Len(events) \in Nat \ {0} /\ ev = events[1] /\ ev \in Events
            /\ \A i \in 1 .. Len(events) : events[i] \in Events
        BY <2>1, <3>1
      <3>3. /\ Len(events') = Len(events) - 1
            /\ \A i \in 1 .. Len(events') : events'[i] = events[i + 1]
        BY <2>1, <3>1
      <3>4. ASSUME NEW i \in 1 .. Len(events), i # 1
            PROVE  i - 1 \in 1 .. Len(events') /\ events'[i - 1] = events[i]
        <4>1. i - 1 \in 1 .. Len(events') /\ (i - 1) + 1 = i
          BY <3>2, <3>3, <3>4
        <4>2. events'[i - 1] = events[(i - 1) + 1]
          BY <3>3, <4>1
        <4> QED BY <4>1, <4>2
      <3> QED BY <3>2, <3>4
    <2>3. /\ dirty' = [dirty EXCEPT ![ev.path] = ev.by]
          /\ ev.by # None
      BY <2>1, <2>2, NamesAssumption DEF Marks, Events
    <2>4. ASSUME NEW q \in Paths, OnItsWay(q) PROVE OnItsWay(q)'
      <3> HIDE DEF ev
      <3>1. CASE InChannel(q)
        <4>1. ev.path = q \/ InChannel(q)'
          BY <2>1, <2>2, <3>1 DEF InChannel
        <4>2. ev.path = q => dirty'[q] # None
          BY <2>3 DEF TypeOK, MarksOK, Marking
        <4> QED BY <4>1, <4>2 DEF OnItsWay
      <3>2. CASE dirty[q] # None
        BY <2>3, <3>2 DEF TypeOK, MarksOK, Marking, OnItsWay
      <3>3. CASE q \in raw \cup missed
        BY <1>1, <2>1, <3>3 DEF OnItsWay, history
      <3> QED BY <2>4, <3>1, <3>2, <3>3 DEF OnItsWay
    <2> QED BY <1>1, <1>2, <2>4, SnapshotFrame, UncleanPaths DEF Traced, InBatch
  <1> QED BY <1>3, <1>4

LEMMA CommitterTraced ==
  ASSUME TypeOK, Traced, NEW j \in Callers
  PROVE  /\ CommitNow(j) => Traced'
         /\ \A by \in Author : CommitGroup(j, by) \/ GroupFails(j, by) => Traced'
         /\ GroupsDone(j) => Traced'
  <1>1. \A by \in Author :
          /\ Group(j, by) \in SUBSET Paths
          /\ \A i \in Callers, p \in Paths :
               batch[i][p] # None => \/ Without(j, by)[i][p] # None
                                     \/ i = j /\ p \in Group(j, by)
          /\ \A i \in Callers : i # j => Without(j, by)[i] = batch[i]
    <2> SUFFICES ASSUME NEW by \in Author
                 PROVE  /\ Group(j, by) \in SUBSET Paths
                        /\ \A i \in Callers, p \in Paths :
                             batch[i][p] # None => \/ Without(j, by)[i][p] # None
                                                   \/ i = j /\ p \in Group(j, by)
                        /\ \A i \in Callers : i # j => Without(j, by)[i] = batch[i]
      OBVIOUS
    <2>1. batch \in [Callers -> [Paths -> Author \cup {None}]]
      BY DEF TypeOK, WorkOK, Marking
    <2>2. \A i \in Callers : i # j => Without(j, by)[i] = batch[i]
      BY <2>1 DEF Without
    <2>3. Without(j, by)[j] = [p \in Paths |-> IF batch[j][p] = by THEN None
                                              ELSE batch[j][p]]
      BY <2>1 DEF Without
    <2>4. \A p \in Paths : batch[j][p] # None =>
            Without(j, by)[j][p] # None \/ p \in Group(j, by)
      BY <2>3 DEF Group
    <2> QED BY <2>2, <2>4 DEF Group
  <1>2. ASSUME CommitNow(j) PROVE Traced'
    <2>1. batch[j] = NoMarks /\ batch' = [batch EXCEPT ![j] = dirty]
      BY <1>2 DEF CommitNow, Traced, BatchesAtRest
    <2>2. BatchesAtRest'
      BY <1>2, <2>1 DEF CommitNow, Traced, BatchesAtRest, TypeOK, WorkOK
    <2>3. \A p \in Paths : InBatch(p) \/ dirty[p] # None => InBatch(p)'
      BY <2>1 DEF InBatch, NoMarks, TypeOK, WorkOK
    <2>4. \A p \in Unclean' : /\ p \in Unclean
                              /\ p \in missed => p \in missed'
                              /\ ToSnapshot(p) => ToSnapshot(p)'
      BY <1>2, SnapshotKeeps DEF CommitNow, outside, TypeOK
    <2>5. \A p \in Unclean' : OnItsWay(p) => OnItsWay(p)' \/ dirty[p] # None
      <3>1. UNCHANGED <<raw, channel>>
        BY <1>2 DEF CommitNow, outside
      <3>2. \A p : InChannel(p) => InChannel(p)'
        BY <3>1, WayFrame
      <3> QED BY <2>4, <3>1, <3>2 DEF OnItsWay
    <2>6. ASSUME NEW p \in Unclean'
          PROVE  OnItsWay(p)' \/ InBatch(p)' \/ ToSnapshot(p)'
      <3>1. p \in Paths /\ (OnItsWay(p) \/ InBatch(p) \/ ToSnapshot(p))
        BY <2>4, <2>6, UncleanPaths DEF Traced
      <3> QED BY <2>3, <2>4, <2>5, <2>6, <3>1
    <2> QED BY <2>2, <2>6 DEF Traced
  <1>3. ASSUME NEW by \in Author, CommitGroup(j, by) PROVE Traced'
    <2>1. /\ batch' = Without(j, by) /\ UNCHANGED <<outside, marks, at, first>>
          /\ Commit(Group(j, by), by)
      BY <1>3 DEF CommitGroup
    <2>2. BatchesAtRest'
      BY <1>1, <1>3, <2>1 DEF CommitGroup, Traced, BatchesAtRest
    <2>3. \A p \in Unclean' : /\ p \in Unclean /\ p \notin Group(j, by)
                              /\ p \in missed => p \in missed'
      BY <1>1, <2>1, CommitKeeps DEF outside
    <2>4. ASSUME NEW p \in Unclean', InBatch(p) PROVE InBatch(p)'
      <3>1. PICK i \in Callers : batch[i][p] # None
        BY <2>4 DEF InBatch
      <3>2. p \in Paths /\ p \notin Group(j, by)
        BY <2>3, <2>4, UncleanPaths
      <3>3. batch'[i][p] # None
        BY <1>1, <2>1, <3>1, <3>2
      <3> QED BY <3>3 DEF InBatch
    <2>5. ASSUME NEW p \in Unclean', OnItsWay(p) PROVE OnItsWay(p)'
      <3>1. UNCHANGED <<raw, channel, dirty>> /\ (p \in missed => p \in missed')
        BY <2>1, <2>3, <2>5 DEF outside, marks
      <3> QED BY <2>5, <3>1, WayFrame
    <2>6. \A p : ToSnapshot(p)' = ToSnapshot(p)
      BY <2>1, SnapshotFrame DEF outside
    <2>7. ASSUME NEW p \in Unclean'
          PROVE  OnItsWay(p)' \/ InBatch(p)' \/ ToSnapshot(p)'
      <3>1. OnItsWay(p) \/ InBatch(p) \/ ToSnapshot(p)
        BY <2>3, <2>7 DEF Traced
      <3> QED BY <2>4, <2>5, <2>6, <2>7, <3>1
    <2> QED BY <2>2, <2>7 DEF Traced
  <1>4. ASSUME NEW by \in Author, GroupFails(j, by) PROVE Traced'
    <2>1. /\ batch' = Without(j, by) /\ UNCHANGED <<outside, first>>
          /\ dirty' = PutBack(j, by) /\ at' = Notified
          /\ CommitFails(Group(j, by))
      BY <1>4 DEF GroupFails
    <2>2. BatchesAtRest'
      <3>1. \A i \in Callers : at[i] = "groups" => at'[i] = "groups"
        BY <2>1 DEF Notified, TypeOK, WorkOK
      <3> QED BY <1>1, <1>4, <2>1, <3>1 DEF GroupFails, Traced, BatchesAtRest
    <2>3. /\ UNCHANGED <<log, head, missed>>
          /\ index' \in {index, Stage(Group(j, by))}
      BY <2>1 DEF CommitFails, outside, history
    <2>4. Unclean' \subseteq Unclean
      BY <1>1, <2>3, FailsKeeps
    <2>5. \A p \in Paths : /\ dirty[p] # None => dirty'[p] # None
                           /\ p \in Group(j, by) => dirty'[p] # None
      BY <2>1, NamesAssumption DEF PutBack
    <2>6. ASSUME NEW p \in Paths, OnItsWay(p) PROVE OnItsWay(p)'
      <3>1. UNCHANGED <<raw, channel, missed>>
        BY <2>1, <2>3 DEF outside
      <3>2. dirty[p] # None => dirty'[p] # None
        BY <2>5, <2>6
      <3> QED BY <2>6, <3>1, <3>2, WayFrame
    <2>7. ASSUME NEW p \in Paths, InBatch(p) PROVE InBatch(p)' \/ OnItsWay(p)'
      <3>1. PICK i \in Callers : batch[i][p] # None
        BY <2>7 DEF InBatch
      <3>2. batch'[i][p] # None \/ p \in Group(j, by)
        BY <1>1, <2>1, <3>1
      <3> QED BY <2>5, <3>2 DEF InBatch, OnItsWay
    <2>8. \A p : ToSnapshot(p)' = ToSnapshot(p)
      BY <2>1, SnapshotFrame DEF outside
    <2> QED BY <2>2, <2>4, <2>6, <2>7, <2>8, UncleanPaths DEF Traced
  <1>5. ASSUME GroupsDone(j) PROVE Traced'
    <2>1. UNCHANGED <<outside, marks, batch, repo, history>>
      BY <1>5 DEF GroupsDone
    <2>2. BatchesAtRest'
      BY <1>5, <2>1 DEF GroupsDone, Traced, BatchesAtRest, TypeOK, WorkOK
    <2>3. Unclean' = Unclean /\ \A p : ToSnapshot(p)' = ToSnapshot(p)
      BY <2>1, UncleanFrame, SnapshotFrame DEF outside, repo
    <2>4. \A p : OnItsWay(p) => OnItsWay(p)'
      BY <2>1, WayFrame DEF outside, marks, history
    <2> QED BY <2>1, <2>2, <2>3, <2>4 DEF Traced, InBatch
  <1> QED BY <1>2, <1>3, <1>4, <1>5

\* Steps that leave marks, batches and events alone, and nothing unclean that
\* was not.
LEMMA QuietTraced ==
  ASSUME Traced, UNCHANGED <<outside, marks, batch>>,
         \A j \in Callers : at[j] = "groups" => at'[j] = "groups",
         \A p \in Unclean' : /\ p \in Unclean
                             /\ p \in missed => p \in missed'
                             /\ ToSnapshot(p) => ToSnapshot(p)'
  PROVE  Traced'
  <1>1. BatchesAtRest'
    BY RestFrame DEF Traced
  <1>2. \A p \in Unclean' : OnItsWay(p) => OnItsWay(p)'
    BY WayFrame DEF outside, marks
  <1> QED BY <1>1, <1>2 DEF Traced, InBatch

LEMMA FreshTraced == Fresh => Traced'
  <1> SUFFICES ASSUME Fresh PROVE Traced'
    OBVIOUS
  <1>1. Unclean' = Unclean /\ Unclean \subseteq missed'
    BY UncleanFrame DEF Fresh
  <1>2. BatchesAtRest'
    BY DEF Fresh, BatchesAtRest
  <1> QED BY <1>1, <1>2 DEF Traced, OnItsWay

LEMMA InitTraced == Init => Traced
  <1> SUFFICES ASSUME Init PROVE Traced
    OBVIOUS
  <1>1. BatchesAtRest
    BY DEF Init, BatchesAtRest
  <1>2. ASSUME NEW p \in Unclean PROVE ToSnapshot(p)
    <2>1. p \in Paths /\ index = head
      BY UncleanPaths DEF Init
    <2>2. head[p] # Last(p)
      BY <1>2, <2>1, UncleanSet
    <2>3. /\ first = {q \in Paths : Exists(q)} /\ head[p] = 0
      BY <2>1, <2>2 DEF Init
    <2>4. Exists(p)
      BY <1>2, <2>1, <2>3, UncleanSet DEF Exists, Text
    <2>5. first # None
      BY <2>1, <2>3, <2>4, NamesAssumption
    <2> QED BY <2>1, <2>3, <2>4, <2>5 DEF ToSnapshot
  <1> QED BY <1>1, <1>2 DEF Traced

\* Whatever index or HEAD lack is known to the engine, on its way to it, or was
\* never reported: no interleaving of commits that fail, changes that arrive
\* meanwhile, lags, floods, snapshots and restarts drops a mark.
THEOREM NothingIsForgotten == Spec => []NothingForgotten
  <1>1. TypeOK /\ Traced /\ [Next]_vars => Traced'
    <2> SUFFICES ASSUME TypeOK, Traced, [Next]_vars PROVE Traced'
      OBVIOUS
    <2>0. WorkOK /\ at \in [Callers -> Places]
      BY DEF TypeOK, WorkOK
    <2>1. ASSUME UNCHANGED <<outside, marks, batch, index, head, first, missed>>,
                 \A j \in Callers : at[j] = "groups" => at'[j] = "groups"
          PROVE  Traced'
      <3>1. Unclean' = Unclean /\ \A p : ToSnapshot(p)' = ToSnapshot(p)
        BY <2>1, UncleanFrame, SnapshotFrame DEF outside
      <3> QED BY <2>1, <3>1, QuietTraced
    <2>2. CASE UNCHANGED vars
      BY <2>1, <2>2 DEF vars, work, repo, history
    <2>3. CASE MovesOn
      <3>1. UNCHANGED <<outside, marks, batch, index, head, first, missed>>
        BY <2>3, MovesOnFrame DEF repo, history
      <3>2. \A j \in Callers : at[j] = "groups" => at'[j] = "groups"
        BY <2>0, <2>3 DEF MovesOn, Stopped, Sleep, Wake, Join, Due, Callers
      <3> QED BY <2>1, <3>1, <3>2
    <2>4. CASE Snapshot \/ Stop
      <3>1. UNCHANGED <<outside, marks, batch, index, head, first, missed>>
        BY <2>4 DEF Snapshot, Stop, repo, history
      <3>2. \A j \in Callers : at[j] = "groups" => at'[j] = "groups"
        BY <2>0, <2>4 DEF Snapshot, Stop, Call, Notified, Callers
      <3> QED BY <2>1, <3>1, <3>2
    <2>5. CASE FirstPass
      <3>1. \A p \in Unclean' : /\ p \in Unclean
                                /\ (p \in missed => p \in missed')
                                /\ (ToSnapshot(p) => ToSnapshot(p)')
        BY <2>0, <2>5, SnapshotKeeps DEF FirstPass, outside
      <3>2. \A j \in Callers : at[j] = "groups" => at'[j] = "groups"
        BY <2>0, <2>5 DEF FirstPass, Callers
      <3> QED BY <2>5, <3>1, <3>2, QuietTraced DEF FirstPass, work
    <2>6. CASE Sweep \/ SnapshotAll
      <3>1. UNCHANGED <<outside, marks, batch, first>>
        BY <2>6 DEF Sweep, SnapshotAll, work
      <3>2. \A j \in Callers : at[j] = "groups" => at'[j] = "groups"
        BY <2>0, <2>6 DEF Sweep, SnapshotAll, Callers
      <3>3. CASE UNCHANGED <<index, head, history>>
        BY <2>1, <3>1, <3>2, <3>3 DEF history
      <3>4. CASE \E by : CommitAll(by)
        <4>1. \A p \in Unclean' : p \in Unclean /\ (p \in missed => p \in missed')
          BY <3>1, <3>4, CommitAllKeeps DEF outside
        <4>2. \A p : ToSnapshot(p)' = ToSnapshot(p)
          BY <3>1, SnapshotFrame DEF outside
        <4> QED BY <3>1, <3>2, <4>1, <4>2, QuietTraced
      <3> QED BY <2>6, <3>3, <3>4 DEF Sweep, SnapshotAll
    <2>7. CASE Restart \/ Crash
      BY <2>7, FreshTraced DEF Restart, Crash
    <2> QED BY <2>2, <2>3, <2>4, <2>5, <2>6, <2>7, ChangeTraced, FlushTraced,
               ReceiveTraced, CommitterTraced DEF Next, Committer, MovesOn
  <1>2. Traced => NothingForgotten
    BY DEF Traced, NothingForgotten, InBatch, ToSnapshot
  <1> QED BY <1>1, <1>2, InitTraced, Types, PTL DEF Spec

-----------------------------------------------------------------------------
(* Credit where it is due.                                                 *)

\* To commit p for by is right, excused, not yet due, or changes nothing.
Own(p, by) ==
  \/ p \notin Unclean
  \/ p \in raw \cup missed
  \/ NotOf(p, Last(p), by) \subseteq excused

Announces(ev, p) == ev = Resync \/ ev.path = p
Later(i, p) == \E k \in i + 1 .. Len(events) : Announces(events[k], p)

EventsOwned ==
  \A i \in 1 .. Len(events) : events[i].path \in Paths =>
    Own(events[i].path, events[i].by) \/ Later(i, events[i].path)
DirtyOwned == \A p \in Paths : Own(p, dirty[p]) \/ InChannel(p)
BatchOwned ==
  \A j \in Callers, p \in Paths :
    Own(p, batch[j][p]) \/ InChannel(p) \/ dirty[p] # None

Credited ==
  /\ CreditIsEarned
  /\ BatchesAtRest
  /\ EventsOwned /\ DirtyOwned /\ BatchOwned

LEMMA Nobodys ==
  ASSUME NEW by, by \notin Accounts
  PROVE  /\ \A p, k : NotOf(p, k, by) = {}
         /\ \A p : Own(p, by) /\ Own(p, by)'
  BY DEF NotOf, Own

LEMMA NobodysNames == None \notin Accounts /\ External \notin Accounts /\ System \notin Accounts
  BY NamesAssumption DEF Author

LEMMA NotOfNext ==
  ASSUME UNCHANGED log
  PROVE  \A p, by : NotOf(p, Last(p), by)' = NotOf(p, Last(p), by)
  BY DEF NotOf, Last

\* What was right stays right, as long as the log stays as it is.
LEMMA OwnKeeps ==
  ASSUME UNCHANGED log, excused \subseteq excused', NEW p,
         p \in Unclean' => p \in Unclean,
         p \in Unclean' /\ p \in raw \cup missed => p \in (raw \cup missed)'
  PROVE  \A by : Own(p, by) => Own(p, by)'
  BY NotOfNext DEF Own

\* Steps that leave marks and events alone, and take marks out of batches.
LEMMA QuietCredited ==
  ASSUME Credited, UNCHANGED <<outside, marks>>,
         \A j \in Callers, p \in Paths : batch'[j][p] \in {None, batch[j][p]},
         BatchesAtRest', CreditIsEarned', excused \subseteq excused',
         \A p \in Unclean' : p \in Unclean /\ (p \in missed => p \in missed')
  PROVE  Credited'
  <1>1. \A p, by : Own(p, by) => Own(p, by)'
    BY OwnKeeps DEF outside
  <1>2. \A p : InChannel(p)' = InChannel(p)
    BY DEF InChannel, outside, channel
  <1>3. UNCHANGED <<events, dirty>>
    BY DEF outside, channel, marks
  <1>4. EventsOwned'
    BY <1>1, <1>3 DEF Credited, EventsOwned, Later, Announces, Resync
  <1>5. DirtyOwned'
    BY <1>1, <1>2, <1>3 DEF Credited, DirtyOwned
  <1>6. BatchOwned'
    <2> SUFFICES ASSUME NEW j \in Callers, NEW p \in Paths
                 PROVE  (Own(p, batch[j][p]) \/ InChannel(p) \/ dirty[p] # None)'
      BY DEF BatchOwned
    <2>1. CASE batch'[j][p] = None
      BY <2>1, Nobodys, NobodysNames
    <2>2. CASE batch'[j][p] = batch[j][p]
      BY <1>1, <1>2, <1>3, <2>2 DEF Credited, BatchOwned
    <2> QED BY <2>1, <2>2
  <1> QED BY <1>4, <1>5, <1>6 DEF Credited

\* A commit credits by only with what was right, or excuses it.
LEMMA CommitEarns ==
  ASSUME CreditIsEarned, NEW S \in SUBSET Paths, NEW by, Commit(S, by),
         \A p \in S : Own(p, by) \/ OnItsWay(p)
  PROVE  CreditIsEarned' /\ excused \subseteq excused'
  <1> DEFINE T == {p \in New(S) : p \notin S \/ OnItsWay(p)}
  <1>1. /\ unearned' = unearned \cup Wrong(S, New(S), by)
        /\ excused' = excused \cup Wrong(S, T, by)
    BY DEF Commit
  <1>2. ASSUME NEW p \in New(S)
        PROVE  NotOf(p, Stage(S)[p], by) \subseteq excused'
    <2>1. CASE p \in T
      BY <1>1, <2>1 DEF Wrong
    <2>2. CASE p \notin T
      <3>1. /\ p \in S /\ ~OnItsWay(p) /\ p \in Paths
            /\ Text(p, Stage(S)[p]) # Text(p, head[p])
        BY <1>2, <2>2 DEF New
      <3>2. Stage(S)[p] = Last(p)
        BY <3>1 DEF Stage
      <3>3. p \in Unclean /\ p \notin raw \cup missed
        BY <3>1, <3>2, UncleanSet DEF OnItsWay
      <3> QED BY <1>1, <3>1, <3>2, <3>3 DEF Own
    <2> QED BY <2>1, <2>2
  <1>3. Wrong(S, New(S), by) \subseteq excused'
    BY <1>2 DEF Wrong
  <1> QED BY <1>1, <1>3 DEF CreditIsEarned

\* What nobody has an account for is credited to nobody.
LEMMA SnapshotEarns ==
  ASSUME CreditIsEarned, WorkOK, InitialSnapshot
  PROVE  CreditIsEarned' /\ excused \subseteq excused'
  <1> DEFINE S == IF first = None THEN {} ELSE {p \in first : Exists(p)}
  <1>1. S \in SUBSET Paths
    BY DEF WorkOK
  <1>2. UNCHANGED history \/ Commit(S, System)
    BY DEF InitialSnapshot, CommitFails
  <1> QED BY <1>1, <1>2, CommitEarns, Nobodys, NobodysNames
          DEF CreditIsEarned, history

LEMMA CommitAllEarns ==
  ASSUME CreditIsEarned, NEW by \in {External, System}, CommitAll(by)
  PROVE  CreditIsEarned' /\ excused \subseteq excused'
  BY CommitEarns, Nobodys, NobodysNames DEF CommitAll, CreditIsEarned, history

\* The events that are left, and the one that came last.
LEMMA BroadcastEvents ==
  ASSUME ChannelOK, NEW ev \in Events, Broadcast(ev)
  PROVE  /\ Len(events) \in Nat /\ Len(events') \in Nat \ {0}
         /\ events'[Len(events')] = ev
         /\ \E d \in {0, 1} :
              /\ Len(events') = Len(events) + 1 - d
              /\ \A i \in 1 .. Len(events) - d : events'[i] = events[i + d]
  <1>1. events \in Seq(Events) /\ Len(events) \in Nat
    BY DEF ChannelOK
  <1>2. CASE Len(events) < Capacity
    <2>1. events' = Append(events, ev)
      BY <1>2 DEF Broadcast
    <2>2. /\ Len(events') = Len(events) + 1 /\ events'[Len(events) + 1] = ev
          /\ \A i \in 1 .. Len(events) : events'[i] = events[i]
      BY <1>1, <2>1
    <2>3. \A i \in 1 .. Len(events) - 0 : events'[i] = events[i + 0]
      BY <1>1, <2>2
    <2>4. Len(events') = Len(events) + 1 - 0
      BY <1>1, <2>2
    <2> QED BY <1>1, <2>2, <2>3, <2>4
  <1>3. CASE ~(Len(events) < Capacity)
    <2>1. events' = Append(Tail(events), ev) /\ Len(events) \in Nat \ {0}
      BY <1>1, <1>3, BoundsAssumption DEF Broadcast
    <2>2. /\ Tail(events) \in Seq(Events) /\ Len(Tail(events)) = Len(events) - 1
          /\ \A i \in 1 .. Len(events) - 1 : Tail(events)[i] = events[i + 1]
      BY <1>1, <2>1
    <2>3. /\ Len(events') = Len(events) /\ events'[Len(events)] = ev
          /\ \A i \in 1 .. Len(events) - 1 : events'[i] = Tail(events)[i]
      BY <1>1, <2>1, <2>2
    <2>4. Len(events') = Len(events) + 1 - 1
      BY <2>1, <2>3
    <2> QED BY <1>1, <2>1, <2>2, <2>3, <2>4
  <1> QED BY <1>2, <1>3

LEMMA BroadcastOwned ==
  ASSUME ChannelOK, EventsOwned, NEW ev \in Events, Broadcast(ev),
         ev.path \in Paths => Own(ev.path, ev.by)',
         \A q \in Paths : \A by :
           Own(q, by) => Own(q, by)' \/ Announces(ev, q)
  PROVE  EventsOwned'
  <1> DEFINE n == Len(events)
             m == Len(events')
  <1>1. n \in Nat /\ m \in Nat \ {0} /\ events'[m] = ev
    BY BroadcastEvents
  <1>2. PICK d \in {0, 1} :
          m = n + 1 - d /\ \A i \in 1 .. n - d : events'[i] = events[i + d]
    BY BroadcastEvents
  <1> SUFFICES ASSUME NEW i \in 1 .. m, events'[i].path \in Paths
               PROVE  Own(events[i].path, events[i].by)' \/ Later(i, events[i].path)'
    BY DEF EventsOwned
  <1>3. CASE i = m
    BY <1>1, <1>3
  <1>4. CASE i # m
    <2> DEFINE q == events'[i].path
               by == events'[i].by
    <2>1. i \in 1 .. n - d /\ i + d \in 1 .. n /\ events'[i] = events[i + d]
      BY <1>1, <1>2, <1>4
    <2>2. Own(q, by) \/ Later(i + d, q)
      BY <2>1 DEF EventsOwned
    <2>3. CASE Own(q, by)
      <3>1. CASE Announces(ev, q)
        <4>1. m \in i + 1 .. m
          BY <1>1, <1>4
        <4> QED BY <1>1, <3>1, <4>1 DEF Later, Announces, Resync
      <3> QED BY <2>3, <3>1
    <2>4. CASE Later(i + d, q)
      <3>1. PICK k \in (i + d) + 1 .. n : Announces(events[k], q)
        BY <2>4 DEF Later
      <3>2. /\ k - d \in 1 .. n - d /\ (k - d) + d = k
            /\ k - d \in i + 1 .. m
        BY <1>1, <1>2, <3>1
      <3>3. events'[k - d] = events[k]
        BY <1>2, <3>2
      <3> QED BY <3>1, <3>2, <3>3 DEF Later, Announces, Resync
    <2> QED BY <2>2, <2>3, <2>4
  <1> QED BY <1>3, <1>4

LEMMA ChangeCredited ==
  ASSUME TypeOK, Credited, NEW p \in Paths, NEW a, NEW gone, Change(p, a, gone)
  PROVE  Credited'
  <1>1. /\ UNCHANGED <<channel, events, lagged, dirty, batch, at, index, head>>
        /\ UNCHANGED <<unearned, excused>>
        /\ p \in (raw \cup missed)'
        /\ raw \cup missed \subseteq (raw \cup missed)'
    BY DEF Change, channel, marks, work, repo
  <1>2. ASSUME NEW q \in Paths, NEW by, Own(q, by) PROVE Own(q, by)'
    <2>1. CASE q = p
      BY <1>1, <2>1 DEF Own
    <2>2. CASE q # p
      <3>1. log'[q] = log[q]
        BY <1>2, <2>2 DEF Change, TypeOK, LogOK
      <3>2. q \in Unclean' <=> q \in Unclean
        BY <1>1, <1>2, <3>1 DEF Unclean, Uncommitted, Text, Last
      <3>3. NotOf(q, Last(q), by)' = NotOf(q, Last(q), by)
        BY <3>1 DEF NotOf, Last
      <3> QED BY <1>1, <1>2, <3>2, <3>3 DEF Own
    <2> QED BY <2>1, <2>2
  <1>3. \A q : InChannel(q)' = InChannel(q)
    BY <1>1 DEF InChannel
  <1>4. EventsOwned'
    BY <1>1, <1>2 DEF Credited, EventsOwned, Later, Announces, Resync
  <1>5. DirtyOwned' /\ BatchOwned'
    BY <1>1, <1>2, <1>3 DEF Credited, DirtyOwned, BatchOwned
  <1> QED BY <1>1, <1>4, <1>5 DEF Credited, BatchesAtRest, CreditIsEarned

LEMMA FlushCredited ==
  ASSUME TypeOK, Credited, FlushFlood \/ \E p \in Paths : Flush(p)
  PROVE  Credited'
  <1>1. /\ UNCHANGED <<log, index, head, missed, dirty, at, batch, unearned>>
        /\ Unclean' = Unclean
        /\ excused \subseteq excused'
    BY UncleanFrame DEF Flush, FlushFlood, marks, work, repo, history
  <1>2. PICK ev \in Events :
          /\ Broadcast(ev)
          /\ ev.path \in Paths => NotOf(ev.path, Last(ev.path), ev.by) \subseteq excused'
          /\ \A q \in raw \ raw' : Announces(ev, q)
    <2>1. CASE FlushFlood
      <3>1. Resync \in Events /\ Resync.path \notin Paths
        BY MarkingTypes, NamesAssumption DEF Resync, Events
      <3> QED BY <2>1, <3>1 DEF FlushFlood, Announces
    <2>2. ASSUME NEW p \in Paths, Flush(p)
          PROVE  \E ev \in Events :
                   /\ Broadcast(ev)
                   /\ NotOf(ev.path, Last(ev.path), ev.by) \subseteq excused'
                   /\ \A q \in raw \ raw' : Announces(ev, q)
      <3>1. PICK by \in Attributions(p) :
              /\ Broadcast([path |-> p, by |-> by])
              /\ excused' = excused \cup NotOf(p, Last(p), by)
        BY <2>2 DEF Flush
      <3>2. [path |-> p, by |-> by] \in Events
        BY MarkingTypes DEF Attributions, NotedWriters, Events
      <3>3. \A q \in raw \ raw' : q = p
        BY <2>2 DEF Flush
      <3> QED BY <3>1, <3>2, <3>3 DEF Announces
    <2> QED BY <2>1, <2>2
  <1>3. ASSUME NEW q \in Paths, NEW by, Own(q, by)
        PROVE  Own(q, by)' \/ Announces(ev, q)
    BY <1>1, <1>2, <1>3, NotOfNext DEF Own
  <1>4. ev.path \in Paths => Own(ev.path, ev.by)'
    BY <1>1, <1>2, NotOfNext DEF Own
  <1>5. \A q : InChannel(q) \/ Announces(ev, q) => InChannel(q)'
    BY <1>2, BroadcastKeeps DEF TypeOK, Announces
  <1>6. EventsOwned'
    BY <1>2, <1>3, <1>4, BroadcastOwned DEF TypeOK, Credited
  <1>7. DirtyOwned' /\ BatchOwned'
    BY <1>1, <1>3, <1>5 DEF Credited, DirtyOwned, BatchOwned
  <1> QED BY <1>1, <1>6, <1>7 DEF Credited, BatchesAtRest, CreditIsEarned

LEMMA TailEvents ==
  ASSUME ChannelOK, EventsOwned, events # <<>>, events' = Tail(events),
         \A q \in Paths : \A by : Own(q, by) => Own(q, by)'
  PROVE  /\ EventsOwned'
         /\ Head(events) \in Events
         /\ \A p : Later(1, p) => InChannel(p)'
         /\ \A p : InChannel(p) => lagged \/ Announces(Head(events), p) \/ Later(1, p)
         /\ Head(events).path \in Paths =>
              Own(Head(events).path, Head(events).by) \/ Later(1, Head(events).path)
  <1> DEFINE n == Len(events)
  <1>1. /\ n \in Nat \ {0} /\ Head(events) = events[1] /\ Head(events) \in Events
        /\ Len(events') = n - 1
        /\ \A i \in 1 .. n - 1 : events'[i] = events[i + 1]
    BY DEF ChannelOK
  <1>2. ASSUME NEW i \in 1 .. n, NEW p, Later(i, p)
        PROVE  \E k \in i .. n - 1 : Announces(events'[k], p)
    <2>1. PICK k \in i + 1 .. n : Announces(events[k], p)
      BY <1>2 DEF Later
    <2>2. k - 1 \in i .. n - 1 /\ k - 1 \in 1 .. n - 1 /\ (k - 1) + 1 = k
      BY <1>1, <2>1
    <2>3. events'[k - 1] = events[k]
      BY <1>1, <2>2
    <2> QED BY <2>1, <2>2, <2>3
  <1>3. EventsOwned'
    <2> SUFFICES ASSUME NEW i \in 1 .. n - 1, events'[i].path \in Paths
                 PROVE  (Own(events[i].path, events[i].by) \/ Later(i, events[i].path))'
      BY <1>1 DEF EventsOwned
    <2>1. i + 1 \in 1 .. n /\ events'[i] = events[i + 1]
      BY <1>1
    <2>2. Own(events'[i].path, events'[i].by) \/ Later(i + 1, events'[i].path)
      BY <2>1 DEF EventsOwned
    <2>3. CASE Later(i + 1, events'[i].path)
      <3>1. \E k \in i + 1 .. n - 1 : Announces(events'[k], events'[i].path)
        BY <1>2, <2>1, <2>3
      <3> QED BY <1>1, <3>1 DEF Later, Announces, Resync
    <2> QED BY <2>2, <2>3
  <1>4. \A p : Later(1, p) => InChannel(p)'
    BY <1>1, <1>2 DEF InChannel, Announces, Resync
  <1>5. \A p : InChannel(p) => lagged \/ Announces(Head(events), p) \/ Later(1, p)
    <2>1. \A i \in 1 .. n : i = 1 \/ i \in 1 + 1 .. n
      BY <1>1
    <2> QED BY <1>1, <2>1 DEF InChannel, Announces, Later
  <1> QED BY <1>1, <1>3, <1>4, <1>5 DEF EventsOwned

\* A rescan excuses the marks it finds, and adds none of an account.
LEMMA RescanCredits ==
  ASSUME MarksOK, Rescan, UNCHANGED <<log, index, head, raw>>
  PROVE  /\ UNCHANGED unearned /\ excused \subseteq excused'
         /\ \A p, by : Own(p, by) => Own(p, by)'
         /\ \A p \in Paths : Own(p, dirty[p])'
         /\ \A p \in Paths : \A by : dirty'[p] # None \/ Own(p, by)'
  <1>1. /\ dirty' = Rescanned /\ Unclean' = Unclean
        /\ missed' = missed \cup {p \in Paths : ~Exists(p) /\ dirty[p] = None}
        /\ excused' = excused \cup UNION {NotOf(p, Last(p), dirty[p]) :
                                     p \in {q \in Paths : dirty[q] # None}}
        /\ UNCHANGED unearned
    BY UncleanFrame DEF Rescan, Marks
  <1>2. \A p, by : Own(p, by) => Own(p, by)'
    BY <1>1, OwnKeeps
  <1>3. ASSUME NEW p \in Paths PROVE Own(p, dirty[p])'
    <2>1. CASE dirty[p] = None
      <3>1. dirty'[p] \in {External, None}
        BY <1>1, <2>1 DEF Rescanned
      <3> QED BY <3>1, Nobodys, NobodysNames
    <2>2. CASE dirty[p] # None
      <3>1. dirty'[p] = dirty[p]
        BY <1>1, <2>2 DEF Rescanned
      <3>2. NotOf(p, Last(p), dirty[p]) \subseteq excused'
        BY <1>1, <2>2
      <3>3. NotOf(p, Last(p), dirty[p])' \subseteq excused'
        BY <3>1, <3>2 DEF NotOf, Last
      <3> QED BY <3>3 DEF Own
    <2> QED BY <2>1, <2>2
  <1>4. ASSUME NEW p \in Paths, NEW by PROVE dirty'[p] # None \/ Own(p, by)'
    <2>1. CASE Exists(p) \/ dirty[p] # None
      BY <1>1, <2>1, NamesAssumption, MarkingTypes DEF Rescanned
    <2>2. CASE ~Exists(p) /\ dirty[p] = None
      BY <1>1, <2>2 DEF Own
    <2> QED BY <2>1, <2>2
  <1> QED BY <1>1, <1>2, <1>3, <1>4

LEMMA ReceiveCredited ==
  ASSUME TypeOK, Credited, Receive
  PROVE  Credited'
  <1>1. UNCHANGED <<log, raw, batch, index, head>>
    BY DEF Receive, work, repo
  <1>2. BatchesAtRest'
    <2>1. at' \in {at, Notified}
      BY DEF Receive, Rescan, Marks
    <2>2. \A j \in Callers : at[j] = "groups" => at'[j] = "groups"
      BY <2>1 DEF Notified, TypeOK, WorkOK
    <2> QED BY <1>1, <2>2, RestFrame DEF Credited
  <1>3. CASE Rescan
    <2>1. /\ UNCHANGED unearned /\ excused \subseteq excused'
          /\ \A p, by : Own(p, by) => Own(p, by)'
          /\ \A p \in Paths : Own(p, dirty[p])'
          /\ \A p \in Paths : \A by : dirty'[p] # None \/ Own(p, by)'
      BY <1>1, <1>3, RescanCredits DEF TypeOK
    <2>2. EventsOwned'
      <3>1. CASE events' = events
        BY <2>1, <3>1 DEF Credited, EventsOwned, Later, Announces, Resync
      <3>2. CASE events # <<>> /\ events' = Tail(events)
        BY <2>1, <3>2, TailEvents DEF Credited, TypeOK
      <3> QED BY <3>1, <3>2 DEF Receive
    <2>3. DirtyOwned'
      BY <2>1 DEF DirtyOwned
    <2>4. BatchOwned'
      BY <2>1 DEF BatchOwned
    <2> QED BY <1>2, <2>1, <2>2, <2>3, <2>4 DEF Credited, CreditIsEarned
  <1>4. CASE ~Rescan
    <2> DEFINE ev == Head(events)
    <2>1. /\ ~lagged /\ events # <<>> /\ events' = Tail(events)
          /\ ev # Resync /\ Marks([dirty EXCEPT ![ev.path] = ev.by])
          /\ UNCHANGED history
      BY <1>4 DEF Receive
    <2>2. \A p, by : Own(p, by) => Own(p, by)'
      BY <1>1, <2>1, OwnKeeps, UncleanFrame DEF history
    <2>3. /\ EventsOwned' /\ ev \in Events
          /\ \A p : Later(1, p) => InChannel(p)'
          /\ \A p : InChannel(p) => Announces(ev, p) \/ Later(1, p)
          /\ ev.path \in Paths => Own(ev.path, ev.by) \/ Later(1, ev.path)
      BY <2>1, <2>2, TailEvents DEF Credited, TypeOK
    <2>4. dirty' = [dirty EXCEPT ![ev.path] = ev.by] /\ ev.by # None
      BY <2>1, <2>3, NamesAssumption DEF Marks, Events
    <2> HIDE DEF ev
    <2>5. \A p \in Paths : /\ ev.path = p => dirty'[p] = ev.by
                           /\ ev.path # p => dirty'[p] = dirty[p]
      BY <2>4 DEF TypeOK, MarksOK, Marking
    <2>6. \A p : Announces(ev, p) <=> ev.path = p
      BY <2>1 DEF Announces
    <2>7. DirtyOwned'
      <3> SUFFICES ASSUME NEW p \in Paths
                   PROVE  (Own(p, dirty[p]) \/ InChannel(p))'
        BY DEF DirtyOwned
      <3>1. CASE ev.path = p
        BY <2>2, <2>3, <2>5, <3>1
      <3>2. CASE ev.path # p
        <4>1. Own(p, dirty[p]) \/ InChannel(p)
          BY DEF Credited, DirtyOwned
        <4> QED BY <2>2, <2>3, <2>5, <2>6, <3>2, <4>1
      <3> QED BY <3>1, <3>2
    <2>8. BatchOwned'
      <3> SUFFICES ASSUME NEW j \in Callers, NEW p \in Paths
                   PROVE  (Own(p, batch[j][p]) \/ InChannel(p) \/ dirty[p] # None)'
        BY DEF BatchOwned
      <3>1. Own(p, batch[j][p]) \/ InChannel(p) \/ dirty[p] # None
        BY DEF Credited, BatchOwned
      <3>2. Own(p, batch[j][p]) => Own(p, batch[j][p])'
        BY <1>1, <2>2
      <3> QED BY <2>3, <2>4, <2>5, <2>6, <3>1, <3>2
    <2> QED BY <1>2, <2>1, <2>3, <2>7, <2>8
            DEF Credited, CreditIsEarned, history
  <1> QED BY <1>3, <1>4

LEMMA CommitterCredited ==
  ASSUME TypeOK, Credited, NEW j \in Callers
  PROVE  /\ CommitNow(j) => Credited'
         /\ \A by \in Author : CommitGroup(j, by) \/ GroupFails(j, by) => Credited'
         /\ GroupsDone(j) => Credited'
  <1>1. ASSUME NEW by \in Author
        PROVE  /\ Group(j, by) \in SUBSET Paths
               /\ \A p \in Group(j, by) : batch[j][p] = by
               /\ \A i \in Callers, p \in Paths :
                    Without(j, by)[i][p] \in {None, batch[i][p]}
               /\ \A i \in Callers : i # j => Without(j, by)[i] = batch[i]
    <2>1. batch \in [Callers -> [Paths -> Author \cup {None}]]
      BY DEF TypeOK, WorkOK, Marking
    <2>2. \A i \in Callers : i # j => Without(j, by)[i] = batch[i]
      BY <2>1 DEF Without
    <2>3. Without(j, by)[j] = [p \in Paths |-> IF batch[j][p] = by THEN None
                                              ELSE batch[j][p]]
      BY <2>1 DEF Without
    <2> QED BY <2>2, <2>3 DEF Group
  <1>2. ASSUME CommitNow(j) PROVE Credited'
    <2>1. /\ \A i \in Callers : i # j => batch[i] = NoMarks
          /\ batch' = [batch EXCEPT ![j] = dirty] /\ dirty' = NoMarks
          /\ UNCHANGED <<log, raw, channel, events, lagged>>
      BY <1>2 DEF CommitNow, Free, Credited, BatchesAtRest, outside, channel
    <2>2. BatchesAtRest'
      BY <1>2, <2>1 DEF CommitNow, Credited, BatchesAtRest, TypeOK, WorkOK
    <2>3. CreditIsEarned' /\ excused \subseteq excused'
      BY <1>2, SnapshotEarns DEF CommitNow, Credited, TypeOK
    <2>4. \A p, by : Own(p, by) => Own(p, by)'
      BY <1>2, <2>1, <2>3, SnapshotKeeps, OwnKeeps DEF CommitNow, TypeOK
    <2>5. \A p : InChannel(p)' = InChannel(p)
      BY <2>1 DEF InChannel
    <2>6. EventsOwned'
      BY <2>1, <2>4 DEF Credited, EventsOwned, Later, Announces, Resync
    <2>7. \A p : Own(p, None)'
      BY Nobodys, NobodysNames
    <2>8. DirtyOwned'
      BY <2>1, <2>7 DEF DirtyOwned, NoMarks
    <2>9. BatchOwned'
      <3> SUFFICES ASSUME NEW i \in Callers, NEW p \in Paths
                   PROVE  (Own(p, batch[i][p]) \/ InChannel(p))'
        BY DEF BatchOwned
      <3>1. CASE i = j
        <4>1. batch'[i] = dirty
          BY <2>1, <3>1 DEF TypeOK, WorkOK
        <4> QED BY <2>4, <2>5, <4>1 DEF Credited, DirtyOwned
      <3>2. CASE i # j
        <4>1. batch'[i][p] = None
          BY <2>1, <3>2 DEF TypeOK, WorkOK, NoMarks
        <4> QED BY <2>7, <4>1
      <3> QED BY <3>1, <3>2
    <2> QED BY <2>2, <2>3, <2>6, <2>8, <2>9 DEF Credited
  <1>3. ASSUME NEW by \in Author, CommitGroup(j, by) PROVE Credited'
    <2>1. /\ batch' = Without(j, by) /\ UNCHANGED <<outside, log, marks, at>>
          /\ at[j] = "groups" /\ Commit(Group(j, by), by)
      BY <1>3 DEF CommitGroup, outside
    <2>2. \A p \in Group(j, by) : Own(p, by) \/ OnItsWay(p)
      BY <1>1 DEF Credited, BatchOwned, OnItsWay
    <2>3. CreditIsEarned' /\ excused \subseteq excused'
      BY <1>1, <2>1, <2>2, CommitEarns DEF Credited
    <2>4. BatchesAtRest'
      BY <1>1, <2>1 DEF Credited, BatchesAtRest
    <2>5. \A p \in Unclean' : p \in Unclean /\ (p \in missed => p \in missed')
      BY <1>1, <2>1, CommitKeeps
    <2> QED BY <1>1, <2>1, <2>3, <2>4, <2>5, QuietCredited
  <1>4. ASSUME NEW by \in Author, GroupFails(j, by) PROVE Credited'
    <2>1. /\ batch' = Without(j, by) /\ at[j] = "groups"
          /\ UNCHANGED <<log, raw, channel, events, lagged>>
          /\ dirty' = PutBack(j, by) /\ at' = Notified
          /\ UNCHANGED <<head, missed, unearned, excused>>
          /\ index' \in {index, Stage(Group(j, by))}
      BY <1>4 DEF GroupFails, CommitFails, outside, channel, history
    <2>2. BatchesAtRest'
      <3>1. \A i \in Callers : at[i] = "groups" => at'[i] = "groups"
        BY <2>1 DEF Notified, TypeOK, WorkOK
      <3> QED BY <1>1, <2>1, <3>1 DEF Credited, BatchesAtRest
    <2>3. Unclean' \subseteq Unclean
      BY <1>1, <2>1, FailsKeeps
    <2>4. \A p, b : Own(p, b) => Own(p, b)'
      BY <2>1, <2>3, OwnKeeps
    <2>5. \A p : InChannel(p)' = InChannel(p)
      BY <2>1 DEF InChannel
    <2>6. EventsOwned'
      BY <2>1, <2>4 DEF Credited, EventsOwned, Later, Announces, Resync
    <2>7. \A p \in Paths : \/ dirty'[p] = dirty[p]
                           \/ dirty[p] = None /\ dirty'[p] = batch[j][p]
      BY <1>1, <2>1 DEF PutBack
    <2>8. DirtyOwned'
      <3> SUFFICES ASSUME NEW p \in Paths
                   PROVE  (Own(p, dirty[p]) \/ InChannel(p))'
        BY DEF DirtyOwned
      <3>1. Own(p, dirty[p]) \/ InChannel(p)
        BY DEF Credited, DirtyOwned
      <3>2. Own(p, batch[j][p]) \/ InChannel(p) \/ dirty[p] # None
        BY DEF Credited, BatchOwned
      <3> QED BY <2>4, <2>5, <2>7, <3>1, <3>2
    <2>9. BatchOwned'
      <3> SUFFICES ASSUME NEW i \in Callers, NEW p \in Paths
                   PROVE  (Own(p, batch[i][p]) \/ InChannel(p) \/ dirty[p] # None)'
        BY DEF BatchOwned
      <3>1. Own(p, batch[i][p]) \/ InChannel(p) \/ dirty[p] # None
        BY DEF Credited, BatchOwned
      <3>2. dirty[p] # None => dirty'[p] # None
        BY <2>7
      <3>3. batch'[i][p] \in {None, batch[i][p]}
        BY <1>1, <2>1
      <3> QED BY <2>4, <2>5, <3>1, <3>2, <3>3, Nobodys, NobodysNames
    <2> QED BY <2>1, <2>2, <2>6, <2>8, <2>9 DEF Credited, CreditIsEarned
  <1>5. ASSUME GroupsDone(j) PROVE Credited'
    <2>1. /\ UNCHANGED <<outside, marks, batch, log, index, head>>
          /\ UNCHANGED <<missed, unearned, excused>>
      BY <1>5 DEF GroupsDone, outside, repo, history
    <2>2. BatchesAtRest'
      BY <1>5, <2>1 DEF GroupsDone, Credited, BatchesAtRest, TypeOK, WorkOK
    <2>3. CreditIsEarned'
      BY <2>1 DEF Credited, CreditIsEarned
    <2> QED BY <2>1, <2>2, <2>3, QuietCredited, UncleanFrame
  <1> QED BY <1>2, <1>3, <1>4, <1>5

LEMMA FreshCredited == Credited /\ Fresh => Credited'
  <1> SUFFICES ASSUME Credited, Fresh PROVE Credited'
    OBVIOUS
  <1>1. /\ CreditIsEarned' /\ BatchesAtRest'
        /\ events' = <<>> /\ dirty' = NoMarks
        /\ \A j \in Callers : batch'[j] = NoMarks
    BY DEF Fresh, Credited, CreditIsEarned, BatchesAtRest
  <1>2. EventsOwned'
    BY <1>1, EmptyChannel DEF EventsOwned
  <1>3. \A p : Own(p, None)'
    BY Nobodys, NobodysNames
  <1>4. DirtyOwned' /\ BatchOwned'
    BY <1>1, <1>3 DEF DirtyOwned, BatchOwned, NoMarks
  <1> QED BY <1>1, <1>2, <1>4 DEF Credited

LEMMA InitCredited == Init => Credited
  <1> SUFFICES ASSUME Init PROVE Credited
    OBVIOUS
  <1>1. EventsOwned
    BY EmptyChannel DEF Init, EventsOwned
  <1>2. \A p : Own(p, None)
    BY Nobodys, NobodysNames
  <1>3. DirtyOwned /\ BatchOwned
    BY <1>2 DEF Init, DirtyOwned, BatchOwned, NoMarks
  <1> QED BY <1>1, <1>3 DEF Init, Credited, CreditIsEarned, BatchesAtRest

\* No commit credits an account with a change it did not make, except in the
\* named windows: neither late events, newer marks put back after a failure,
\* nor rescans and restarts mix up the authors.
THEOREM CreditsAreEarned == Spec => []CreditIsEarned
  <1>1. TypeOK /\ Credited /\ [Next]_vars => Credited'
    <2> SUFFICES ASSUME TypeOK, Credited, [Next]_vars PROVE Credited'
      OBVIOUS
    <2>0. WorkOK /\ at \in [Callers -> Places]
      BY DEF TypeOK, WorkOK
    <2>1. ASSUME UNCHANGED <<outside, marks, batch, index, head, history>>,
                 \A j \in Callers : at[j] = "groups" => at'[j] = "groups"
          PROVE  Credited'
      <3>1. /\ BatchesAtRest' /\ CreditIsEarned' /\ UNCHANGED <<missed, excused>>
        BY <2>1, RestFrame DEF Credited, CreditIsEarned, history
      <3>2. Unclean' = Unclean
        BY <2>1, UncleanFrame DEF outside
      <3> QED BY <2>1, <3>1, <3>2, QuietCredited
    <2>2. CASE UNCHANGED vars
      BY <2>1, <2>2 DEF vars, work, repo
    <2>3. CASE MovesOn
      <3>1. UNCHANGED <<outside, marks, batch, index, head, history>>
        BY <2>3, MovesOnFrame DEF repo
      <3>2. \A j \in Callers : at[j] = "groups" => at'[j] = "groups"
        BY <2>0, <2>3 DEF MovesOn, Stopped, Sleep, Wake, Join, Due, Callers
      <3> QED BY <2>1, <3>1, <3>2
    <2>4. CASE Snapshot \/ Stop
      <3>1. UNCHANGED <<outside, marks, batch, index, head, history>>
        BY <2>4 DEF Snapshot, Stop, repo
      <3>2. \A j \in Callers : at[j] = "groups" => at'[j] = "groups"
        BY <2>0, <2>4 DEF Snapshot, Stop, Call, Notified, Callers
      <3> QED BY <2>1, <3>1, <3>2
    <2>5. CASE FirstPass
      <3>1. UNCHANGED <<outside, log, marks, batch>>
        BY <2>5 DEF FirstPass, work, outside
      <3>2. \A p \in Unclean' : p \in Unclean /\ (p \in missed => p \in missed')
        BY <2>0, <2>5, <3>1, SnapshotKeeps DEF FirstPass
      <3>3. CreditIsEarned' /\ excused \subseteq excused'
        BY <2>0, <2>5, SnapshotEarns DEF FirstPass, Credited
      <3>4. BatchesAtRest'
        BY <2>0, <2>5, <3>1, RestFrame DEF FirstPass, Credited, Callers
      <3> QED BY <3>1, <3>2, <3>3, <3>4, QuietCredited
    <2>6. CASE Sweep \/ SnapshotAll
      <3>1. UNCHANGED <<outside, log, marks, batch>>
        BY <2>6 DEF Sweep, SnapshotAll, work, outside
      <3>2. \A j \in Callers : at[j] = "groups" => at'[j] = "groups"
        BY <2>0, <2>6 DEF Sweep, SnapshotAll, Callers
      <3>3. CASE UNCHANGED <<index, head, history>>
        BY <2>1, <3>1, <3>2, <3>3
      <3>4. CASE \E by \in {External, System} : CommitAll(by)
        <4>1. \A p \in Unclean' : p \in Unclean /\ (p \in missed => p \in missed')
          BY <3>1, <3>4, CommitAllKeeps
        <4>2. CreditIsEarned' /\ excused \subseteq excused'
          BY <3>4, CommitAllEarns DEF Credited
        <4>3. BatchesAtRest'
          BY <3>1, <3>2, RestFrame DEF Credited
        <4> QED BY <3>1, <4>1, <4>2, <4>3, QuietCredited
      <3> QED BY <2>6, <3>3, <3>4 DEF Sweep, SnapshotAll
    <2>7. CASE Restart \/ Crash
      BY <2>7, FreshCredited DEF Restart, Crash
    <2> QED BY <2>2, <2>3, <2>4, <2>5, <2>6, <2>7, ChangeCredited, FlushCredited,
               ReceiveCredited, CommitterCredited DEF Next, Committer, MovesOn
  <1>2. Credited => CreditIsEarned
    BY DEF Credited
  <1> QED BY <1>1, <1>2, InitCredited, Types, PTL DEF Spec
=============================================================================
