------------------------------ MODULE SpaceSync ------------------------------
(***************************************************************************)
(* The offline replica of a space: the sync algorithm of                   *)
(* client/spaces/sync.ts, the loop that feeds it (service_worker/          *)
(* sync_engine.ts, dirty_queue.ts), and the handlers of the server that    *)
(* answer it (server/src/handlers/fs.rs).                                  *)
(*                                                                         *)
(* One path of one replica.  The replica's user saves and deletes the      *)
(* local copy, other clients save and delete the copy on the server, at    *)
(* any moment between two awaits of the engine.  A content is the set of   *)
(* edits it holds, its hash is the content itself, and a timestamp may     *)
(* repeat, for two writes can fall in one millisecond.  The server's       *)
(* handlers work under a lock per path (fs_guard.rs) and are one step.     *)
(*                                                                         *)
(* Consecutive awaits are one step where nothing another actor does        *)
(* between them can matter: a read of the local copy followed by a request *)
(* that sends what was read, say, since a save in between might as well    *)
(* come after the request.                                                 *)
(*                                                                         *)
(* The replica has seen the server report revisions (its remoteHashes are  *)
(* not empty), the path can be merged (isMergeEligible), is a sync         *)
(* candidate and does not belong to the standard library.                  *)
(***************************************************************************)
EXTENDS Naturals, FiniteSets

CONSTANTS
  Edits,        \* what users may add to the file, each once
  Silent,       \* the edits that leave the length of the file as it is
  MaxTime,      \* the last millisecond of the clock
  MaxDeletes,   \* how often users delete the file
  MaxTroubles,  \* how many requests fail, answers are lost or workers stop
  MaxWithheld,  \* how often the editor withholds an update it cannot merge
  None          \* no file, no entry, no mark

ASSUME SilentAssumption == Silent \subseteq Edits
ASSUME FiniteAssumption == IsFiniteSet(Edits)
ASSUME BoundsAssumption ==
  /\ MaxTime \in Nat
  /\ MaxDeletes \in Nat
  /\ MaxTroubles \in Nat
  /\ MaxWithheld \in Nat

Text == SUBSET Edits
Time == 0 .. MaxTime
File == [text : Text, time : Time]

ASSUME NoneAssumption ==
  /\ \A text \in Text : text # None
  /\ \A file \in File : file # None
  /\ \A t \in Time : t # None
  /\ \A t, u \in Time : [local |-> t, remote |-> u] # None

VARIABLES
  local,     \* the copy in the replica's data store
  remote,    \* the copy on the server
  snapshot,  \* the entries of the SyncSnapshot for the path, in memory
  stored,    \* the same, as saved in the data store
  dirty,     \* the mark of the path in the dirty queue
  op,        \* the syncFile that is under way
  news,      \* a change event about the remote copy is on its way
  buffer,    \* the revision the open editor's buffer descends from, when it
             \* has withheld an update, and whether the engine was told
  clock,
  used,      \* deletions, troubles and withheld updates so far
  made,      \* history: the edits users have made
  deleted,   \* history: the edits in copies users have deleted
  saved,     \* the edits in safety copies and conflict copies
  gap        \* history: the edits exposed in one of the named windows

vars == <<local, remote, snapshot, stored, dirty, op, news, buffer, clock,
          used, made, deleted, saved, gap>>
users == <<made, deleted>>

Snapshot == [files      : {None} \cup [local : Time, remote : Time],
             remoteHash : {None} \cup Text,
             baseHash   : {None} \cup Text]

Blank == [files |-> None, remoteHash |-> None, baseHash |-> None]

(***************************************************************************)
(* The dirty queue                                                         *)
(***************************************************************************)
Origin == [type : {"local", "remote", "probe", "any"},
           time : {None} \cup Time, hash : {None} \cup Text]

\* A mark is not the absence of one.
ASSUME MarkAssumption == \A origin \in Origin : origin # None

Here  == [type |-> "local", time |-> None, hash |-> None]
Probed == [type |-> "probe", time |-> None, hash |-> None]
AnyOf(hash) == [type |-> "any", time |-> None, hash |-> hash]
There(file) == [type |-> "remote", time |-> file.time, hash |-> file.text]

\* The revision an older mark reported is dropped.
MergeOriginsForgets(a, b) ==
  IF a.type = b.type THEN b ELSE AnyOf(b.hash)

\* A newer mark decides, but never drops a revision it does not report itself.
MergeOrigins(a, b) ==
  LET hash == IF b.hash # None THEN b.hash ELSE a.hash
  IN  IF a.type = b.type THEN [b EXCEPT !.hash = hash] ELSE AnyOf(hash)

Marked(origin) == IF dirty = None THEN origin ELSE MergeOrigins(dirty, origin)

\* What a mark claims, for the engine to verify: nothing (a scan), that
\* something changed, or the revision the remote now holds.
Unknown == [type |-> "unknown", hash |-> None]
SignalFor(origin) ==
  IF origin.hash = None
  THEN [type |-> "changed", hash |-> None]
  ELSE [type |-> "remoteRevision", hash |-> origin.hash]

ShouldSkip(origin, healthy) ==
  \/ /\ origin.type = "remote"
     /\ snapshot.files # None
     /\ snapshot.files.remote = origin.time
     /\ \/ origin.hash = None
        \/ snapshot.remoteHash \in {None, origin.hash}
  \/ origin.type = "probe" /\ healthy

\* The timestamp alone decides.
LocalWriteIsEchoByTime ==
  /\ local # None
  /\ snapshot.files # None
  /\ local.time = snapshot.files.local

LocalWriteIsEcho ==
  /\ local # None
  /\ snapshot.files # None
  /\ local.time = snapshot.files.local
  /\ local.text = snapshot.remoteHash

(***************************************************************************)
(* Files                                                                   *)
(***************************************************************************)
TextOf(file) == IF file = None THEN {} ELSE file.text
TimeOf(file) == IF file = None THEN None ELSE file.time
Length(text) == Cardinality(text \ Silent)

\* Merge3 works on lines, here on edits: what both have, and what either added.
Merge3(base, proposed, current) ==
  (proposed \cap current) \cup (proposed \ base) \cup (current \ base)

\* The clock may stand still between two writes.
Now(t) ==
  /\ t \in {clock, clock + 1} \cap Time
  /\ clock' = t

\* The server replaces its copy and announces the change.
Put(text, time) ==
  /\ remote' = [text |-> text, time |-> time]
  /\ news' = TRUE

(***************************************************************************)
(* Which case of syncFile applies to the listed copies                     *)
(***************************************************************************)
LocalDiverged == snapshot.remoteHash # None /\ local.text # snapshot.remoteHash

\* Only asked when both copies exist and the path has an entry.
LocalKept  == local.time = snapshot.files.local
RemoteKept == remote.time = snapshot.files.remote

\* The listings show no difference: a signal is verified against the content.
ClassifySignalled(signal) ==
  LET localChanged  == local.text # snapshot.remoteHash
      remoteChanged == /\ signal.type = "remoteRevision"
                       /\ signal.hash # snapshot.remoteHash
  IN  CASE signal.type = "unknown" -> "none"
        [] signal.type # "unknown" /\ localChanged /\ remoteChanged -> "merge"
        [] signal.type # "unknown" /\ localChanged /\ ~remoteChanged -> "push"
        [] signal.type # "unknown" /\ ~localChanged /\ remoteChanged -> "pull"
        [] OTHER -> "none"

BothThere(signal) ==
  CASE snapshot.files = None -> "merge"
    [] snapshot.files # None /\ ~LocalKept /\ RemoteKept -> "push"
    [] snapshot.files # None /\ LocalKept /\ ~RemoteKept ->
         IF LocalDiverged THEN "merge" ELSE "pull"
    [] snapshot.files # None /\ ~LocalKept /\ ~RemoteKept -> "merge"
    [] OTHER ->
         IF Length(local.text) # Length(remote.text)
         THEN "merge"
         ELSE ClassifySignalled(signal)

Route(signal) ==
  CASE local # None /\ remote # None -> BothThere(signal)
    [] local # None /\ remote = None ->
         IF snapshot.files = None THEN "create"
         ELSE IF LocalKept /\ ~LocalDiverged THEN "gone" ELSE "recreate"
    [] local = None /\ remote # None ->
         IF snapshot.files = None THEN "pull" ELSE "erase"
    [] OTHER -> IF snapshot.files = None THEN "none" ELSE "drop"

(***************************************************************************)
(* The running operation                                                   *)
(***************************************************************************)
Steps == {"idle", "create", "recreate", "push", "gone", "erase", "pull",
          "adopt", "write", "merge", "apply", "settle", "resolve",
          "overwrite", "rebase"}

Op == [pc     : Steps,
       full   : BOOLEAN,              \* part of a full scan
       expect : {None} \cup Time,     \* the local timestamp as listed
       mine   : {None} \cup File,     \* the local copy as read
       theirs : {None} \cup File,     \* the remote copy, or the server's answer
       prior  : {None} \cup Text,     \* the revision to return to, or the base
       late   : Text]                 \* history: what was saved since it last
                                      \* looked at the local copy

Idle == [pc |-> "idle", full |-> FALSE, expect |-> None, mine |-> None,
         theirs |-> None, prior |-> None, late |-> {}]

At(step) == op.pc = step

\* The steps that rely on what the engine last saw of the local copy, and do
\* not look again.
Blind == {"gone", "write", "settle", "rebase"}

Overlooked(e) ==
  op' = IF op.pc \in Blind THEN [op EXCEPT !.late = @ \cup {e}] ELSE op

Goto(step) == op' = [op EXCEPT !.pc = step]

\* The operation is over.  A full scan saves the snapshot in any case, a single
\* file only when something was done.
Finish(operations, snap) ==
  /\ op' = Idle
  /\ snapshot' = snap
  /\ stored' = IF op.full \/ operations > 0 THEN snap ELSE stored

\* The timestamp in the server's answer is not taken over.
SyncedOneSided(mine, theirs, text) ==
  [files      |-> [local |-> mine, remote |-> None],
   remoteHash |-> text,
   baseHash   |-> text]

\* What both sides agree on after a push, a pull or a merge.
Synced(mine, theirs, text) ==
  [files      |-> [local |-> mine, remote |-> theirs],
   remoteHash |-> text,
   baseHash   |-> text]

Trouble ==
  /\ used.troubles < MaxTroubles
  /\ used' = [used EXCEPT !.troubles = @ + 1]

\* The server has acted; the answer arrives or is lost on the way.
Answered(heard, operations, snap) ==
  \/ /\ heard
     /\ Finish(operations, snap)
     /\ UNCHANGED used
  \/ /\ ~heard
     /\ Trouble
     /\ Finish(0, snapshot)

----------------------------------------------------------------------------
Init ==
  /\ local \in {None} \cup [text : {{}}, time : {0}]
  /\ remote \in {None} \cup [text : {{}}, time : {0}]
  /\ snapshot \in {Blank, [files      |-> [local |-> 0, remote |-> 0],
                          remoteHash |-> {},
                          baseHash   |-> {}]}
  /\ stored = snapshot
  /\ dirty = None
  /\ op = Idle
  /\ news = FALSE
  /\ buffer = None
  /\ clock = 0
  /\ used = [deletes |-> 0, troubles |-> 0, withheld |-> 0]
  /\ made = {}
  /\ deleted = {}
  /\ saved = {}
  /\ gap = [write |-> {}, base |-> {}, declare |-> {}, recorded |-> {}]

(***************************************************************************)
(* The users                                                               *)
(***************************************************************************)
\* handlePut of the proxy: the local copy is written and the path marked.
Save(e) ==
  /\ e \in Edits \ made
  /\ buffer = None
  /\ \E t \in Time :
       /\ Now(t)
       /\ local' = [text |-> TextOf(local) \cup {e}, time |-> t]
  /\ dirty' = Marked(Here)
  /\ made' = made \cup {e}
  /\ Overlooked(e)
  /\ UNCHANGED <<remote, snapshot, stored, news, buffer, used, deleted, saved,
                 gap>>

\* handleDelete of the proxy marks nothing.
Delete ==
  /\ local # None
  /\ used.deletes < MaxDeletes
  /\ used' = [used EXCEPT !.deletes = @ + 1]
  /\ local' = None
  /\ deleted' = deleted \cup local.text
  /\ UNCHANGED <<remote, snapshot, stored, dirty, op, news, buffer, clock,
                 made, saved, gap>>

RemoteSave(e) ==
  /\ e \in Edits \ made
  /\ \E t \in Time : Now(t) /\ Put(TextOf(remote) \cup {e}, t)
  /\ made' = made \cup {e}
  /\ UNCHANGED <<local, snapshot, stored, dirty, op, buffer, used, deleted,
                 saved, gap>>

\* A delete event takes the place of a change event that was not flushed yet.
RemoteDelete ==
  /\ remote # None
  /\ used.deletes < MaxDeletes
  /\ used' = [used EXCEPT !.deletes = @ + 1]
  /\ remote' = None
  /\ news' = FALSE
  /\ deleted' = deleted \cup remote.text
  /\ UNCHANGED <<local, snapshot, stored, dirty, op, buffer, clock, made,
                 saved, gap>>

\* The event reaches the service worker with the revision it reports.
Deliver ==
  /\ news
  /\ news' = FALSE
  /\ dirty' = Marked(There(remote))
  /\ UNCHANGED <<local, remote, snapshot, stored, op, buffer, clock, used,
                 made, deleted, saved, gap>>

\* The page that is open in the editor is looked at now and then.
Probe ==
  /\ dirty' = Marked(Probed)
  /\ UNCHANGED <<local, remote, snapshot, stored, op, news, buffer, clock,
                 used, made, deleted, saved, gap>>

(***************************************************************************)
(* The editor                                                              *)
(***************************************************************************)
\* An update replaced the local copy under an editor whose unsaved changes
\* collide with it: the buffer goes on descending from the copy before.
Withhold(file) ==
  \/ UNCHANGED <<buffer, used>>
  \/ /\ buffer = None
     /\ file # None
     /\ used.withheld < MaxWithheld
     /\ used' = [used EXCEPT !.withheld = @ + 1]
     /\ buffer' = [base |-> file.text, declared |-> FALSE]

\* declareDivergentBase: both the base and the expected revision move back.
Declare ==
  /\ buffer # None
  /\ ~buffer.declared
  /\ snapshot' = [snapshot EXCEPT !.baseHash = buffer.base,
                                  !.remoteHash = buffer.base]
  /\ stored' = snapshot'
  /\ buffer' = [buffer EXCEPT !.declared = TRUE]
  /\ UNCHANGED <<local, remote, dirty, op, news, clock, used, made, deleted,
                 saved, gap>>

Declared ==
  \A s \in {snapshot, stored} :
    s.baseHash = buffer.base /\ s.remoteHash = buffer.base

\* Then the editor writes its buffer, which the local copy is no ancestor of.
\* An operation under way, or one that came in between and recorded another
\* revision, exposes what the buffer does not hold.
DivergentWrite(e) ==
  /\ e \in Edits \ made
  /\ buffer # None
  /\ buffer.declared
  /\ \E t \in Time :
       /\ Now(t)
       /\ local' = [text |-> buffer.base \cup {e}, time |-> t]
  /\ dirty' = Marked(Here)
  /\ buffer' = None
  /\ made' = made \cup {e}
  /\ gap' = IF At("idle") /\ Declared
            THEN gap
            ELSE [gap EXCEPT !.declare = @ \cup (TextOf(local) \ buffer.base)]
  /\ Overlooked(e)
  /\ UNCHANGED <<remote, snapshot, stored, news, used, deleted, saved>>

(***************************************************************************)
(* The loop of the engine                                                  *)
(***************************************************************************)
Begin(full, signal) ==
  LET route == Route(signal)
      start == [Idle EXCEPT !.full = full]
  IN  CASE route = "none" ->
             /\ stored' = IF full THEN snapshot ELSE stored
             /\ UNCHANGED <<op, snapshot>>
        [] route = "drop" ->
             /\ snapshot' = Blank
             /\ stored' = Blank
             /\ UNCHANGED op
        [] OTHER ->
             /\ op' = [start EXCEPT !.pc = route,
                                    !.expect = TimeOf(local),
                                    !.mine = IF route = "gone" THEN local
                                                               ELSE None]
             /\ UNCHANGED <<snapshot, stored>>

\* The regular scan of the whole space reaches the path.
Scan ==
  /\ At("idle")
  /\ Begin(TRUE, Unknown)
  /\ UNCHANGED <<local, remote, dirty, news, buffer, clock, used, users,
                 saved, gap>>

\* The loop takes the path from the queue and drops the mark of an echo.
Take ==
  /\ At("idle")
  /\ dirty # None
  /\ dirty' = None
  /\ \E healthy \in BOOLEAN :
       IF \/ ShouldSkip(dirty, healthy)
          \/ dirty.type = "local" /\ LocalWriteIsEcho
       THEN UNCHANGED <<op, snapshot, stored>>
       ELSE Begin(FALSE, SignalFor(dirty))
  /\ UNCHANGED <<local, remote, news, buffer, clock, used, users, saved, gap>>

(***************************************************************************)
(* The operations.  A file that is gone when it is read ends the operation *)
(* with an error, as a failed request does.                                *)
(***************************************************************************)
\* New on this side: a conditional create, and the resolver when it fails.
Create(heard) ==
  /\ At("create")
  /\ local # None
  /\ \/ /\ remote = None
        /\ Put(local.text, local.time)
        /\ Answered(heard, 1, Synced(local.time, local.time, local.text))
     \/ /\ remote # None
        /\ heard
        /\ Goto("resolve")
        /\ UNCHANGED <<remote, news, snapshot, stored, used>>
  /\ UNCHANGED <<local, dirty, buffer, clock, users, saved, gap>>

\* Edited here, deleted there: the edit wins.
Recreate(heard) ==
  /\ At("recreate")
  /\ local # None
  /\ \/ /\ remote = None
        /\ Put(local.text, local.time)
        /\ Answered(heard, 1, Synced(local.time, local.time, local.text))
        /\ UNCHANGED dirty
     \/ /\ remote # None
        /\ heard
        /\ dirty' = Marked(AnyOf(None))
        /\ Finish(1, snapshot)
        /\ UNCHANGED <<remote, news, used>>
  /\ UNCHANGED <<local, buffer, clock, users, saved, gap>>

\* pushLocalCopy: a write on condition that the recorded revision is there.
Push(heard) ==
  /\ At("push")
  /\ local # None
  /\ \/ /\ remote # None
        /\ remote.text = snapshot.remoteHash
        /\ Put(local.text, local.time)
        /\ Answered(heard, 1, Synced(local.time, local.time, local.text))
     \/ /\ TextOf(remote) # snapshot.remoteHash \/ remote = None
        /\ heard
        /\ Goto("merge")
        /\ UNCHANGED <<remote, news, snapshot, stored, used>>
  /\ UNCHANGED <<local, dirty, buffer, clock, users, saved, gap>>

\* Deleted there, unchanged here: the entries go, then the local copy.  If that
\* is gone as well the operation ends with an error.
Gone ==
  /\ At("gone")
  /\ Finish(IF local = None THEN 0 ELSE 1, Blank)
  /\ local' = None
  /\ gap' = [gap EXCEPT !.write = @ \cup op.late]
  /\ UNCHANGED <<remote, dirty, news, buffer, clock, used, users, saved>>

\* Deleted here: a delete on condition that the recorded revision is there.
Erase(heard) ==
  /\ At("erase")
  /\ \/ /\ remote # None
        /\ remote.text = snapshot.remoteHash
        /\ remote' = None
        /\ news' = FALSE
        /\ Answered(heard, 1, Blank)
     \/ /\ TextOf(remote) # snapshot.remoteHash \/ remote = None
        /\ heard
        /\ Goto("pull")
        /\ UNCHANGED <<remote, news, snapshot, stored, used>>
  /\ UNCHANGED <<local, dirty, buffer, clock, users, saved, gap>>

\* pullFromSecondary, first half: both copies are read, and the revision of
\* the remote one is recorded.
Pull ==
  /\ At("pull")
  /\ remote # None
  /\ op' = [op EXCEPT !.pc = "adopt", !.mine = local, !.theirs = remote,
                      !.prior = snapshot.remoteHash]
  /\ snapshot' = [snapshot EXCEPT !.remoteHash = remote.text]
  /\ UNCHANGED <<local, remote, stored, dirty, news, buffer, clock, used,
                 users, saved, gap>>

\* Timestamps repeat: two saves in one millisecond look alike.
LocalHeldByTime == TimeOf(local) = op.expect

\* The local copy is what it was before the remote read, and when it was listed.
LocalHeld ==
  /\ (local = None) = (op.mine = None)
  /\ TextOf(local) = TextOf(op.mine)
  /\ TimeOf(local) = op.expect

\* Second half: a safety copy, then the local copy is read again.  If it has
\* moved the pull is abandoned and the revision forgotten.
Adopt ==
  /\ At("adopt")
  /\ saved' = IF op.mine = None \/ TextOf(op.mine) = op.theirs.text
                 \/ TextOf(op.mine) = snapshot.baseHash
              THEN saved ELSE saved \cup op.mine.text
  /\ \/ /\ LocalHeld
        /\ Goto("write")
        /\ UNCHANGED <<snapshot, stored, dirty>>
     \/ /\ ~LocalHeld
        /\ dirty' = Marked(AnyOf(None))
        /\ Finish(0, [snapshot EXCEPT !.remoteHash = op.prior])
  /\ UNCHANGED <<local, remote, news, buffer, clock, used, users, gap>>

\* The write itself looks at nothing: a save since the second read is lost.
Write ==
  /\ At("write")
  /\ local' = op.theirs
  /\ gap' = [gap EXCEPT !.write = @ \cup op.late]
  /\ Withhold(op.mine)
  /\ Finish(1, [snapshot EXCEPT
                  !.files = [local  |-> op.theirs.time,
                             remote |-> op.theirs.time],
                  !.baseHash = op.theirs.text])
  /\ UNCHANGED <<remote, dirty, news, clock, users, saved>>

(***************************************************************************)
(* tryReconcile                                                            *)
(***************************************************************************)
\* The server's answer to base and proposal, and its write if there is one.
Reconcile(base, proposed) ==
  \/ /\ remote # None
     /\ remote.text = proposed
     /\ op' = [op EXCEPT !.pc = "apply", !.mine = local, !.theirs = remote,
                         !.prior = base]
     /\ UNCHANGED <<remote, news, clock>>
  \/ /\ remote = None \/ TextOf(remote) # proposed
     /\ \E t \in Time :
          /\ Now(t)
          /\ Put(IF remote = None THEN proposed
                 ELSE Merge3(base, proposed, remote.text), t)
     /\ op' = [op EXCEPT !.pc = "apply", !.mine = local, !.theirs = remote',
                         !.prior = base]

Merge ==
  /\ At("merge")
  /\ local # None
  /\ snapshot.baseHash # None
  /\ Reconcile(snapshot.baseHash, local.text)
  /\ UNCHANGED <<local, snapshot, stored, dirty, buffer, used, users, saved,
                 gap>>

\* No base, or the server refuses the texts (409): the conflict resolver.
MergeRefused ==
  /\ At("merge")
  /\ Goto("resolve")
  /\ UNCHANGED <<local, remote, snapshot, stored, dirty, news, buffer, clock,
                 used, users, saved, gap>>

\* The answer is lost: the resolver takes over, unaware of the server's write.
MergeUnheard ==
  /\ At("merge")
  /\ local # None
  /\ snapshot.baseHash # None
  /\ remote # None
  /\ local.text # remote.text
  /\ Trouble
  /\ \E t \in Time :
       /\ Now(t)
       /\ Put(Merge3(snapshot.baseHash, local.text, remote.text), t)
  /\ Goto("resolve")
  /\ UNCHANGED <<local, snapshot, stored, dirty, buffer, users, saved, gap>>

\* The local copy is read again.  If it has moved, the proposal becomes the
\* base of the next attempt (localAdvanced).
Apply ==
  /\ At("apply")
  /\ \/ /\ local # None
        /\ local.text = op.mine.text
        /\ saved' = IF op.mine.text \in {op.prior, op.theirs.text}
                    THEN saved ELSE saved \cup op.mine.text
        /\ Goto("settle")
        /\ UNCHANGED <<snapshot, stored, dirty>>
     \/ /\ local = None \/ TextOf(local) # op.mine.text
        /\ dirty' = Marked(AnyOf(None))
        /\ Finish(1, [snapshot EXCEPT !.baseHash = op.mine.text])
        /\ UNCHANGED saved
  /\ UNCHANGED <<local, remote, news, buffer, clock, used, users, gap>>

Settle ==
  /\ At("settle")
  /\ local' = op.theirs
  /\ gap' = [gap EXCEPT !.write = @ \cup op.late]
  /\ Withhold(op.mine)
  /\ Finish(1, Synced(op.theirs.time, op.theirs.time, op.theirs.text))
  /\ UNCHANGED <<remote, dirty, news, clock, users, saved>>

(***************************************************************************)
(* primaryConflictResolver: the local copy wins                            *)
(***************************************************************************)
Resolve ==
  /\ At("resolve")
  /\ local # None
  /\ remote # None
  /\ \/ /\ local.text = remote.text
        /\ snapshot' = [snapshot EXCEPT
             !.files = [local |-> local.time, remote |-> remote.time],
             !.remoteHash = remote.text]
        /\ op' = [op EXCEPT !.pc = "rebase", !.mine = local]
     \/ /\ local.text # remote.text
        /\ snapshot' = [snapshot EXCEPT !.remoteHash = remote.text]
        /\ op' = [op EXCEPT !.pc = "overwrite", !.mine = local,
                            !.theirs = remote]
  /\ UNCHANGED <<local, remote, stored, dirty, news, buffer, clock, used,
                 users, saved, gap>>

\* After a 412 the entry would stay, without a revision to go with it.
ForgottenByHalf == [snapshot EXCEPT !.remoteHash = None]

\* A resolution whose push was refused drops the entry and the revision.
Forgotten == [snapshot EXCEPT !.files = None, !.remoteHash = None]

\* The remote text is kept in a conflict copy (which may be there already);
\* then the local one is pushed over it, unless either side has moved.
Overwrite(heard) ==
  /\ At("overwrite")
  /\ saved' = saved \cup op.theirs.text
  /\ \/ /\ local = None \/ TextOf(local) # op.mine.text
        /\ heard
        /\ \E operations \in {0, 1} :
             Finish(operations, [snapshot EXCEPT !.files = None])
        /\ UNCHANGED <<remote, news, clock, used>>
     \/ /\ local # None
        /\ local.text = op.mine.text
        /\ remote # None
        /\ remote.text = op.theirs.text
        /\ \E t \in Time :
             /\ Now(t)
             /\ Put(op.mine.text, t)
             /\ \/ /\ heard
                   /\ snapshot' = [snapshot EXCEPT
                        !.files = [local |-> op.mine.time, remote |-> t],
                        !.remoteHash = op.mine.text]
                   /\ Goto("rebase")
                   /\ UNCHANGED <<stored, used>>
                \/ /\ ~heard
                   /\ Trouble
                   /\ Finish(0, snapshot)
     \/ /\ local # None
        /\ local.text = op.mine.text
        /\ remote = None \/ TextOf(remote) # op.theirs.text
        /\ heard
        /\ \E operations \in {0, 1} : Finish(operations, Forgotten)
        /\ UNCHANGED <<remote, news, clock, used>>
  /\ UNCHANGED <<local, dirty, buffer, users, gap>>

\* callConflictResolver then takes the base from the local copy as it is now.
Rebase ==
  /\ At("rebase")
  /\ Finish(IF op.theirs = None THEN 0 ELSE 1,
            IF local = None THEN snapshot
            ELSE [snapshot EXCEPT !.baseHash = local.text])
  /\ gap' = [gap EXCEPT !.base = @ \cup op.late]
  /\ UNCHANGED <<local, remote, dirty, news, buffer, clock, used, users,
                 saved>>

(***************************************************************************)
(* Errors and crashes                                                      *)
(***************************************************************************)
\* A file that is gone, there or here, when it is to be read.
Missing ==
  \/ local = None /\ op.pc \in {"create", "recreate", "push", "resolve"}
  \/ remote = None /\ op.pc \in {"pull", "resolve"}

NotFound ==
  /\ Missing
  /\ Finish(0, snapshot)
  /\ UNCHANGED <<local, remote, dirty, news, buffer, clock, used, users,
                 saved, gap>>

\* A request never reaches the server.  The resolver has then recorded a
\* revision this replica never held.
RequestFails ==
  /\ op.pc \in {"create", "recreate", "push", "erase", "pull", "resolve",
                "overwrite"}
  /\ Trouble
  /\ Finish(0, snapshot)
  /\ gap' = IF At("overwrite")
            THEN [gap EXCEPT !.recorded = @ \cup op.theirs.text]
            ELSE gap
  /\ UNCHANGED <<local, remote, dirty, news, buffer, clock, users, saved>>

\* The service worker is stopped and started: what it held in memory is gone.
Crash ==
  /\ Trouble
  /\ op' = Idle
  /\ snapshot' = stored
  /\ dirty' = None
  /\ news' \in {news, FALSE}
  /\ UNCHANGED <<local, remote, stored, buffer, clock, users, saved, gap>>

----------------------------------------------------------------------------
Request(heard) ==
  \/ Create(heard)
  \/ Recreate(heard)
  \/ Push(heard)
  \/ Erase(heard)
  \/ Overwrite(heard)

\* What the engine does when nothing fails.
Engine ==
  \/ Take
  \/ Request(TRUE)
  \/ Gone
  \/ Pull
  \/ Adopt
  \/ Write
  \/ Merge
  \/ MergeRefused
  \/ Apply
  \/ Settle
  \/ Resolve
  \/ Rebase
  \/ NotFound

Next ==
  \/ \E e \in Edits : Save(e) \/ RemoteSave(e) \/ DivergentWrite(e)
  \/ Delete
  \/ RemoteDelete
  \/ Deliver
  \/ Probe
  \/ Declare
  \/ Scan
  \/ Engine
  \/ Request(FALSE)
  \/ MergeUnheard
  \/ RequestFails
  \/ Crash

Spec == Init /\ [][Next]_vars

(***************************************************************************)
(* The loop goes on (run() in sync_engine.ts): awaits return, marks are    *)
(* taken, the scan comes round, and a change event that is on its way      *)
(* arrives.  Users, failures and crashes owe nothing.                      *)
(***************************************************************************)
Fairness ==
  /\ WF_vars(Engine)
  /\ WF_vars(Scan)
  /\ WF_vars(Deliver)

FairSpec == Spec /\ Fairness

----------------------------------------------------------------------------
Buffer == [base : Text, declared : BOOLEAN]
Used == [deletes : 0 .. MaxDeletes, troubles : 0 .. MaxTroubles,
         withheld : 0 .. MaxWithheld]
Gap == [write : Text, base : Text, declare : Text, recorded : Text]

\* What the engine and the server hold has its shape at every step: an entry
\* has both times, a revision is a content and not a time.
TypeOK ==
  /\ local \in {None} \cup File
  /\ remote \in {None} \cup File
  /\ snapshot \in Snapshot
  /\ stored \in Snapshot
  /\ dirty \in {None} \cup Origin
  /\ op \in Op
  /\ news \in BOOLEAN
  /\ buffer \in {None} \cup Buffer
  /\ clock \in Time
  /\ used \in Used
  /\ made \in Text
  /\ deleted \in Text
  /\ saved \in Text
  /\ gap \in Gap

\* Where an edit can still be found by its author.
Kept == TextOf(local) \cup TextOf(remote) \cup saved

Lost == made \ (Kept \cup deleted)

\* An edit that users made and did not delete is in a copy or kept beside one,
\* but for four windows: saved after the engine's last look and before its
\* write (write), taken for the base by callConflictResolver (base), known to
\* neither the divergent buffer nor its base (declare), or recorded by a
\* resolution that then failed (recorded).
NoEditLost == Lost \subseteq gap.write \cup gap.base \cup gap.declare
                           \cup gap.recorded

\* A path with an entry has a recorded revision: no push and no delete goes
\* out without the revision it expects.
RevisionKnown ==
  /\ snapshot.files # None => snapshot.remoteHash # None
  /\ stored.files # None => stored.remoteHash # None

\* When nothing is marked and the scan has nothing to do, the sides agree.
QuietMeansSynced ==
  At("idle") /\ dirty = None /\ ~news /\ used.troubles = 0
      /\ Route(Unknown) = "none"
    => TextOf(local) = TextOf(remote)

\* The sides agree in the end.
Converges == <>[](\/ TextOf(local) = TextOf(remote)
                  \/ used.troubles > 0 /\ Route(Unknown) = "none")

\* The revision recorded for a path is one this replica has held (the comments
\* in localAdvanced and tryReconcile): what an operation that failed half way
\* has recorded never lets a later delete or push destroy an edit.
UnseenRevisionHarmless == Lost \subseteq gap.write \cup gap.base \cup gap.declare
=============================================================================
