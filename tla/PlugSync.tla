------------------------------ MODULE PlugSync ------------------------------
(***************************************************************************)
(* performSync (src/plugs/sync/sync_engine.ts): several devices keep a     *)
(* space in step with one cloud folder that none of them owns.  A run      *)
(* loads the persisted state, lists both sides, and then handles one path  *)
(* at a time; every await of the code is a point where users, the other    *)
(* devices, a second run on the same device, faults and crashes intervene. *)
(*                                                                         *)
(* Data.  The content of a file is the set of edits it incorporates; {} is *)
(* "no file".  A remote version carries the stamp that tells two uploads   *)
(* of the same content apart (Dropbox revs, end-to-end encrypted ETags) or *)
(* stamp 0 when the ETag is a hash of the content (ChessNote Cloud), and   *)
(* stands for its own rev.  A local file carries the number of writes the  *)
(* device made to it, which stands for lastModified.                       *)
(***************************************************************************)
EXTENDS Naturals, FiniteSets

CONSTANTS
  Devices,          \* installations of the app, each with a space of its own
  Paths,            \* the paths computeSyncScope leaves in scope
  Binary,           \* the paths whose bytes are not valid UTF-8
  Runs,             \* concurrent invocations of performSync
  Owner,            \* the device a run belongs to
  FreshRevs,        \* TRUE: a rev per upload; FALSE: rev = hash of the content
  EtagInPut,        \* FALSE: a PUT answers without an ETag, so HEAD asks for it
  OverlapDevices,   \* may devices run performSync at the same time
  EditDuringSync,   \* may the user work on a device while it is syncing
  FaultKinds,       \* the faults that may happen
  MaxEdits,         \* bound: edits by users
  MaxUserOps,       \* bound: saves and deletions by users
  MaxFaults,        \* bound: faults
  CheckpointBatch   \* paths after which a checkpoint is forced

ASSUME ConstAssumption ==
  /\ Devices # {} /\ Paths # {}
  /\ Binary \subseteq Paths
  /\ Owner \in [Runs -> Devices]
  /\ {FreshRevs, EtagInPut, OverlapDevices, EditDuringSync} \subseteq BOOLEAN
  /\ FaultKinds \subseteq {"crash", "error", "timeout", "stateRead"}
  /\ {MaxEdits, MaxUserOps, MaxFaults} \subseteq Nat
  /\ CheckpointBatch \in Nat \ {0}

VARIABLES
  local,    \* local[d][p]: the file p of device d
  remote,   \* remote[p]: the file p in the cloud folder
  stored,   \* stored[d]: the SyncState file of device d
  copies,   \* the .conflict files written so far, by path and content
  run,      \* run[r]: what an invocation of performSync holds in memory
  wanted,   \* wanted[p]: edits made to p that nobody has taken back since
  edits,    \* edits made so far
  userOps,  \* saves and deletions so far
  faults    \* faults so far

users == <<wanted, edits, userOps>>
vars  == <<local, remote, stored, copies, run, users, faults>>

Contents == SUBSET (1 .. MaxEdits)
Files    == [tick : Nat, content : Contents]
Versions == [stamp : Nat, content : Contents]
Entries  == [mtime : Nat, rev : Versions]

NoVersion == [stamp |-> 0, content |-> {}]
NoEntry   == [mtime |-> 0, rev |-> NoVersion]
NoState   == [p \in Paths |-> NoEntry]

\* What listFiles and listEntries report of a path; 0 and NoVersion: absent.
Mtime(d, p) == IF local[d][p].content = {} THEN 0 ELSE local[d][p].tick
Rev(p)      == IF remote[p].content = {} THEN NoVersion ELSE remote[p]

\* The branch performSync takes for a path it lists with mtime l and rev v,
\* when the state it loaded has the entry prior.
OnlyLocal(l, prior) ==
  IF prior # NoEntry /\ l = prior.mtime THEN "deleteLocal" ELSE "add"

\* Mutant: a remote edit does not stop the deletion.
OnlyRemoteDeletes(v, prior) == IF prior # NoEntry THEN "deleteRemote" ELSE "fetch"

OnlyRemote(v, prior) ==
  IF prior # NoEntry /\ v = prior.rev THEN "deleteRemote" ELSE "fetch"

\* Mutant: a remote change is not noticed.
BothIgnoresRemote(l, v, prior) ==
  CASE prior = NoEntry                   -> "compare"
    [] prior # NoEntry /\ l # prior.mtime ->
         IF v # prior.rev THEN "conflict" ELSE "update"
    [] prior # NoEntry /\ l = prior.mtime -> "keep"

Both(l, v, prior) ==
  CASE prior = NoEntry                                    -> "compare"
    [] prior # NoEntry /\ l # prior.mtime /\ v # prior.rev -> "conflict"
    [] prior # NoEntry /\ l # prior.mtime /\ v = prior.rev -> "update"
    [] prior # NoEntry /\ l = prior.mtime /\ v # prior.rev -> "fetch"
    [] prior # NoEntry /\ l = prior.mtime /\ v = prior.rev -> "keep"

Plan(l, v, prior) ==
  CASE l = 0 /\ v = NoVersion -> "forget"
    [] l # 0 /\ v = NoVersion -> OnlyLocal(l, prior)
    [] l = 0 /\ v # NoVersion -> OnlyRemote(v, prior)
    [] l # 0 /\ v # NoVersion -> Both(l, v, prior)

Plans == {"forget", "deleteLocal", "add", "deleteRemote", "fetch", "compare",
          "conflict", "update", "keep"}

\* The first call a branch awaits.
FirstCall(plan) ==
  CASE plan \in {"add", "update"}                -> "read"
    [] plan \in {"fetch", "compare", "conflict"} -> "download"
    [] plan = "deleteLocal"                      -> "deleteLocal"
    [] plan = "deleteRemote"                     -> "deleteRemote"
    [] plan = "forget"                           -> "checkpoint"
    [] plan = "keep"                             -> "loop"

Calls == {"download", "writeLocal", "read", "copy", "upload", "head",
          "deleteLocal", "deleteRemote", "checkpoint"}

Invocations ==
  [pc      : {"idle", "list", "loop"} \cup Calls,
   listing : SUBSET {"local", "remote"},   \* the listings still awaited
   listL   : [Paths -> Nat],               \* localMap
   listR   : [Paths -> Versions],          \* remoteMap
   next    : [Paths -> Entries],           \* nextState; state where not done
   done    : SUBSET Paths,                 \* paths the loop has taken
   path    : Paths,
   plan    : Plans,
   dl      : Versions,                     \* what download returned
   data    : Contents,                     \* what readFile returned
   since   : Nat]                          \* pendingSinceCheckpoint

Idle ==
  [pc |-> "idle", listing |-> {}, listL |-> [p \in Paths |-> 0],
   listR |-> [p \in Paths |-> NoVersion], next |-> NoState, done |-> {},
   path |-> CHOOSE p \in Paths : TRUE, plan |-> "keep",
   dl |-> NoVersion, data |-> {}, since |-> 0]

-----------------------------------------------------------------------------

Init ==
  /\ local  = [d \in Devices |-> [p \in Paths |-> [tick |-> 0, content |-> {}]]]
  /\ remote = [p \in Paths |-> NoVersion]
  /\ stored = [d \in Devices |-> NoState]
  /\ copies = {}
  /\ run    = [r \in Runs |-> Idle]
  /\ wanted = [p \in Paths |-> {}]
  /\ edits   = 0
  /\ userOps = 0
  /\ faults  = 0

Busy(d) == \E r \in Runs : Owner[r] = d /\ run[r].pc # "idle"

\* Mutant: a write sets lastModified back.
WriteFileBackdated(d, p, c) ==
  local' = [local EXCEPT ![d][p] = [tick |-> @.tick - 1, content |-> c]]

WriteFile(d, p, c) ==
  local' = [local EXCEPT ![d][p] = [tick |-> @.tick + 1, content |-> c]]

DeleteFile(d, p) == local' = [local EXCEPT ![d][p].content = {}]

\* The cloud folder takes content c at p, or loses p.
Put(p, c) ==
  remote' = [remote EXCEPT ![p] =
               [stamp |-> IF FreshRevs THEN @.stamp + 1 ELSE 0, content |-> c]]

DropRemote(p) == remote' = [remote EXCEPT ![p].content = {}]

\* Mutant: an unconditional write.
AcceptsAlways(r) == r \in Runs

\* The conditional write: add needs an absent file, update the listed rev.
Accepts(r) == LET p == run[r].path IN
  Rev(p) = IF run[r].plan = "add" THEN NoVersion ELSE run[r].listR[p]

-----------------------------------------------------------------------------
(* Users *)

UserMay(d) ==
  /\ userOps < MaxUserOps
  /\ EditDuringSync \/ ~Busy(d)

\* The user saves content c: what she left out of the old one she took back.
\* c may equal the old content, and an edit is made only once.
Save(d, p, c) ==
  LET old == local[d][p].content
  IN /\ UserMay(d)
     /\ c # {} /\ c \subseteq old \cup ({edits + 1} \cap (1 .. MaxEdits))
     /\ WriteFile(d, p, c)
     /\ wanted' = [wanted EXCEPT ![p] = (@ \ (old \ c)) \cup (c \ old)]
     /\ edits' = IF c \subseteq old THEN edits ELSE edits + 1
     /\ userOps' = userOps + 1
     /\ UNCHANGED <<remote, stored, copies, run, faults>>

Delete(d, p) ==
  /\ UserMay(d)
  /\ local[d][p].content # {}
  /\ DeleteFile(d, p)
  /\ wanted' = [wanted EXCEPT ![p] = @ \ local[d][p].content]
  /\ userOps' = userOps + 1
  /\ UNCHANGED <<remote, stored, copies, run, edits, faults>>

-----------------------------------------------------------------------------
(* One invocation of performSync *)

\* The invocation goes on with its fields as i says.
Becomes(r, i) == run' = [run EXCEPT ![r] = i]

Goto(r, pc) == Becomes(r, [run[r] EXCEPT !.pc = pc])

\* A path is finished: its entry in nextState is e and a checkpoint follows,
\* or the exception is caught and the loop goes on with the entry it had.
Finished(i, e) ==
  [i EXCEPT !.next[i.path] = e, !.pc = "checkpoint", !.dl = NoVersion, !.data = {}]

Skipped(i) == [i EXCEPT !.pc = "loop", !.dl = NoVersion, !.data = {}]

\* Mutant: lastModified is asked for again after the upload.
RecordedNow(r, v) == [mtime |-> Mtime(Owner[r], run[r].path), rev |-> v]

\* What a run records of its path once the cloud has the local file as v.
Recorded(r, v) == [mtime |-> run[r].listL[run[r].path], rev |-> v]

MayStart(r) ==
  /\ run[r].pc = "idle"
  /\ OverlapDevices \/ \A d \in Devices \ {Owner[r]} : ~Busy(d)

\* loadState; a state file that cannot be read counts as no state at all.
Begin(r, state) ==
  /\ MayStart(r)
  /\ Becomes(r, [Idle EXCEPT !.pc = "list", !.listing = {"local", "remote"},
                             !.next = state])
  /\ UNCHANGED <<local, remote, stored, copies, users>>

Start(r) == Begin(r, stored[Owner[r]]) /\ UNCHANGED faults

Listed(r, side) ==
  /\ run[r].pc = "list" /\ side \in run[r].listing
  /\ UNCHANGED <<local, remote, stored, copies, users, faults>>

AfterListing(i, side) ==
  [i EXCEPT !.listing = @ \ {side},
            !.pc = IF i.listing = {side} THEN "loop" ELSE "list"]

ListLocal(r) ==
  /\ Listed(r, "local")
  /\ Becomes(r, [AfterListing(run[r], "local") EXCEPT
                   !.listL = [p \in Paths |-> Mtime(Owner[r], p)]])

ListRemote(r) ==
  /\ Listed(r, "remote")
  /\ Becomes(r, [AfterListing(run[r], "remote") EXCEPT
                   !.listR = [p \in Paths |-> Rev(p)]])

\* allPaths, without those the loop has taken.
Remaining(i) ==
  {p \in Paths \ i.done : \/ i.listL[p] # 0
                          \/ i.listR[p] # NoVersion
                          \/ i.next[p] # NoEntry}

Take(r, p) ==
  LET plan == Plan(run[r].listL[p], run[r].listR[p], run[r].next[p])
  IN /\ run[r].pc = "loop" /\ p \in Remaining(run[r])
     /\ Becomes(r, [run[r] EXCEPT
                      !.done = @ \cup {p}, !.path = p, !.plan = plan,
                      !.pc = FirstCall(plan),
                      !.next[p] = IF plan = "forget" THEN NoEntry ELSE @])
     /\ UNCHANGED <<local, remote, stored, copies, users, faults>>

Download(r) ==
  LET i == run[r]  v == Rev(i.path)
  IN /\ i.pc = "download"
     /\ Becomes(r, IF v = NoVersion THEN Skipped(i)
                   ELSE [i EXCEPT !.dl = v,
                           !.pc = CASE i.plan = "fetch"   -> "writeLocal"
                                    [] i.plan = "compare" -> "read"
                                    [] OTHER              -> "copy"])
     /\ UNCHANGED <<local, remote, stored, copies, users, faults>>

\* Mutant: the rev of the listing is recorded, not that of the download.
WriteLocalListedRev(r) ==
  LET i == run[r]  d == Owner[r]
  IN /\ i.pc = "writeLocal"
     /\ WriteFile(d, i.path, i.dl.content)
     /\ Becomes(r, Finished(i, [mtime |-> local[d][i.path].tick + 1,
                                rev |-> i.listR[i.path]]))
     /\ UNCHANGED <<remote, stored, copies, users, faults>>

WriteLocal(r) ==
  LET i == run[r]  d == Owner[r]
  IN /\ i.pc = "writeLocal"
     /\ WriteFile(d, i.path, i.dl.content)
     /\ Becomes(r, Finished(i, [mtime |-> local[d][i.path].tick + 1, rev |-> i.dl]))
     /\ UNCHANGED <<remote, stored, copies, users, faults>>

\* readFile, and in the branch "compare" the byte comparison after it.
Read(r) ==
  LET i == run[r]  c == local[Owner[r]][i.path].content
  IN /\ i.pc = "read"
     /\ Becomes(r,
          CASE c = {} -> Skipped(i)
            [] c # {} /\ i.plan = "compare" /\ c = i.dl.content ->
                 Finished(i, Recorded(r, i.dl))
            [] c # {} /\ i.plan = "compare" /\ c # i.dl.content ->
                 [i EXCEPT !.plan = "conflict", !.pc = "copy"]
            [] c # {} /\ i.plan # "compare" ->
                 [i EXCEPT !.data = c, !.pc = "upload"])
     /\ UNCHANGED <<local, remote, stored, copies, users, faults>>

\* resolveConflict keeps the remote text in a .conflict file; bytes that are
\* not UTF-8 are replaced by a placeholder.
Copy(r) ==
  LET i == run[r]
  IN /\ i.pc = "copy"
     /\ copies' = copies \cup
          {[path |-> i.path,
            content |-> IF i.path \in Binary THEN {} ELSE i.dl.content]}
     /\ Goto(r, "read")
     /\ UNCHANGED <<local, remote, stored, users, faults>>

\* A refused write is a RemoteConflictError: the path waits for the next run.
Upload(r) ==
  LET i == run[r]
  IN /\ i.pc = "upload"
     /\ \/ /\ Accepts(r)
           /\ Put(i.path, i.data)
           /\ Becomes(r, IF EtagInPut
                         THEN Finished(i, Recorded(r, remote'[i.path]))
                         ELSE [i EXCEPT !.pc = "head"])
        \/ /\ ~Accepts(r)
           /\ Becomes(r, Skipped(i))
           /\ UNCHANGED remote
     /\ UNCHANGED <<local, stored, copies, users, faults>>

\* The ETag of whatever the server holds by now.
Head(r) ==
  LET i == run[r]
  IN /\ i.pc = "head"
     /\ Becomes(r, Finished(i, Recorded(r, Rev(i.path))))
     /\ UNCHANGED <<local, remote, stored, copies, users, faults>>

DeleteLocal(r) ==
  LET i == run[r]  d == Owner[r]
  IN /\ i.pc = "deleteLocal"
     /\ DeleteFile(d, i.path)
     /\ Becomes(r, IF local[d][i.path].content = {} THEN Skipped(i)
                   ELSE Finished(i, NoEntry))
     /\ UNCHANGED <<remote, stored, copies, users, faults>>

\* Unconditional, and "not found" counts as done.
DeleteRemote(r) ==
  /\ run[r].pc = "deleteRemote"
  /\ DropRemote(run[r].path)
  /\ Becomes(r, Finished(run[r], NoEntry))
  /\ UNCHANGED <<local, stored, copies, users, faults>>

\* Saves nextState when the batch is full or checkpointIntervalMs has passed.
Checkpoint(r) ==
  LET i == run[r]
  IN /\ i.pc = "checkpoint"
     /\ \/ /\ stored' = [stored EXCEPT ![Owner[r]] = i.next]
           /\ Becomes(r, [Skipped(i) EXCEPT !.since = 0])
        \/ /\ i.since + 1 < CheckpointBatch
           /\ Becomes(r, [Skipped(i) EXCEPT !.since = @ + 1])
           /\ UNCHANGED stored
     /\ UNCHANGED <<local, remote, copies, users, faults>>

Finish(r) ==
  /\ run[r].pc = "loop" /\ Remaining(run[r]) = {}
  /\ stored' = [stored EXCEPT ![Owner[r]] = run[r].next]
  /\ Becomes(r, Idle)
  /\ UNCHANGED <<local, remote, copies, users, faults>>

-----------------------------------------------------------------------------
(* Faults *)

Fault(kind) ==
  /\ kind \in FaultKinds /\ faults < MaxFaults
  /\ faults' = faults + 1

StateUnreadable(r) == Fault("stateRead") /\ Begin(r, NoState)

\* A call fails without effect.  Inside the loop the error is reported and the
\* path skipped; a failed listing or final save ends the run.
CallFails(r) ==
  /\ Fault("error")
  /\ \/ /\ run[r].pc \in Calls
        /\ Becomes(r, Skipped(run[r]))
     \/ /\ \/ run[r].pc = "list"
           \/ run[r].pc = "loop" /\ Remaining(run[r]) = {}
        /\ Becomes(r, Idle)
  /\ UNCHANGED <<local, remote, stored, copies, users>>

\* The cloud carries out a write whose answer never arrives.
AnswerLost(r) ==
  /\ Fault("timeout")
  /\ \/ run[r].pc = "upload" /\ Accepts(r) /\ Put(run[r].path, run[r].data)
     \/ run[r].pc = "deleteRemote" /\ DropRemote(run[r].path)
  /\ Becomes(r, Skipped(run[r]))
  /\ UNCHANGED <<local, stored, copies, users>>

\* The app is closed: every invocation on the device is gone.
Crash(d) ==
  /\ Fault("crash") /\ Busy(d)
  /\ run' = [r \in Runs |-> IF Owner[r] = d THEN Idle ELSE run[r]]
  /\ UNCHANGED <<local, remote, stored, copies, users>>

-----------------------------------------------------------------------------

SyncStep(r) ==
  \/ Start(r) \/ ListLocal(r) \/ ListRemote(r)
  \/ \E p \in Paths : Take(r, p)
  \/ Download(r) \/ WriteLocal(r) \/ Read(r) \/ Copy(r)
  \/ Upload(r) \/ Head(r) \/ DeleteLocal(r) \/ DeleteRemote(r)
  \/ Checkpoint(r) \/ Finish(r)

UserStep == \E d \in Devices, p \in Paths :
              (\E c \in Contents : Save(d, p, c)) \/ Delete(d, p)

FaultStep == \/ \E r \in Runs : StateUnreadable(r) \/ CallFails(r) \/ AnswerLost(r)
             \/ \E d \in Devices : Crash(d)

Next == (\E r \in Runs : SyncStep(r)) \/ UserStep \/ FaultStep

Spec == Init /\ [][Next]_vars

\* autoIntervalMinutes starts a run again and again, and every call returns,
\* fails or times out (30 s): a run always takes its next step.
Fairness == \A r \in Runs : WF_vars(SyncStep(r))

FairSpec == Spec /\ Fairness

-----------------------------------------------------------------------------
(* Properties *)

TypeOK ==
  /\ local  \in [Devices -> [Paths -> Files]]
  /\ remote \in [Paths -> Versions]
  /\ stored \in [Devices -> [Paths -> Entries]]
  /\ copies \in SUBSET [path : Paths, content : Contents]
  /\ run    \in [Runs -> Invocations]
  /\ wanted \in [Paths -> Contents]
  /\ edits   \in 0 .. MaxEdits
  /\ userOps \in 0 .. MaxUserOps
  /\ faults  \in 0 .. MaxFaults

\* A device that finds a file unchanged since the persisted state believes it
\* holds the content of the recorded rev (lines 489-598: an unchanged side is
\* overwritten, deleted or left alone without being read).  It really does.
BaseAgreement ==
  \A d \in Devices, p \in Paths :
    LET s == stored[d][p]
    IN (s # NoEntry /\ s.mtime = Mtime(d, p)) => local[d][p].content = s.rev.content

\* Why it does, as an inductive invariant: an entry that a device keeps, on disk
\* or in a run, is about a write the device has already made, and if that write
\* is still the last one, it put the recorded content there; a run that uploads
\* holds the content of the file it listed unless it changed since.
Fits(f, s) ==
  \/ s = NoEntry
  \/ /\ s.mtime \in 1 .. f.tick
     /\ s.mtime = f.tick => f.content \in {{}, s.rev.content}

RunFits(i, files) ==
  /\ \A p \in Paths : Fits(files[p], i.next[p]) /\ i.listL[p] <= files[p].tick
  /\ \/ i.pc \in {"read", "copy", "upload", "head"}
     \/ i.pc = "download" /\ i.plan # "fetch"
     => i.listL[i.path] # 0
  /\ i.pc \in {"upload", "head"} /\ i.listL[i.path] = files[i.path].tick
     => files[i.path].content \in {{}, i.data}

BaseInv ==
  /\ \A d \in Devices, p \in Paths : Fits(local[d][p], stored[d][p])
  /\ \A r \in Runs : RunFits(run[r], local[Owner[r]])

Kept(p) == UNION {c.content : c \in {x \in copies : x.path = p}}

\* "the replaced cloud content is saved in the .conflict file" (resolveConflict,
\* lines 438-439): an upload never makes the cloud forget an edit that nobody
\* deleted, unless a .conflict file has it.
RemoteKeepsEdits ==
  [][\A p \in Paths \ Binary :
       remote'[p].content # {} =>
         remote[p].content \cap wanted[p] \subseteq remote'[p].content \cup Kept(p)]_vars

\* Every edit nobody deleted is still in some place a user can find it.
NoEditLost ==
  \A p \in Paths \ Binary :
    wanted[p] \subseteq remote[p].content \cup Kept(p)
                        \cup UNION {local[d][p].content : d \in Devices}

\* Once users and faults stop, all devices and the cloud come to agree, path
\* by path, for good.
InStep == \A d \in Devices, p \in Paths : local[d][p].content = remote[p].content
Convergence == <>[]InStep
=============================================================================
