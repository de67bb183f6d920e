---------------------------- MODULE RemoteListing ----------------------------
(***************************************************************************)
(* How a run of performSync lists a Dropbox folder: resolveRemoteEntries   *)
(* (src/plugs/sync/sync_engine.ts) over listFolder and drainPages          *)
(* (src/plugs/sync/dropbox_sync.ts).  The cursor of the last listing and   *)
(* the copy of the folder that goes with it are kept in one file of the    *)
(* space, so that the next listing asks for the changes only.  Every await *)
(* is a step: other devices change the folder between pages, and another   *)
(* run of the same device reads and writes the same file.                  *)
(*                                                                         *)
(* Dropbox.  The n-th change of a path makes its version n, a file or a    *)
(* deletion, and n stands for the rev.  A cursor says, for every path, up  *)
(* to which version its changes have been told.  It is assumed that each   *)
(* deleted file has an entry of its own, also when its folder was deleted. *)
(***************************************************************************)
EXTENDS Naturals, Sequences

CONSTANTS
  Paths,      \* the files in the synced folder
  Runs,       \* invocations that share the cursor file of one device
  MaxChanges  \* bound: changes of one path

ASSUME ListingAssumption == MaxChanges \in Nat

VARIABLES
  exists,  \* has the folder been created on Dropbox
  last,    \* last[p]: the latest version of p
  gone,    \* the pairs <<p, n>> where version n of p is a deletion
  cache,   \* the cursor file (RemoteCache)
  run      \* run[r]: what an invocation holds in memory

remote == <<exists, last, gone>>
vars   == <<remote, cache, run>>

Cursors == [Paths -> Nat]
Start   == [p \in Paths |-> 0]     \* the cursor that has told nothing
Empty   == [p \in Paths |-> 0]     \* no entry for any path

\* The rev of p at its version n; 0 when there is no file.
At(p, n) == IF <<p, n>> \in gone THEN 0 ELSE n
Snapshot(cursor) == [p \in Paths |-> At(p, cursor[p])]

NoCache == [valid |-> FALSE, cursor |-> Start, entries |-> Empty]
Caches  == [valid : BOOLEAN, cursor : Cursors, entries : Cursors]

\* What drainPages has collected: a path with a rev, 0 for a deleted entry.
Told == [path : Paths, rev : Nat]

Listings ==
  [pc      : {"idle", "continue", "list", "more", "save", "listed"},
   full    : BOOLEAN,      \* is this a list_folder from the start
   cursor  : Cursors,      \* the cursor of the latest page
   known   : Cursors,      \* cache.entries as loaded; from "save" on, merged
   entries : Seq(Told)]    \* the entries of the pages so far

Idle == [pc |-> "idle", full |-> FALSE, cursor |-> Start, known |-> Empty,
         entries |-> << >>]

Init ==
  /\ exists = FALSE
  /\ last = Start
  /\ gone = {}
  /\ cache = NoCache
  /\ run = [r \in Runs |-> Idle]

-----------------------------------------------------------------------------
(* The folder *)

\* A device uploads p, which also creates the folder.
Upload(p) ==
  /\ last[p] < MaxChanges
  /\ last' = [last EXCEPT ![p] = @ + 1]
  /\ exists' = TRUE
  /\ UNCHANGED <<gone, cache, run>>

\* Files are deleted: one of them, or all that are there.
Remove(S) ==
  /\ \A p \in S : At(p, last[p]) # 0 /\ last[p] < MaxChanges
  /\ last' = [p \in Paths |-> IF p \in S THEN last[p] + 1 ELSE last[p]]
  /\ gone' = gone \cup {<<p, last[p] + 1>> : p \in S}
  /\ UNCHANGED <<cache, run>>

Delete(p) == Remove({p}) /\ UNCHANGED exists

DeleteFolder ==
  /\ exists
  /\ Remove({p \in Paths : At(p, last[p]) # 0})
  /\ exists' = FALSE

-----------------------------------------------------------------------------
(* resolveRemoteEntries *)

Becomes(r, x) == run' = [run EXCEPT ![r] = x]

\* loadRemoteCache.  A file that is missing or cannot be parsed is no cache.
Load(r) ==
  /\ run[r].pc = "idle"
  /\ \E c \in {cache, NoCache} :
       Becomes(r, [Idle EXCEPT !.pc = IF c.valid THEN "continue" ELSE "list",
                               !.cursor = c.cursor,
                               !.known = c.entries])
  /\ UNCHANGED <<remote, cache>>

\* list_folder/continue goes on from the cursor.  list_folder starts from
\* nothing, and may leave out files that have been deleted (include_deleted
\* reaches back as far as Dropbox remembers).
From(x) ==
  IF x.pc # "list" THEN {x.cursor}
  ELSE {[p \in Paths |-> IF p \in S THEN last[p] ELSE 0] :
          S \in SUBSET {p \in Paths : At(p, last[p]) = 0}}

IsFull(x) == x.pc = "list" \/ (x.pc = "more" /\ x.full)

\* Mutant: the entries of a delta are taken for the whole folder.
KnownNever(x) == Empty

\* Mutant: a full listing is merged into the old copy.
KnownAlways(x) == x.known

KnownBefore(x) == IF x.full THEN Empty ELSE x.known

Mentions(entries, p) == {i \in DOMAIN entries : entries[i].path = p}

\* Mutant: entries that say "deleted" are passed over.
MergedKeepsDeleted(x) ==
  [p \in Paths |->
     LET I == {i \in Mentions(x.entries, p) : x.entries[i].rev # 0}
     IN IF I = {} THEN KnownBefore(x)[p]
        ELSE x.entries[CHOOSE i \in I : \A j \in I : j <= i].rev]

\* Mutant: the first entry of a path wins.
MergedFirst(x) ==
  [p \in Paths |->
     LET I == Mentions(x.entries, p)
     IN IF I = {} THEN KnownBefore(x)[p]
        ELSE x.entries[CHOOSE i \in I : \A j \in I : j >= i].rev]

\* Later entries of a path win over earlier ones and over what was known.
Merged(x) ==
  [p \in Paths |->
     LET I == Mentions(x.entries, p)
     IN IF I = {} THEN KnownBefore(x)[p]
        ELSE x.entries[CHOOSE i \in I : \A j \in I : j <= i].rev]

\* Mutant: has_more is not looked at.
AfterFirstPage(x, hasMore) ==
  [x EXCEPT !.pc = "save", !.known = Merged(x), !.entries = << >>]

\* After the last page the copy is complete and saveRemoteCache is awaited.
AfterPage(x, hasMore) ==
  IF hasMore THEN [x EXCEPT !.pc = "more"]
  ELSE [x EXCEPT !.pc = "save", !.known = Merged(x), !.entries = << >>]

\* A page with nothing, or with one entry: a page of several is a series of
\* pages between which nothing happens.  Dropbox tells a path's versions in
\* order, possibly leaving some out, and says has_more at least while a path
\* has a version it has not told.
Tell(from, p, n) ==
  [cursor |-> [from EXCEPT ![p] = n], entries |-> <<[path |-> p, rev |-> At(p, n)]>>]

Pages(x) ==
  UNION {{[cursor |-> from, entries |-> << >>]} \cup
         {Tell(from, t[1], t[2]) :
            t \in {u \in Paths \X (1 .. MaxChanges) :
                     from[u[1]] < u[2] /\ u[2] <= last[u[1]]}} : from \in From(x)}

Page(r) ==
  /\ \E page \in Pages(run[r]), hasMore \in BOOLEAN :
       /\ (\E p \in Paths : page.cursor[p] < last[p]) => hasMore
       /\ Becomes(r, AfterPage([run[r] EXCEPT !.full = IsFull(run[r]),
                                              !.cursor = page.cursor,
                                              !.entries = @ \o page.entries],
                               hasMore))
  /\ UNCHANGED <<remote, cache>>

\* The delta of list_folder/continue, with the saved cursor.
Continue(r) == run[r].pc = "continue" /\ Page(r)

\* 409 reset: the cursor has expired, and list_folder is asked instead.
Reset(r) ==
  /\ run[r].pc = "continue"
  /\ Becomes(r, [run[r] EXCEPT !.pc = "list"])
  /\ UNCHANGED <<remote, cache>>

List(r) == run[r].pc = "list" /\ exists /\ Page(r)

\* Mutant: a missing folder gives no listing at all.
ListMissingUndefined(r) ==
  /\ run[r].pc = "list" /\ ~exists
  /\ Becomes(r, [run[r] EXCEPT !.pc = "listed", !.full = TRUE, !.known = << >>])
  /\ UNCHANGED <<remote, cache>>

\* 409 from list_folder: there is no such folder.  The listing is empty and has
\* no cursor, so that the cursor file stays as it is.
ListMissing(r) ==
  /\ run[r].pc = "list" /\ ~exists
  /\ Becomes(r, [run[r] EXCEPT !.pc = "listed", !.full = TRUE, !.known = Empty])
  /\ UNCHANGED <<remote, cache>>

\* The next page of drainPages.
More(r) == run[r].pc = "more" /\ Page(r)

\* saveRemoteCache.
SaveCache(r) ==
  /\ run[r].pc = "save"
  /\ cache' = [valid |-> TRUE, cursor |-> run[r].cursor, entries |-> run[r].known]
  /\ Becomes(r, [run[r] EXCEPT !.pc = "listed"])
  /\ UNCHANGED remote

\* performSync gets the listing.
Return(r) ==
  /\ run[r].pc = "listed"
  /\ Becomes(r, Idle)
  /\ UNCHANGED <<remote, cache>>

\* A request or the save fails and the run throws, or the app is closed.
Fail(r) ==
  /\ run[r].pc \in {"continue", "list", "more", "save"}
  /\ Becomes(r, Idle)
  /\ UNCHANGED <<remote, cache>>

Step(r) == \/ Load(r) \/ Continue(r) \/ Reset(r) \/ List(r) \/ ListMissing(r)
           \/ More(r) \/ SaveCache(r) \/ Return(r) \/ Fail(r)

Next == \/ \E p \in Paths : Upload(p) \/ Delete(p)
        \/ DeleteFolder
        \/ \E r \in Runs : Step(r)

Spec == Init /\ [][Next]_vars
-----------------------------------------------------------------------------
(* Properties *)

TypeOK ==
  /\ exists \in BOOLEAN
  /\ last \in Cursors
  /\ gone \in SUBSET (Paths \X Nat)
  /\ cache \in Caches
  /\ run \in [Runs -> Listings]

\* The saved copy and the saved cursor belong together: applied to the copy, the
\* changes after the cursor give the folder.  A copy that is older or newer than
\* its cursor makes later runs take files for deleted, or miss them, for good.
CacheMatchesCursor == cache.entries = Snapshot(cache.cursor)

\* The listing a run works with is the folder at one instant of the call, with
\* whatever pages, resets, deltas, lost caches and concurrent runs it was built.
AbstractCall(x) ==
  CASE x.pc = "idle" -> [state |-> "idle", listing |-> Empty]
    [] x.pc \in {"continue", "list", "more"} -> [state |-> "waiting", listing |-> Empty]
    [] x.pc \in {"save", "listed"} -> [state |-> "answered", listing |-> x.known]

Folder == INSTANCE FolderListing
            WITH folder <- Snapshot(last),
                 call   <- [r \in Runs |-> AbstractCall(run[r])]

ListsOneInstant == Folder!Spec
=============================================================================
