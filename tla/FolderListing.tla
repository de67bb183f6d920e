---------------------------- MODULE FolderListing ----------------------------
(***************************************************************************)
(* What performSync relies on when it lists the cloud folder: the listing  *)
(* is the whole folder as it was at one instant between the call and its   *)
(* answer.  PlugSync's ListRemote is such a read; RemoteListing is how the *)
(* Dropbox provider builds one from pages, deltas and a cached copy.       *)
(***************************************************************************)
EXTENDS Naturals

CONSTANTS
  Paths,   \* the files the folder may hold
  Runs     \* concurrent callers

VARIABLES
  folder,  \* folder[p]: the rev of p, 0 when there is no such file
  call     \* call[r]: what the caller r awaits or has been answered

Revs  == [Paths -> Nat]
None  == [p \in Paths |-> 0]

Init ==
  /\ folder = None
  /\ call = [r \in Runs |-> [state |-> "idle", listing |-> None]]

\* Other devices write to the folder as they like.
Change ==
  /\ folder' \in Revs
  /\ UNCHANGED call

Becomes(r, state, listing) ==
  /\ call' = [call EXCEPT ![r] = [state |-> state, listing |-> listing]]
  /\ UNCHANGED folder

Ask(r)    == call[r].state = "idle"     /\ Becomes(r, "waiting", None)
Answer(r) == call[r].state = "waiting"  /\ Becomes(r, "answered", folder)
Return(r) == call[r].state = "answered" /\ Becomes(r, "idle", None)
Fail(r)   == call[r].state # "idle"     /\ Becomes(r, "idle", None)

Next == Change \/ \E r \in Runs : Ask(r) \/ Answer(r) \/ Return(r) \/ Fail(r)

Spec == Init /\ [][Next]_<<folder, call>>
=============================================================================
