-------------------------- MODULE SpaceSyncProofs --------------------------
(***************************************************************************)
(* What holds of the offline replica for every set of edits, every bound   *)
(* on the clock and every number of deletions, troubles and withheld       *)
(* updates.                                                                *)
(***************************************************************************)
EXTENDS SpaceSync, TLAPS

-----------------------------------------------------------------------------
(* Types                                                                   *)

\* What the steps of the operation need to have at hand, and what relates the
\* entry of the path to its revision.
Shape ==
  /\ news => remote # None
  /\ op.pc \in {"adopt", "write", "apply", "settle", "overwrite"} =>
       op.theirs # None
  /\ op.pc \in {"gone", "apply", "settle", "overwrite", "rebase"} =>
       op.mine # None
  /\ op.pc \in {"adopt", "write"} =>
       /\ snapshot.remoteHash # None
       /\ snapshot.files # None => op.prior # None

Typed == TypeOK /\ Shape /\ RevisionKnown

LEMMA TextTypes ==
  ASSUME NEW file \in {None} \cup File
  PROVE  /\ TextOf(file) \in Text
         /\ file # None => TimeOf(file) \in Time
         /\ TimeOf(file) \in {None} \cup Time
  BY DEF TextOf, TimeOf, File, Text

LEMMA MergeTypes ==
  ASSUME NEW base \in Text, NEW proposed \in Text, NEW current \in Text
  PROVE  Merge3(base, proposed, current) \in Text
  BY DEF Merge3, Text

LEMMA OriginTypes ==
  /\ Here \in Origin
  /\ Probed \in Origin
  /\ \A hash \in {None} \cup Text : AnyOf(hash) \in Origin
  /\ \A file \in File : There(file) \in Origin
  BY DEF Here, Probed, AnyOf, There, Origin, File

LEMMA MarkTypes ==
  ASSUME dirty \in {None} \cup Origin, NEW origin \in Origin
  PROVE  Marked(origin) \in Origin
<1>1. \A a, b \in Origin : MergeOrigins(a, b) \in Origin
  BY OriginTypes DEF MergeOrigins, Origin
<1> QED BY <1>1 DEF Marked

LEMMA SyncedTypes ==
  ASSUME NEW mine \in Time, NEW theirs \in Time, NEW text \in Text
  PROVE  /\ Synced(mine, theirs, text) \in Snapshot
         /\ Synced(mine, theirs, text).remoteHash = text
         /\ Synced(mine, theirs, text).baseHash = text
         /\ Synced(mine, theirs, text).files # None
         /\ text # None
  BY NoneAssumption DEF Synced, Snapshot

LEMMA BlankTypes ==
  /\ Blank \in Snapshot
  /\ Blank.files = None
  /\ Blank.remoteHash = None
  /\ Blank.baseHash = None
  BY DEF Blank, Snapshot

LEMMA IdleTypes == Idle \in Op /\ Idle.pc = "idle"
  BY DEF Idle, Op, Steps, Text

\* What the end of an operation leaves, whatever it saves.
LEMMA FinishTypes ==
  ASSUME NEW n, NEW snap \in Snapshot, stored \in Snapshot,
         snap.files # None => snap.remoteHash # None,
         stored.files # None => stored.remoteHash # None,
         Finish(n, snap)
  PROVE  /\ op' = Idle /\ op' \in Op /\ op'.pc = "idle"
         /\ snapshot' = snap
         /\ stored' \in {snap, stored}
         /\ snapshot' \in Snapshot
         /\ stored' \in Snapshot
         /\ RevisionKnown'
  BY IdleTypes DEF Finish, RevisionKnown

LEMMA NowTypes == ASSUME NEW t, Now(t) PROVE t \in Time /\ clock' \in Time
  BY DEF Now

LEMMA PutTypes ==
  ASSUME NEW text \in Text, NEW time \in Time, Put(text, time)
  PROVE  remote' \in File /\ remote' # None /\ news' = TRUE
         /\ remote'.text = text
  BY NoneAssumption DEF Put, File

LEMMA TroubleTypes ==
  ASSUME used \in Used, Trouble
  PROVE  used' \in Used
  BY BoundsAssumption DEF Used, Trouble

LEMMA OverlookedTypes ==
  ASSUME op \in Op, NEW e \in Edits, Overlooked(e)
  PROVE  /\ op' \in Op
         /\ op' = [op EXCEPT !.late = op'.late]
         /\ op.late \subseteq op'.late
         /\ op'.late \subseteq op.late \cup {e}
         /\ op.pc \in Blind => e \in op'.late
  BY DEF Overlooked, Op, Text

LEMMA GotoTypes ==
  ASSUME op \in Op, NEW step \in Steps, Goto(step)
  PROVE  /\ op' \in Op /\ op' = [op EXCEPT !.pc = step] /\ op'.pc = step
  BY DEF Goto, Op

Routes == {"none", "drop", "create", "recreate", "push", "gone", "erase",
           "pull", "merge"}

\* Where each route comes from.
LEMMA RouteTypes ==
  ASSUME NEW signal
  PROVE  /\ Route(signal) \in Routes
         /\ Route(signal) = "gone" =>
              /\ local # None /\ remote = None /\ snapshot.files # None
              /\ snapshot.remoteHash # None =>
                   local.text = snapshot.remoteHash
         /\ Route(signal) = "erase" => local = None /\ snapshot.files # None
<1>1. ClassifySignalled(signal) \in {"none", "push", "pull", "merge"}
  BY DEF ClassifySignalled
<1>2. BothThere(signal) \in {"none", "push", "pull", "merge"}
  <2> HIDE DEF Length
  <2> QED BY <1>1 DEF BothThere
<1> QED BY <1>2 DEF Route, Routes, LocalDiverged

LEMMA WithholdTypes ==
  ASSUME NEW file \in {None} \cup File,
         buffer \in {None} \cup Buffer, used \in Used, Withhold(file)
  PROVE  buffer' \in {None} \cup Buffer /\ used' \in Used
<1>1. CASE UNCHANGED <<buffer, used>>
  BY <1>1
<1>2. CASE ~ UNCHANGED <<buffer, used>>
  <2>1. /\ file # None
        /\ used.withheld < MaxWithheld
        /\ used' = [used EXCEPT !.withheld = @ + 1]
        /\ buffer' = [base |-> file.text, declared |-> FALSE]
    BY <1>2 DEF Withhold
  <2>2. used' \in Used
    BY <2>1, BoundsAssumption DEF Used
  <2>3. buffer' \in Buffer
    BY <2>1 DEF Buffer, File
  <2> QED BY <2>2, <2>3
<1> QED BY <1>1, <1>2

LEMMA ReconcileTypes ==
  ASSUME Typed, NEW base \in Text, NEW proposed \in Text, local # None,
         Reconcile(base, proposed)
  PROVE  /\ remote' \in File /\ remote' # None
         /\ news' \in BOOLEAN
         /\ clock' \in Time
         /\ op' = [op EXCEPT !.pc = "apply", !.mine = local,
                             !.theirs = remote', !.prior = base]
         /\ op' \in Op
         /\ op'.pc = "apply" /\ op'.mine # None /\ op'.theirs # None
<1>1. /\ remote' \in File /\ remote' # None
      /\ news' \in BOOLEAN
      /\ clock' \in Time
      /\ op' = [op EXCEPT !.pc = "apply", !.mine = local,
                          !.theirs = remote', !.prior = base]
  <2>1. CASE remote # None /\ remote.text = proposed /\ UNCHANGED <<remote, news, clock>>
    BY <2>1 DEF Reconcile, Typed, TypeOK, TextOf
  <2>2. CASE remote = None \/ TextOf(remote) # proposed
    <3>1. PICK t \in Time :
            /\ Now(t)
            /\ Put(IF remote = None THEN proposed
                   ELSE Merge3(base, proposed, remote.text), t)
      BY <2>2 DEF Reconcile, TextOf
    <3>2. (IF remote = None THEN proposed
           ELSE Merge3(base, proposed, remote.text)) \in Text
      BY MergeTypes DEF Typed, TypeOK, File
    <3> QED BY <2>2, <3>1, <3>2, PutTypes, NowTypes DEF Reconcile, TextOf
  <2> QED BY <2>1, <2>2 DEF Reconcile
<1> QED BY <1>1 DEF Typed, TypeOK, Op, Steps

LEMMA BeginTypes ==
  ASSUME Typed, At("idle"), NEW full \in BOOLEAN, NEW signal,
         Begin(full, signal)
  PROVE  /\ op' \in Op
         /\ snapshot' \in Snapshot
         /\ stored' \in Snapshot
         /\ op'.pc \in {"idle", "create", "recreate", "push", "gone", "erase",
                        "pull", "merge"}
         /\ op'.pc = "gone" => op'.mine # None
         /\ RevisionKnown'
<1>1. CASE Route(signal) \in {"none", "drop"}
  BY <1>1, BlankTypes DEF Begin, Typed, TypeOK, RevisionKnown, At
<1>2. CASE Route(signal) \notin {"none", "drop"}
  <2>1. op' = [[Idle EXCEPT !.full = full] EXCEPT
                 !.pc = Route(signal),
                 !.expect = TimeOf(local),
                 !.mine = IF Route(signal) = "gone" THEN local ELSE None]
        /\ UNCHANGED <<snapshot, stored>>
    BY <1>2 DEF Begin
  <2>2. TimeOf(local) \in {None} \cup Time /\ local \in {None} \cup File
    BY TextTypes DEF Typed, TypeOK
  <2>3. Route(signal) \in Routes \ {"none", "drop"}
    BY <1>2, RouteTypes
  <2>4. /\ op' \in Op
        /\ op'.pc = Route(signal)
        /\ op'.mine = IF Route(signal) = "gone" THEN local ELSE None
    <3>1. Idle \in Op
      BY IdleTypes
    <3>2. Route(signal) \in Steps
      BY <2>3 DEF Routes, Steps
    <3> QED BY <2>1, <2>2, <3>1, <3>2 DEF Op
  <2>5. Route(signal) = "gone" => local # None
    BY RouteTypes
  <2>6. RevisionKnown'
    BY <2>1 DEF Typed, RevisionKnown
  <2> QED BY <2>1, <2>3, <2>4, <2>5, <2>6 DEF Typed, TypeOK, Routes
<1> QED BY <1>1, <1>2

LEMMA AnswerTypes ==
  ASSUME Typed, NEW heard \in BOOLEAN, NEW snap \in Snapshot,
         snap.files # None => snap.remoteHash # None,
         Answered(heard, 1, snap)
  PROVE  /\ op' \in Op /\ op'.pc = "idle"
         /\ snapshot' \in Snapshot
         /\ stored' \in Snapshot
         /\ used' \in Used
         /\ RevisionKnown'
         /\ snapshot' \in {snap, snapshot}
         /\ stored' \in {snap, snapshot, stored}
<1>1. CASE Finish(1, snap) /\ UNCHANGED used
  BY <1>1, FinishTypes DEF Typed, TypeOK, RevisionKnown
<1>2. CASE Trouble /\ Finish(0, snapshot)
  BY <1>2, FinishTypes, TroubleTypes DEF Typed, TypeOK, RevisionKnown
<1> QED BY <1>1, <1>2 DEF Answered

LEMMA TypedStep ==
  ASSUME Typed, [Next]_vars
  PROVE  Typed'
<1>1. ASSUME NEW e \in Edits, Save(e) PROVE Typed'
  <2>1. PICK t \in Time :
          Now(t) /\ local' = [text |-> TextOf(local) \cup {e}, time |-> t]
    BY <1>1 DEF Save
  <2>2. local' \in File /\ clock' \in Time
    BY <2>1, TextTypes, NowTypes DEF Typed, TypeOK, File, Text
  <2>3. op' \in Op /\ op'.pc = op.pc /\ op'.theirs = op.theirs
        /\ op'.mine = op.mine /\ op'.prior = op.prior
    BY <1>1, OverlookedTypes DEF Save, Typed, TypeOK, Op
  <2>4. dirty' \in Origin
    BY <1>1, OriginTypes, MarkTypes DEF Save, Typed, TypeOK
  <2> QED BY <1>1, <2>2, <2>3, <2>4
          DEF Typed, TypeOK, Shape, RevisionKnown, Save, Text
<1>2. ASSUME NEW e \in Edits, RemoteSave(e) PROVE Typed'
  BY <1>2, TextTypes, NowTypes, PutTypes
     DEF Typed, TypeOK, Shape, RevisionKnown, RemoteSave, Text
<1>3. ASSUME NEW e \in Edits, DivergentWrite(e) PROVE Typed'
  <2>1. PICK t \in Time :
          Now(t) /\ local' = [text |-> buffer.base \cup {e}, time |-> t]
    BY <1>3 DEF DivergentWrite
  <2>2. buffer \in Buffer /\ buffer.base \in Text
    BY <1>3 DEF DivergentWrite, Typed, TypeOK, Buffer
  <2>3. local' \in File /\ clock' \in Time
    BY <2>1, <2>2, NowTypes DEF File, Text
  <2>4. op' \in Op /\ op'.pc = op.pc /\ op'.theirs = op.theirs
        /\ op'.mine = op.mine /\ op'.prior = op.prior
    BY <1>3, OverlookedTypes DEF DivergentWrite, Typed, TypeOK, Op
  <2>5. dirty' \in Origin
    BY <1>3, OriginTypes, MarkTypes DEF DivergentWrite, Typed, TypeOK
  <2>6. gap' \in Gap
    <3>1. TextOf(local) \in Text /\ gap \in Gap
      BY TextTypes DEF Typed, TypeOK
    <3> QED BY <1>3, <2>2, <3>1 DEF DivergentWrite, Gap, Text
  <2> QED BY <1>3, <2>3, <2>4, <2>5, <2>6
          DEF Typed, TypeOK, Shape, RevisionKnown, DivergentWrite, Text
<1>4. ASSUME NEW heard \in BOOLEAN, Create(heard) PROVE Typed'
  <2>1. CASE remote = None
    <3>1. /\ local \in File
          /\ local.text \in Text
          /\ local.time \in Time
      BY <1>4 DEF Create, Typed, TypeOK, File
    <3>2. remote' \in File /\ remote' # None /\ news' = TRUE
      BY <1>4, <2>1, <3>1, PutTypes DEF Create
    <3> DEFINE snap == Synced(local.time, local.time, local.text)
    <3>3. Answered(heard, 1, snap)
      BY <1>4, <2>1 DEF Create
    <3>4. snap \in Snapshot /\ snap.files # None /\ snap.remoteHash # None
      BY <3>1, SyncedTypes
    <3> HIDE DEF snap
    <3>5. /\ op' \in Op /\ op'.pc = "idle"
          /\ snapshot' \in Snapshot
          /\ stored' \in Snapshot
          /\ used' \in Used
          /\ RevisionKnown'
      BY <3>3, <3>4, AnswerTypes
    <3> QED BY <1>4, <2>1, <3>2, <3>5 DEF Typed, TypeOK, Shape, Create, users

  <2>2. CASE remote # None
    BY <1>4, <2>2, GotoTypes
       DEF Typed, TypeOK, Shape, RevisionKnown, Create, Steps, users
  <2> QED BY <2>1, <2>2
<1>5. ASSUME NEW heard \in BOOLEAN, Recreate(heard) PROVE Typed'
  <2>1. CASE remote = None
    <3>1. /\ local \in File
          /\ local.text \in Text
          /\ local.time \in Time
      BY <1>5 DEF Recreate, Typed, TypeOK, File
    <3>2. remote' \in File /\ remote' # None /\ news' = TRUE
      BY <1>5, <2>1, <3>1, PutTypes DEF Recreate
    <3> DEFINE snap == Synced(local.time, local.time, local.text)
    <3>3. Answered(heard, 1, snap)
      BY <1>5, <2>1 DEF Recreate
    <3>4. snap \in Snapshot /\ snap.files # None /\ snap.remoteHash # None
      BY <3>1, SyncedTypes
    <3> HIDE DEF snap
    <3>5. /\ op' \in Op /\ op'.pc = "idle"
          /\ snapshot' \in Snapshot
          /\ stored' \in Snapshot
          /\ used' \in Used
          /\ RevisionKnown'
      BY <3>3, <3>4, AnswerTypes
    <3> QED BY <1>5, <2>1, <3>2, <3>5 DEF Typed, TypeOK, Shape, Recreate, users

  <2>2. CASE remote # None
    BY <1>5, <2>2, FinishTypes, OriginTypes, MarkTypes
       DEF Typed, TypeOK, Shape, RevisionKnown, Recreate, users
  <2> QED BY <2>1, <2>2
<1>6. ASSUME NEW heard \in BOOLEAN, Push(heard) PROVE Typed'
  <2>1. CASE remote # None /\ remote.text = snapshot.remoteHash
    <3>1. /\ local \in File
          /\ local.text \in Text
          /\ local.time \in Time
      BY <1>6 DEF Push, Typed, TypeOK, File
    <3>2. remote' \in File /\ remote' # None /\ news' = TRUE
      BY <1>6, <2>1, <3>1, PutTypes DEF Push, TextOf
    <3> DEFINE snap == Synced(local.time, local.time, local.text)
    <3>3. Answered(heard, 1, snap)
      BY <1>6, <2>1 DEF Push, TextOf
    <3>4. snap \in Snapshot /\ snap.files # None /\ snap.remoteHash # None
      BY <3>1, SyncedTypes
    <3> HIDE DEF snap
    <3>5. /\ op' \in Op /\ op'.pc = "idle"
          /\ snapshot' \in Snapshot
          /\ stored' \in Snapshot
          /\ used' \in Used
          /\ RevisionKnown'
      BY <3>3, <3>4, AnswerTypes
    <3> QED BY <1>6, <2>1, <3>2, <3>5 DEF Typed, TypeOK, Shape, TextOf,
                                             Push, users

  <2>2. CASE ~ (remote # None /\ remote.text = snapshot.remoteHash)
    <3>1. Goto("merge") /\ UNCHANGED <<remote, news, snapshot, stored, used>>
      BY <1>6, <2>2 DEF Push
    <3> QED BY <1>6, <3>1, GotoTypes
            DEF Typed, TypeOK, Shape, RevisionKnown, Push, Steps, users
  <2> QED BY <2>1, <2>2
<1>7. ASSUME NEW heard \in BOOLEAN, Erase(heard) PROVE Typed'
  <2>1. CASE remote # None /\ remote.text = snapshot.remoteHash
    <3>1. remote' = None /\ news' = FALSE /\ Answered(heard, 1, Blank)
      BY <1>7, <2>1 DEF Erase, TextOf
    <3>2. /\ op' \in Op /\ op'.pc = "idle"
          /\ snapshot' \in Snapshot
          /\ stored' \in Snapshot
          /\ used' \in Used
          /\ RevisionKnown'
      BY <3>1, BlankTypes, AnswerTypes
    <3> QED BY <1>7, <3>1, <3>2 DEF Typed, TypeOK, Shape, Erase, users
  <2>2. CASE ~ (remote # None /\ remote.text = snapshot.remoteHash)
    <3>1. Goto("pull") /\ UNCHANGED <<remote, news, snapshot, stored, used>>
      BY <1>7, <2>2 DEF Erase
    <3> QED BY <1>7, <3>1, GotoTypes
            DEF Typed, TypeOK, Shape, RevisionKnown, Erase, Steps, users
  <2> QED BY <2>1, <2>2
<1>8. ASSUME NEW heard \in BOOLEAN, Overwrite(heard) PROVE Typed'
  <2>1. /\ op.theirs \in File /\ op.theirs # None
        /\ op.mine \in File /\ op.mine # None
    BY <1>8 DEF Overwrite, Typed, TypeOK, Shape, At, Op
  <2>2. saved' \in Text
    BY <1>8, <2>1 DEF Overwrite, Typed, TypeOK, File, Text
  <2>3. CASE /\ \E n \in {0, 1}, snap \in {[snapshot EXCEPT !.files = None],
                                         Forgotten} : Finish(n, snap)
             /\ UNCHANGED <<remote, news, clock, used>>
    <3>1. PICK n \in {0, 1}, snap \in {[snapshot EXCEPT !.files = None],
                                     Forgotten} : Finish(n, snap)
      BY <2>3
    <3>2. snap \in Snapshot /\ snap.files = None
      BY DEF Typed, TypeOK, Snapshot, Forgotten
    <3>3. op' \in Op /\ op'.pc = "idle" /\ snapshot' \in Snapshot
          /\ stored' \in Snapshot /\ RevisionKnown'
      BY <3>1, <3>2, FinishTypes DEF Typed, TypeOK, RevisionKnown
    <3> QED BY <1>8, <2>2, <2>3, <3>3
            DEF Typed, TypeOK, Shape, Overwrite, users
  <2>4. CASE \E t \in Time :
               /\ Now(t)
               /\ Put(op.mine.text, t)
               /\ \/ /\ heard
                     /\ snapshot' = [snapshot EXCEPT
                          !.files = [local |-> op.mine.time, remote |-> t],
                          !.remoteHash = op.mine.text]
                     /\ Goto("rebase")
                     /\ UNCHANGED <<stored, used>>
                  \/ /\ ~heard
                     /\ Trouble
                     /\ Finish(0, snapshot)
    <3>1. PICK t \in Time :
               /\ Now(t)
               /\ Put(op.mine.text, t)
               /\ \/ /\ heard
                     /\ snapshot' = [snapshot EXCEPT
                          !.files = [local |-> op.mine.time, remote |-> t],
                          !.remoteHash = op.mine.text]
                     /\ Goto("rebase")
                     /\ UNCHANGED <<stored, used>>
                  \/ /\ ~heard
                     /\ Trouble
                     /\ Finish(0, snapshot)
      BY <2>4
    <3>2. op.mine.text \in Text /\ op.mine.time \in Time
          /\ op.mine.text # None
      BY <2>1, NoneAssumption DEF File
    <3>3. remote' \in File /\ remote' # None /\ news' = TRUE
          /\ clock' \in Time
      BY <3>1, <3>2, PutTypes, NowTypes
    <3>4. CASE heard
      <4>1. /\ snapshot' = [snapshot EXCEPT
                 !.files = [local |-> op.mine.time, remote |-> t],
                 !.remoteHash = op.mine.text]
            /\ op' \in Op /\ op'.pc = "rebase" /\ op'.mine = op.mine
            /\ UNCHANGED <<stored, used>>
        BY <3>1, <3>4, GotoTypes DEF Steps, Typed, TypeOK, Op
      <4>2. snapshot' \in Snapshot /\ snapshot'.remoteHash # None
        BY <4>1, <3>2 DEF Typed, TypeOK, Snapshot
      <4> QED BY <1>8, <2>1, <2>2, <3>3, <4>1, <4>2
              DEF Typed, TypeOK, Shape, RevisionKnown, Overwrite, users
    <3>5. CASE ~ heard
      <4>1. op' \in Op /\ op'.pc = "idle" /\ snapshot' \in Snapshot
            /\ stored' \in Snapshot /\ RevisionKnown' /\ used' \in Used
        BY <3>1, <3>5, FinishTypes, TroubleTypes
           DEF Typed, TypeOK, RevisionKnown
      <4> QED BY <1>8, <2>2, <3>3, <4>1
              DEF Typed, TypeOK, Shape, Overwrite, users
    <3> QED BY <3>4, <3>5
  <2> QED BY <1>8, <2>3, <2>4 DEF Overwrite
<1>9. CASE Delete
  BY <1>9, BoundsAssumption
     DEF Typed, TypeOK, Shape, RevisionKnown, Delete, File, Text, Used
<1>10. CASE RemoteDelete
  <2>1. used' \in Used /\ deleted' \in Text
    BY <1>10, BoundsAssumption
       DEF RemoteDelete, Typed, TypeOK, Used, File, Text
  <2> QED BY <1>10, <2>1
          DEF Typed, TypeOK, Shape, RevisionKnown, RemoteDelete
<1>11. CASE Deliver
  BY <1>11, OriginTypes, MarkTypes
     DEF Typed, TypeOK, Shape, RevisionKnown, Deliver, users
<1>12. CASE Probe
  BY <1>12, OriginTypes, MarkTypes
     DEF Typed, TypeOK, Shape, RevisionKnown, Probe, users
<1>13. CASE Declare
  BY <1>13, NoneAssumption
     DEF Typed, TypeOK, Shape, RevisionKnown, Declare, Buffer, Snapshot,
         users
<1>14. CASE Scan
  BY <1>14, BeginTypes
     DEF Typed, TypeOK, Shape, RevisionKnown, Scan, users
<1>15. CASE Take
  BY ZenonT(40), <1>15, BeginTypes
     DEF Typed, TypeOK, Shape, RevisionKnown, Take, users
<1>16. CASE Gone
  BY <1>16, FinishTypes, BlankTypes
     DEF Typed, TypeOK, Shape, RevisionKnown, Gone, At, Gap, Op, Text,
         users
<1>17. CASE Pull
  BY ZenonT(40), <1>17, NoneAssumption
     DEF Typed, TypeOK, Shape, RevisionKnown, Pull, Op, Steps, Snapshot,
         File, users, At
<1>18. CASE Adopt
  BY <1>18, FinishTypes, GotoTypes, OriginTypes, MarkTypes
     DEF Typed, TypeOK, Shape, RevisionKnown, Adopt, Op, Snapshot, File,
         Steps, Text, At, users
<1>19. CASE Write
  BY <1>19, FinishTypes, WithholdTypes
     DEF Typed, TypeOK, Shape, RevisionKnown, Write, Op, Snapshot, File,
         Gap, Text, At, users
<1>20. CASE Merge
  BY <1>20, ReconcileTypes
     DEF Typed, TypeOK, Shape, RevisionKnown, Merge, At, users,
         Snapshot, File
<1>21. CASE MergeRefused
  BY <1>21, GotoTypes
     DEF Typed, TypeOK, Shape, RevisionKnown, MergeRefused, At, users,
         Steps
<1>22. CASE Apply
  BY <1>22, FinishTypes, GotoTypes, OriginTypes, MarkTypes
     DEF Typed, TypeOK, Shape, RevisionKnown, Apply, Op, Snapshot, File,
         Steps, Text, At, users
<1>23. CASE Settle
  BY <1>23, FinishTypes, WithholdTypes, SyncedTypes
     DEF Typed, TypeOK, Shape, RevisionKnown, Settle, Op, File, Gap,
         Text, At, users
<1>24. CASE Resolve
  <2>1. /\ local \in File /\ remote \in File
        /\ local.text \in Text /\ remote.text \in Text
        /\ local.time \in Time /\ remote.time \in Time
        /\ remote.text # None
    BY <1>24, NoneAssumption DEF Resolve, Typed, TypeOK, File
  <2>2. CASE local.text = remote.text
    <3>1. /\ snapshot' = [snapshot EXCEPT
               !.files = [local |-> local.time, remote |-> remote.time],
               !.remoteHash = remote.text]
          /\ op' = [op EXCEPT !.pc = "rebase", !.mine = local]
      BY <1>24, <2>2 DEF Resolve
    <3>2. snapshot' \in Snapshot /\ snapshot'.remoteHash # None
      BY <2>1, <3>1 DEF Typed, TypeOK, Snapshot
    <3>3. op' \in Op /\ op'.pc = "rebase" /\ op'.mine = local
      BY <2>1, <3>1 DEF Typed, TypeOK, Op, Steps
    <3> QED BY <1>24, <3>2, <3>3
            DEF Typed, TypeOK, Shape, RevisionKnown, Resolve, users
  <2>3. CASE local.text # remote.text
    <3>1. /\ snapshot' = [snapshot EXCEPT !.remoteHash = remote.text]
          /\ op' = [op EXCEPT !.pc = "overwrite", !.mine = local,
                              !.theirs = remote]
      BY <1>24, <2>3 DEF Resolve
    <3>2. snapshot' \in Snapshot /\ snapshot'.remoteHash # None
      BY <2>1, <3>1 DEF Typed, TypeOK, Snapshot
    <3>3. op' \in Op /\ op'.pc = "overwrite" /\ op'.mine = local
          /\ op'.theirs = remote
      BY <2>1, <3>1 DEF Typed, TypeOK, Op, Steps
    <3> QED BY <1>24, <3>2, <3>3
            DEF Typed, TypeOK, Shape, RevisionKnown, Resolve, users
  <2> QED BY <2>2, <2>3
<1>25. CASE Rebase
  BY <1>25, FinishTypes
     DEF Typed, TypeOK, Shape, RevisionKnown, Rebase, Op, Snapshot,
         File, Gap, Text, At, users
<1>26. CASE NotFound
  BY <1>26, FinishTypes
     DEF Typed, TypeOK, Shape, RevisionKnown, NotFound, Missing, users
<1>27. CASE MergeUnheard
  BY <1>27, MergeTypes, PutTypes, NowTypes, TroubleTypes, GotoTypes
     DEF Typed, TypeOK, Shape, RevisionKnown, MergeUnheard, At, users,
         Steps, Snapshot, File
<1>28. CASE RequestFails
  BY <1>28, FinishTypes, TroubleTypes
     DEF Typed, TypeOK, Shape, RevisionKnown, RequestFails, Op, File,
         Gap, Text, At, users
<1>29. CASE Crash
  <2>1. op' \in Op /\ op'.pc = "idle" /\ used' \in Used
        /\ news' \in BOOLEAN
    BY <1>29, IdleTypes, TroubleTypes DEF Crash, Typed, TypeOK
  <2> QED BY <1>29, <2>1
          DEF Typed, TypeOK, Shape, RevisionKnown, Crash, users
<1>30. CASE UNCHANGED vars
  BY <1>30
     DEF Typed, TypeOK, Shape, RevisionKnown, vars
<1> QED BY <1>1, <1>2, <1>3, <1>4, <1>5, <1>6, <1>7, <1>8, <1>9, <1>10,
     <1>11, <1>12, <1>13, <1>14, <1>15, <1>16, <1>17, <1>18, <1>19, <1>20,
     <1>21, <1>22, <1>23, <1>24, <1>25, <1>26, <1>27, <1>28, <1>29, <1>30
     DEF Next, Engine, Request

-----------------------------------------------------------------------------
(* No edit is lost                                                         *)

\* What is kept aside, was deleted by a user, or fell into a named window.
Out == saved \cup deleted \cup gap.write \cup gap.base \cup gap.declare
             \cup gap.recorded

\* What each side holds, or is accounted for.
Server == TextOf(remote) \cup Out
Hand   == TextOf(local) \cup Out

\* An entry speaks of texts that neither side can lack without an account.
Good(s) ==
  /\ s.baseHash # None => s.baseHash \subseteq Server /\ s.baseHash \subseteq Hand
  /\ s.remoteHash # None =>
       s.remoteHash \subseteq Server /\ s.remoteHash \subseteq Hand

\* While a pull or a resolution is under way the revision recorded in memory
\* may be one the replica does not hold yet.
Entries ==
  /\ Good(stored)
  /\ snapshot.baseHash # None =>
       snapshot.baseHash \subseteq Server /\ snapshot.baseHash \subseteq Hand
  /\ snapshot.remoteHash # None =>
       /\ snapshot.remoteHash \subseteq Server
       /\ op.pc \notin {"adopt", "write", "overwrite"} =>
            snapshot.remoteHash \subseteq Hand

\* The editor withholds an update that came from the server, so the server
\* has all the local copy has.
Withheld == buffer # None => buffer.base \subseteq Hand /\ Hand \subseteq Server

Late(text) == Hand \subseteq text \cup op.late \cup Out

\* Before a delete on the server: the recorded revision is accounted for.
Erasing ==
  At("erase") =>
    /\ snapshot.remoteHash # None => snapshot.remoteHash \subseteq Out
    /\ buffer # None => buffer.base \subseteq Out

\* Before a delete of the local copy: what was read of it is accounted for.
Going == At("gone") => op.mine.text \subseteq Out /\ Late(op.mine.text)

\* Between the two halves of a pull, and before its write.
Pulling ==
  op.pc \in {"adopt", "write"} =>
    /\ op.theirs.text \subseteq Server
    /\ snapshot.remoteHash \subseteq op.theirs.text \cup Out
    /\ snapshot.baseHash # None =>
         snapshot.baseHash \subseteq op.theirs.text \cup Out
    /\ buffer # None => buffer.base \subseteq op.theirs.text \cup Out
    /\ op.prior # None => op.prior \subseteq Server /\ op.prior \subseteq Hand

Writing ==
  At("write") =>
    /\ TextOf(op.mine) \subseteq op.theirs.text \cup Out
    /\ Late(TextOf(op.mine))

\* The server's merge holds what was proposed to it.
Merging ==
  op.pc \in {"apply", "settle"} =>
    /\ op.theirs.text \subseteq Server
    /\ op.mine.text \subseteq op.theirs.text \cup Out
    /\ op.mine.text \subseteq Hand

Settling == At("settle") => Late(op.mine.text)

Overwriting ==
  At("overwrite") /\ snapshot.remoteHash # None =>
    snapshot.remoteHash \subseteq op.theirs.text \cup Hand

Rebasing == At("rebase") => op.mine.text \subseteq Server /\ Late(op.mine.text)

Operation == /\ Erasing /\ Going /\ Pulling /\ Writing
             /\ Merging /\ Settling /\ Overwriting /\ Rebasing

Safe ==
  /\ made \subseteq Hand \cup Server
  /\ Entries
  /\ Withheld
  /\ Operation

\* A step that touches neither the engine nor the buffer, takes nothing away
\* without an account and brings the local copy nothing new.
LEMMA Bystander ==
  ASSUME Safe, Out \subseteq Out', Server \subseteq Server',
         Hand \subseteq Hand', Hand' \subseteq Hand \cup Out',
         made' \subseteq Hand' \cup Server', Out' \subseteq Server',
         UNCHANGED <<snapshot, stored, op, buffer>>
  PROVE  Safe'
<1>1. Entries' /\ Withheld'
  BY DEF Safe, Entries, Good, Withheld
<1>2. Erasing' /\ Going' /\ Settling' /\ Rebasing'
  BY DEF Safe, Operation, Erasing, Going, Settling, Rebasing, Late, At
<1>3. Pulling' /\ Merging'
  BY DEF Safe, Operation, Pulling, Merging
<1>4. Writing' /\ Overwriting'
  BY DEF Safe, Operation, Writing, Overwriting, Late, At
<1> QED BY <1>1, <1>2, <1>3, <1>4 DEF Safe, Operation

\* The end of an operation.
LEMMA Ending ==
  ASSUME Safe, NEW n, NEW snap, Finish(n, snap), Out \subseteq Out',
         Server \subseteq Server', Hand \subseteq Hand',
         snap.baseHash # None =>
           snap.baseHash \subseteq Server' /\ snap.baseHash \subseteq Hand',
         snap.remoteHash # None =>
           snap.remoteHash \subseteq Server' /\ snap.remoteHash \subseteq Hand',
         made' \subseteq Hand' \cup Server', Withheld'
  PROVE  Safe'
<1>1. op'.pc = "idle" /\ snapshot' = snap /\ stored' \in {snap, stored}
  BY IdleTypes DEF Finish
<1>2. Entries'
  BY <1>1 DEF Safe, Entries, Good
<1>3. Operation'
  BY <1>1 DEF Operation, Erasing, Going, Pulling, Writing, Merging, Settling,
              Overwriting, Rebasing, At
<1> QED BY <1>2, <1>3 DEF Safe

\* Users.
LEMMA UserSteps ==
  ASSUME Typed, Safe, Typed'
  PROVE  /\ \A e \in Edits : RemoteSave(e) => Safe'
         /\ Delete \/ RemoteDelete \/ Deliver \/ Probe \/ UNCHANGED vars => Safe'
<1>1. ASSUME NEW e \in Edits, RemoteSave(e) PROVE Safe'
  <2>1. TextOf(remote') = TextOf(remote) \cup {e}
    <3>1. PICK t \in Time : Put(TextOf(remote) \cup {e}, t)
      BY <1>1 DEF RemoteSave
    <3>2. remote' # None
      BY <1>1, <3>1 DEF RemoteSave, Put, Typed, Shape
    <3> QED BY <3>1, <3>2 DEF Put, TextOf
  <2>2. Out' = Out
    BY <1>1 DEF RemoteSave, Out
  <2>3. Server \subseteq Server' /\ Hand' = Hand /\ made' \subseteq Hand' \cup Server'
        /\ Out' \subseteq Server'
    BY <1>1, <2>1, <2>2 DEF RemoteSave, Server, Hand, Safe
  <2> QED BY <1>1, <2>2, <2>3, Bystander DEF RemoteSave
<1>2. CASE Delete
  <2>1. /\ Out' = Out \cup TextOf(local) /\ local' = None /\ remote' = remote
    BY <1>2 DEF Delete, Out, TextOf
  <2>2. Server' = Server \cup Out' /\ Hand \subseteq Hand' /\ Hand' \subseteq Hand \cup Out'
    BY <2>1 DEF Server, Hand, TextOf
  <2>3. made' \subseteq Hand' \cup Server'
    BY <1>2, <2>2 DEF Delete, Safe
  <2> QED BY <1>2, <2>1, <2>2, <2>3, Bystander DEF Delete
<1>3. CASE RemoteDelete
  <2>1. /\ Out' = Out \cup TextOf(remote) /\ remote' = None /\ local' = local
    BY <1>3 DEF RemoteDelete, Out, TextOf
  <2>2. Server \subseteq Server' /\ Hand' = Hand \cup Out' /\ Out' \subseteq Server'
    BY <2>1 DEF Server, Hand, TextOf
  <2>3. made' \subseteq Hand' \cup Server'
    BY <1>3, <2>2 DEF RemoteDelete, Safe
  <2> QED BY <1>3, <2>1, <2>2, <2>3, Bystander DEF RemoteDelete
<1>4. ASSUME UNCHANGED <<local, remote, made, deleted, saved, gap, snapshot,
                         stored, op, buffer>>
      PROVE  Safe'
  <2>1. Out' = Out /\ Server' = Server /\ Hand' = Hand /\ Out' \subseteq Server'
    BY <1>4 DEF Out, Server, Hand
  <2> QED BY <1>4, <2>1, Bystander DEF Safe
<1>5. Deliver \/ Probe \/ UNCHANGED vars => Safe'
  BY <1>4 DEF Deliver, Probe, vars
<1> QED BY <1>1, <1>2, <1>3, <1>5

\* A write by the editor while an operation is under way.
LEMMA WriteUnderWay ==
  ASSUME Safe, op \in Op, NEW e \in Edits, Overlooked(e), Out \subseteq Out',
         Server \subseteq Server', Hand \subseteq Hand',
         Hand' \subseteq Hand \cup {e} \cup Out',
         UNCHANGED <<snapshot, stored>>, buffer' = None
  PROVE  Operation'
<1>1. /\ op'.pc = op.pc /\ op'.mine = op.mine /\ op'.theirs = op.theirs
      /\ op'.prior = op.prior
      /\ op.late \subseteq op'.late
      /\ op.pc \in Blind => e \in op'.late
  BY OverlookedTypes DEF Op
<1>2. Erasing'
  BY <1>1 DEF Safe, Operation, Erasing, At
<1>3. \A text : op.pc \in Blind /\ Late(text) => Late(text)'
  BY <1>1 DEF Late
<1>4. Going' /\ Settling' /\ Rebasing'
  BY <1>1, <1>3 DEF Safe, Operation, Going, Settling, Rebasing, At, Blind
<1>5. Writing'
  BY <1>1, <1>3 DEF Safe, Operation, Writing, At, Blind
<1>6. Pulling' /\ Merging' /\ Overwriting'
  BY <1>1 DEF Safe, Operation, Pulling, Merging, Overwriting, At
<1> QED BY <1>2, <1>4, <1>5, <1>6 DEF Operation

LEMMA EditorSteps ==
  ASSUME Typed, Safe, Typed'
  PROVE  /\ \A e \in Edits : Save(e) \/ DivergentWrite(e) => Safe'
         /\ Declare => Safe'
<1>1. ASSUME NEW e \in Edits, Save(e) PROVE Safe'
  <2>1. local' # None /\ local'.text = TextOf(local) \cup {e}
    <3>1. \E t \in Time : local' = [text |-> TextOf(local) \cup {e}, time |-> t]
      BY <1>1 DEF Save
    <3>2. TextOf(local) \cup {e} \in Text
      BY TextTypes DEF Text, Typed, TypeOK
    <3> QED BY <3>1, <3>2, NoneAssumption DEF File
  <2>2. Out' = Out /\ Server' = Server /\ Hand' = Hand \cup {e}
    BY <1>1, <2>1 DEF Save, Out, Server, Hand, TextOf
  <2>3. Operation'
    BY <1>1, <2>2, WriteUnderWay DEF Save, Typed, TypeOK
  <2>4. op'.pc = op.pc
    BY <1>1, OverlookedTypes DEF Save, Typed, TypeOK, Op
  <2>5. Entries' /\ Withheld'
    BY <1>1, <2>2, <2>4 DEF Save, Safe, Entries, Good, Withheld
  <2>6. made' \subseteq Hand' \cup Server'
    BY <1>1, <2>2 DEF Save, Safe
  <2> QED BY <2>3, <2>5, <2>6 DEF Safe
<1>2. ASSUME NEW e \in Edits, DivergentWrite(e) PROVE Safe'
  <2> DEFINE base == buffer.base
  <2>1. /\ buffer # None /\ buffer \in Buffer /\ base \in Text /\ buffer' = None
        /\ base # None
    BY <1>2, NoneAssumption DEF DivergentWrite, Typed, TypeOK, Buffer
  <2>2. local' # None /\ local'.text = base \cup {e}
    <3>1. \E t \in Time : local' = [text |-> base \cup {e}, time |-> t]
      BY <1>2 DEF DivergentWrite
    <3>2. base \cup {e} \in Text
      BY <2>1 DEF Text
    <3> QED BY <3>1, <3>2, NoneAssumption DEF File
  <2>3. base \subseteq Hand /\ Hand \subseteq Server
    BY <2>1 DEF Safe, Withheld
  <2>4. op'.pc = op.pc
    BY <1>2, OverlookedTypes DEF DivergentWrite, Typed, TypeOK, Op
  <2> HIDE DEF base
  <2>5. CASE At("idle") /\ Declared
    <3>1. /\ snapshot.baseHash = base /\ snapshot.remoteHash = base
          /\ stored.baseHash = base /\ stored.remoteHash = base
      BY <2>5 DEF Declared, base
    <3>2. Out' = Out /\ Server' = Server /\ Hand' = base \cup {e} \cup Out
      BY <1>2, <2>2, <2>5 DEF DivergentWrite, Out, Server, Hand, TextOf
    <3>3. Entries' /\ Withheld'
      BY <1>2, <2>1, <2>3, <3>1, <3>2
         DEF DivergentWrite, Safe, Entries, Good, Withheld
    <3>4. op'.pc = "idle"
      BY <2>4, <2>5 DEF At
    <3>5. Operation'
      BY <3>4 DEF Operation, Erasing, Going, Pulling, Writing, Merging,
                  Settling, Overwriting, Rebasing, At
    <3>6. made' \subseteq Hand' \cup Server'
      BY <1>2, <2>3, <3>2 DEF DivergentWrite, Safe
    <3> QED BY <3>3, <3>5, <3>6 DEF Safe
  <2>6. CASE ~ (At("idle") /\ Declared)
    <3>1. Out' = Out \cup (TextOf(local) \ base)
      BY <1>2, <2>6 DEF DivergentWrite, Out, Typed, TypeOK, Gap, base
    <3>2. /\ Out \subseteq Out' /\ Server \subseteq Server'
          /\ Hand \subseteq Hand' /\ Hand' \subseteq Hand \cup {e} \cup Out'
          /\ e \in Hand'
      BY <1>2, <2>2, <2>3, <3>1 DEF DivergentWrite, Server, Hand, TextOf
    <3>3. Operation'
      BY <1>2, <3>2, WriteUnderWay DEF DivergentWrite, Typed, TypeOK
    <3>4. Entries' /\ Withheld'
      BY <1>2, <2>1, <2>4, <3>2
         DEF DivergentWrite, Safe, Entries, Good, Withheld
    <3>5. made' \subseteq Hand' \cup Server'
      BY <1>2, <3>2 DEF DivergentWrite, Safe
    <3> QED BY <3>3, <3>4, <3>5 DEF Safe
  <2> QED BY <2>5, <2>6
<1>3. ASSUME Declare PROVE Safe'
  <2>1. /\ buffer # None /\ buffer.base \subseteq Hand /\ Hand \subseteq Server
        /\ buffer'.base = buffer.base
    BY <1>3 DEF Declare, Safe, Withheld, Typed, TypeOK, Buffer
  <2>2. Out' = Out /\ Server' = Server /\ Hand' = Hand
    BY <1>3 DEF Declare, Out, Server, Hand
  <2>3. /\ snapshot'.baseHash = buffer.base /\ snapshot'.remoteHash = buffer.base
        /\ stored' = snapshot' /\ op' = op
    BY <1>3 DEF Declare, Typed, TypeOK, Snapshot
  <2>4. Entries' /\ Withheld'
    BY <2>1, <2>2, <2>3 DEF Entries, Good, Withheld
  <2>5. Erasing' /\ Pulling' /\ Overwriting'
    BY <2>1, <2>2, <2>3
       DEF Safe, Operation, Erasing, Pulling, Overwriting, At
  <2>6. Going' /\ Writing' /\ Merging' /\ Settling' /\ Rebasing'
    BY <2>2, <2>3 DEF Safe, Operation, Going, Writing, Merging, Settling,
                      Rebasing, Late, At
  <2> QED BY <1>3, <2>2, <2>4, <2>5, <2>6 DEF Declare, Safe, Operation
<1> QED BY <1>1, <1>2, <1>3

\* What an operation needs at its start the listing and the entry give.
LEMMA Beginning ==
  ASSUME Typed, Safe, At("idle"), NEW full \in BOOLEAN, NEW signal,
         Begin(full, signal),
         UNCHANGED <<local, remote, buffer, made, deleted, saved, gap>>
  PROVE  Safe'
<1>1. Out' = Out /\ Server' = Server /\ Hand' = Hand
  BY DEF Out, Server, Hand
<1>2. Good(snapshot) /\ Good(stored)
  BY DEF Safe, Entries, Good, At
<1>3. made' \subseteq Hand' \cup Server' /\ Withheld'
  BY <1>1 DEF Safe, Withheld
<1>4. CASE Route(signal) = "none"
  <2>1. op' = op /\ snapshot' = snapshot /\ stored' \in {snapshot, stored}
    BY <1>4 DEF Begin
  <2>2. Entries'
    BY <1>1, <1>2, <2>1 DEF Entries, Good
  <2>3. Operation'
    BY <2>1 DEF Operation, Erasing, Going, Pulling, Writing, Merging, Settling,
                Overwriting, Rebasing, At
  <2> QED BY <1>3, <2>2, <2>3 DEF Safe
<1>5. CASE Route(signal) = "drop"
  <2>1. op' = op /\ snapshot' = Blank /\ stored' = Blank
    BY <1>5 DEF Begin
  <2>2. Entries'
    BY <2>1, BlankTypes DEF Entries, Good
  <2>3. Operation'
    BY <2>1 DEF Operation, Erasing, Going, Pulling, Writing, Merging, Settling,
                Overwriting, Rebasing, At
  <2> QED BY <1>3, <2>2, <2>3 DEF Safe
<1>6. CASE Route(signal) \notin {"none", "drop"}
  <2>1. /\ op' = [[Idle EXCEPT !.full = full] EXCEPT
                   !.pc = Route(signal),
                   !.expect = TimeOf(local),
                   !.mine = IF Route(signal) = "gone" THEN local ELSE None]
        /\ UNCHANGED <<snapshot, stored>>
    BY <1>6 DEF Begin
  <2>2. /\ op'.pc = Route(signal)
        /\ op'.mine = IF Route(signal) = "gone" THEN local ELSE None
    BY <2>1, IdleTypes DEF Op
  <2>3. op'.pc \in Routes
    BY <2>2, RouteTypes
  <2>4. Entries'
    BY <1>1, <1>2, <2>1 DEF Entries, Good
  <2>5. Erasing'
    <3> SUFFICES ASSUME op'.pc = "erase" PROVE Erasing'
      BY DEF Erasing, At
    <3>1. Hand \subseteq Out
      BY <2>2, RouteTypes DEF Hand, TextOf
    <3> QED BY <1>1, <1>2, <2>1, <3>1 DEF Erasing, Good, Safe, Withheld
  <2>6. Going'
    <3> SUFFICES ASSUME op'.pc = "gone" PROVE Going'
      BY DEF Going, At
    <3>1. /\ op'.mine = local /\ local # None /\ remote = None
          /\ snapshot.remoteHash # None /\ local.text = snapshot.remoteHash
      BY <2>2, RouteTypes DEF Typed, RevisionKnown
    <3>2. local.text \subseteq Out
      BY <1>2, <3>1 DEF Good, Server, TextOf
    <3> QED BY <1>1, <3>1, <3>2 DEF Going, Late, Hand, TextOf
  <2>7. Pulling' /\ Writing' /\ Merging' /\ Settling' /\ Overwriting'
        /\ Rebasing'
    BY <2>3 DEF Routes, Pulling, Writing, Merging, Settling, Overwriting,
                Rebasing, At
  <2> QED BY <1>3, <2>4, <2>5, <2>6, <2>7 DEF Safe, Operation
<1> QED BY <1>4, <1>5, <1>6

LEMMA LoopSteps ==
  ASSUME Typed, Safe, Typed'
  PROVE  Scan \/ Take => Safe'
<1>1. CASE Scan
  BY <1>1, Beginning DEF Scan, users
<1>2. CASE Take
  <2>1. CASE \E signal : Begin(FALSE, signal)
    BY <1>2, <2>1, Beginning DEF Take, users
  <2>2. CASE UNCHANGED <<op, snapshot, stored>>
    <3>1. Out' = Out /\ Server' = Server /\ Hand' = Hand /\ Out' \subseteq Server'
      BY <1>2 DEF Take, users, Out, Server, Hand
    <3> QED BY <1>2, <2>2, <3>1, Bystander DEF Take, users, Safe
  <2> QED BY <1>2, <2>1, <2>2 DEF Take
<1> QED BY <1>1, <1>2

\* One request leads to the next attempt, and nothing else has changed.
LEMMA Turning ==
  ASSUME Typed, Safe, NEW step \in {"resolve", "merge", "pull"}, Goto(step),
         op.pc \notin {"adopt", "write", "overwrite"},
         UNCHANGED <<local, remote, snapshot, stored, buffer, made, deleted,
                     saved, gap>>
  PROVE  Safe'
<1>1. op'.pc = step
  BY GotoTypes DEF Typed, TypeOK, Steps
<1>2. Out' = Out /\ Server' = Server /\ Hand' = Hand
  BY DEF Out, Server, Hand
<1>3. Entries' /\ Withheld' /\ made' \subseteq Hand' \cup Server'
  BY <1>2 DEF Safe, Entries, Good, Withheld
<1>4. Operation'
  BY <1>1 DEF Operation, Erasing, Going, Pulling, Writing, Merging, Settling,
              Overwriting, Rebasing, At
<1> QED BY <1>3, <1>4 DEF Safe

\* A write or a delete on the server, heard of or not.
LEMMA Answering ==
  ASSUME Typed, Safe, NEW heard \in BOOLEAN, NEW snap,
         Answered(heard, 1, snap),
         op.pc \notin {"adopt", "write", "overwrite"},
         Out \subseteq Out', Server \subseteq Server', Hand \subseteq Hand',
         snap.baseHash # None =>
           snap.baseHash \subseteq Server' /\ snap.baseHash \subseteq Hand',
         snap.remoteHash # None =>
           snap.remoteHash \subseteq Server' /\ snap.remoteHash \subseteq Hand',
         made' \subseteq Hand' \cup Server', Withheld'
  PROVE  Safe'
<1>1. CASE Finish(1, snap)
  BY <1>1, Ending
<1>2. CASE Finish(0, snapshot)
  <2>1. /\ snapshot.baseHash # None =>
             snapshot.baseHash \subseteq Server' /\ snapshot.baseHash \subseteq Hand'
        /\ snapshot.remoteHash # None =>
             snapshot.remoteHash \subseteq Server' /\ snapshot.remoteHash \subseteq Hand'
    BY DEF Safe, Entries
  <2> QED BY <1>2, <2>1, Ending
<1> QED BY <1>1, <1>2 DEF Answered

\* The local copy goes to a server that has nothing it lacks.
LEMMA Pushing ==
  ASSUME Typed, Safe, local # None, NEW heard \in BOOLEAN,
         op.pc \in {"create", "recreate", "push"},
         Server \subseteq Hand,
         Put(local.text, local.time),
         Answered(heard, 1, Synced(local.time, local.time, local.text)),
         UNCHANGED <<local, buffer, made, deleted, saved, gap>>
  PROVE  Safe'
<1> DEFINE snap == Synced(local.time, local.time, local.text)
<1>1. local \in File /\ local.text \in Text /\ local.time \in Time
  BY DEF Typed, TypeOK, File
<1>2. snap.baseHash = local.text /\ snap.remoteHash = local.text
  BY <1>1, SyncedTypes
<1>3. remote' # None /\ remote'.text = local.text
  BY <1>1, PutTypes
<1>4. Out' = Out /\ Hand' = Hand /\ Server' = Hand /\ local.text \subseteq Hand
  BY <1>3 DEF Out, Server, Hand, TextOf
<1>5. made' \subseteq Hand' \cup Server' /\ Withheld'
  BY <1>4 DEF Safe, Withheld
<1>6. Answered(heard, 1, snap)
  OBVIOUS
<1> HIDE DEF snap
<1> QED BY <1>2, <1>4, <1>5, <1>6, Answering

LEMMA RequestSteps ==
  ASSUME Typed, Safe, Typed', NEW heard \in BOOLEAN
  PROVE  Create(heard) \/ Recreate(heard) \/ Push(heard) \/ Erase(heard) => Safe'
<1>1. CASE Create(heard)
  <2>1. CASE remote = None
    <3>1. Server \subseteq Hand
      BY <2>1 DEF Server, Hand, TextOf
    <3> QED BY <1>1, <2>1, <3>1, Pushing DEF Create, At, users
  <2>2. CASE remote # None
    BY <1>1, <2>2, Turning DEF Create, At, users
  <2> QED BY <2>1, <2>2
<1>2. CASE Recreate(heard)
  <2>1. CASE remote = None
    <3>1. Server \subseteq Hand
      BY <2>1 DEF Server, Hand, TextOf
    <3> QED BY <1>2, <2>1, <3>1, Pushing DEF Recreate, At, users
  <2>2. CASE remote # None
    <3>1. Finish(1, snapshot) /\ op.pc = "recreate"
      BY <1>2, <2>2 DEF Recreate, At
    <3>2. Out' = Out /\ Server' = Server /\ Hand' = Hand
      BY <1>2, <2>2 DEF Recreate, users, Out, Server, Hand
    <3>3. made' \subseteq Hand' \cup Server' /\ Withheld'
      BY <1>2, <3>2 DEF Recreate, users, Safe, Withheld
    <3>4. /\ snapshot.baseHash # None =>
               snapshot.baseHash \subseteq Server' /\ snapshot.baseHash \subseteq Hand'
          /\ snapshot.remoteHash # None =>
               snapshot.remoteHash \subseteq Server' /\ snapshot.remoteHash \subseteq Hand'
      BY <3>1, <3>2 DEF Safe, Entries
    <3> QED BY <3>1, <3>2, <3>3, <3>4, Ending
  <2> QED BY <2>1, <2>2
<1>3. CASE Push(heard)
  <2>1. CASE remote # None /\ remote.text = snapshot.remoteHash
    <3>1. remote.text \subseteq Hand
      BY <1>3, <2>1, NoneAssumption
         DEF Push, At, Safe, Entries, Typed, TypeOK, File
    <3>2. Server \subseteq Hand
      BY <2>1, <3>1 DEF Server, Hand, TextOf
    <3> QED BY <1>3, <2>1, <3>2, Pushing DEF Push, At, users, TextOf
  <2>2. CASE ~ (remote # None /\ remote.text = snapshot.remoteHash)
    BY <1>3, <2>2, Turning DEF Push, At, users, TextOf
  <2> QED BY <2>1, <2>2
<1>4. CASE Erase(heard)
  <2>1. CASE remote # None /\ remote.text = snapshot.remoteHash
    <3>1. remote.text \subseteq Out
      BY <1>4, <2>1, NoneAssumption
         DEF Erase, At, Safe, Operation, Erasing, Typed, TypeOK, File
    <3>2. remote' = None /\ Answered(heard, 1, Blank)
      BY <1>4, <2>1 DEF Erase, TextOf
    <3>3. Out' = Out /\ Server' = Out /\ Server = Out /\ Hand' = Hand
      BY <1>4, <2>1, <3>1, <3>2 DEF Erase, users, Out, Server, Hand, TextOf
    <3>4. made' \subseteq Hand' \cup Server' /\ Withheld'
      BY <1>4, <3>3 DEF Erase, users, Safe, Withheld
    <3> QED BY <1>4, <3>2, <3>3, <3>4, BlankTypes, Answering DEF Erase, At
  <2>2. CASE ~ (remote # None /\ remote.text = snapshot.remoteHash)
    BY <1>4, <2>2, Turning DEF Erase, At, users, TextOf
  <2> QED BY <2>1, <2>2
<1> QED BY <1>1, <1>2, <1>3, <1>4

\* The steps that end with a write or a delete of the local copy.
LEMMA LocalSteps ==
  ASSUME Typed, Safe, Typed'
  PROVE  Gone \/ Write \/ Settle => Safe'
<1>1. CASE Gone
  <2>1. Out' = Out \cup op.late
    BY <1>1 DEF Gone, users, Out, Typed, TypeOK, Gap
  <2>2. local' = None /\ remote' = remote /\ buffer' = buffer /\ made' = made
    BY <1>1 DEF Gone, users
  <2>3. Hand \subseteq Out'
    BY <1>1, <2>1 DEF Gone, Safe, Operation, Going, Late
  <2>4. Hand' = Out' /\ Server' = Server \cup Out'
    BY <2>1, <2>2 DEF Hand, Server, TextOf
  <2>5. made' \subseteq Hand' \cup Server' /\ Withheld'
    BY <2>2, <2>3, <2>4 DEF Safe, Withheld
  <2>6. \E n : Finish(n, Blank)
    BY <1>1 DEF Gone
  <2> QED BY <2>1, <2>3, <2>4, <2>5, <2>6, BlankTypes, Ending
<1>2. ASSUME op.pc \in {"write", "settle"}, NEW snap, Finish(1, snap),
             snap.baseHash = op.theirs.text,
             snap.remoteHash # None =>
               /\ snap.remoteHash \subseteq Server \cup Out
               /\ snap.remoteHash \subseteq op.theirs.text \cup Out,
             TextOf(op.mine) \subseteq op.theirs.text \cup Out,
             Late(TextOf(op.mine)), op.theirs.text \subseteq Server,
             local' = op.theirs,
             gap' = [gap EXCEPT !.write = @ \cup op.late],
             Withhold(op.mine),
             buffer # None => buffer.base \subseteq Hand /\ Hand \subseteq Server,
             UNCHANGED <<remote, made, deleted, saved>>
      PROVE  Safe'
  <2>1. op.theirs # None /\ op.theirs \in File /\ op.late \in Text
    BY <1>2 DEF Typed, TypeOK, Shape, Op
  <2>2. Out' = Out \cup op.late
    BY <1>2 DEF Out, Typed, TypeOK, Gap
  <2>3. Hand' = op.theirs.text \cup Out' /\ Server' = Server \cup Out'
    BY <1>2, <2>1, <2>2 DEF Hand, Server, TextOf
  <2>4. Hand \subseteq Hand'
    BY <1>2, <2>2, <2>3 DEF Late
  <2>5. Out \subseteq Server
    BY DEF Server
  <2>6. made' \subseteq Hand' \cup Server'
    BY <1>2, <2>3, <2>4 DEF Safe
  <2>7. Withheld'
    <3>1. CASE buffer' = buffer
      BY <1>2, <2>3, <2>4, <3>1 DEF Withheld
    <3>2. CASE buffer' # buffer
      <4>1. op.mine # None /\ buffer' = [base |-> op.mine.text, declared |-> FALSE]
        BY <1>2, <3>2 DEF Withhold
      <4>2. buffer'.base = TextOf(op.mine)
        BY <4>1 DEF TextOf
      <4> QED BY <1>2, <2>2, <2>3, <4>2 DEF Withheld
    <3> QED BY <3>1, <3>2
  <2>8. /\ snap.baseHash \subseteq Server' /\ snap.baseHash \subseteq Hand'
        /\ snap.remoteHash # None =>
             snap.remoteHash \subseteq Server' /\ snap.remoteHash \subseteq Hand'
    BY <1>2, <2>2, <2>3, <2>5
  <2> QED BY <1>2, <2>2, <2>3, <2>4, <2>6, <2>7, <2>8, Ending
<1>3. CASE Write
  <2> DEFINE snap == [snapshot EXCEPT
                        !.files = [local  |-> op.theirs.time,
                                   remote |-> op.theirs.time],
                        !.baseHash = op.theirs.text]
  <2>1. snap.baseHash = op.theirs.text /\ snap.remoteHash = snapshot.remoteHash
    BY DEF Typed, TypeOK, Snapshot
  <2>2. Finish(1, snap)
    BY <1>3 DEF Write
  <2> HIDE DEF snap
  <2>3. /\ TextOf(op.mine) \subseteq op.theirs.text \cup Out
        /\ Late(TextOf(op.mine))
        /\ op.theirs.text \subseteq Server
        /\ snapshot.remoteHash \subseteq op.theirs.text \cup Out
        /\ snapshot.remoteHash # None => snapshot.remoteHash \subseteq Server
        /\ buffer # None => buffer.base \subseteq Hand /\ Hand \subseteq Server
    BY <1>3 DEF Write, At, Safe, Entries, Withheld, Operation, Writing, Pulling
  <2> QED BY <1>2, <1>3, <2>1, <2>2, <2>3 DEF Write, At, users
<1>4. CASE Settle
  <2> DEFINE snap == Synced(op.theirs.time, op.theirs.time, op.theirs.text)
  <2>1. snap.baseHash = op.theirs.text /\ snap.remoteHash = op.theirs.text
    BY DEF Synced
  <2>2. Finish(1, snap)
    BY <1>4 DEF Settle
  <2> HIDE DEF snap
  <2>3. op.mine # None
    BY <1>4 DEF Settle, At, Typed, Shape
  <2>4. /\ TextOf(op.mine) \subseteq op.theirs.text \cup Out
        /\ Late(TextOf(op.mine))
        /\ op.theirs.text \subseteq Server
        /\ buffer # None => buffer.base \subseteq Hand /\ Hand \subseteq Server
    BY <1>4, <2>3 DEF Settle, At, Safe, Withheld, Operation, Merging, Settling,
                      TextOf
  <2> QED BY <1>2, <1>4, <2>1, <2>2, <2>4 DEF Settle, At, users
<1> QED BY <1>1, <1>3, <1>4

\* The two halves of a pull.
LEMMA PullSteps ==
  ASSUME Typed, Safe, Typed'
  PROVE  Pull \/ Adopt => Safe'
<1>1. CASE Pull
  <2>1. Out' = Out /\ Server' = Server /\ Hand' = Hand
    BY <1>1 DEF Pull, users, Out, Server, Hand
  <2>2. remote.text \subseteq Server /\ Server = remote.text \cup Out
    BY <1>1 DEF Pull, Server, TextOf
  <2>3. /\ op'.pc = "adopt" /\ op'.theirs = remote
        /\ op'.prior = snapshot.remoteHash
    BY <1>1 DEF Pull, Typed, TypeOK, Op
  <2>4. /\ snapshot'.remoteHash = remote.text
        /\ snapshot'.baseHash = snapshot.baseHash
        /\ stored' = stored /\ buffer' = buffer
    BY <1>1 DEF Pull, Typed, TypeOK, Snapshot
  <2>5. Entries' /\ Withheld' /\ made' \subseteq Hand' \cup Server'
    BY <1>1, <2>1, <2>2, <2>3, <2>4
       DEF Pull, users, Safe, Entries, Good, Withheld
  <2>6. Pulling'
    BY <1>1, <2>1, <2>2, <2>3, <2>4
       DEF Pull, At, Safe, Entries, Withheld, Pulling
  <2>7. Erasing' /\ Going' /\ Writing' /\ Merging' /\ Settling'
        /\ Overwriting' /\ Rebasing'
    BY <2>3 DEF Erasing, Going, Writing, Merging, Settling, Overwriting,
                Rebasing, At
  <2> QED BY <2>5, <2>6, <2>7 DEF Safe, Operation
<1>2. CASE Adopt
  <2>1. /\ op.theirs # None /\ op.theirs.text \subseteq Server
        /\ snapshot.remoteHash \subseteq op.theirs.text \cup Out
        /\ snapshot.baseHash # None =>
             snapshot.baseHash \subseteq op.theirs.text \cup Out
        /\ op.prior # None => op.prior \subseteq Server /\ op.prior \subseteq Hand
    BY <1>2 DEF Adopt, At, Safe, Operation, Pulling, Typed, Shape
  <2>2. Out \subseteq Out' /\ TextOf(op.mine) \subseteq op.theirs.text \cup Out'
    <3>1. CASE op.mine = None
      BY <1>2, <3>1 DEF Adopt, users, Out, TextOf
    <3>2. CASE op.mine # None /\ TextOf(op.mine) = op.theirs.text
      BY <1>2, <3>2 DEF Adopt, users, Out
    <3>3. CASE op.mine # None /\ TextOf(op.mine) = snapshot.baseHash
      <4>1. snapshot.baseHash # None
        BY <3>3, TextTypes, NoneAssumption DEF Typed, TypeOK, Op
      <4>2. Out' = Out
        BY <1>2, <3>3 DEF Adopt, users, Out
      <4> QED BY <2>1, <3>3, <4>1, <4>2
    <3>4. CASE op.mine # None /\ TextOf(op.mine) # op.theirs.text
               /\ TextOf(op.mine) # snapshot.baseHash
      <4>1. saved' = saved \cup TextOf(op.mine)
        BY <1>2, <3>4 DEF Adopt, TextOf
      <4> QED BY <1>2, <4>1 DEF Adopt, users, Out
    <3> QED BY <3>1, <3>2, <3>3, <3>4
  <2>3. Server' = Server \cup Out' /\ Hand' = Hand \cup Out'
    BY <1>2, <2>2 DEF Adopt, users, Server, Hand
  <2>4. made' \subseteq Hand' \cup Server' /\ Withheld'
    BY <1>2, <2>3 DEF Adopt, users, Safe, Withheld
  <2>5. CASE ~ LocalHeld
    <3> DEFINE snap == [snapshot EXCEPT !.remoteHash = op.prior]
    <3>1. Finish(0, snap)
      BY <1>2, <2>5 DEF Adopt
    <3>2. snap.baseHash = snapshot.baseHash /\ snap.remoteHash = op.prior
      BY DEF Typed, TypeOK, Snapshot
    <3> HIDE DEF snap
    <3>3. snapshot.baseHash # None =>
            snapshot.baseHash \subseteq Server /\ snapshot.baseHash \subseteq Hand
      BY DEF Safe, Entries
    <3> QED BY <2>1, <2>2, <2>3, <2>4, <3>1, <3>2, <3>3, Ending
  <2>6. CASE LocalHeld
    <3>1. /\ op' = [op EXCEPT !.pc = "write"] /\ op'.pc = "write"
          /\ op'.mine = op.mine /\ op'.theirs = op.theirs
          /\ op'.prior = op.prior
          /\ UNCHANGED <<snapshot, stored>>
      BY <1>2, <2>6, GotoTypes DEF Adopt, Typed, TypeOK, Op, Steps
    <3>2. Entries'
      BY <2>2, <2>3, <3>1 DEF Safe, Entries, Good
    <3>3. Pulling'
      BY <1>2, <2>1, <2>2, <2>3, <3>1
         DEF Adopt, At, Safe, Operation, Pulling
    <3>4. Writing'
      <4>1. Hand' \subseteq TextOf(op.mine) \cup Out'
        BY <2>2, <2>3, <2>6 DEF LocalHeld, Hand
      <4> QED BY <2>2, <3>1, <4>1 DEF Writing, Late
    <3>5. Erasing' /\ Going' /\ Merging' /\ Settling' /\ Overwriting'
          /\ Rebasing'
      BY <3>1 DEF Erasing, Going, Merging, Settling, Overwriting, Rebasing, At
    <3> QED BY <2>4, <3>2, <3>3, <3>4, <3>5 DEF Safe, Operation
  <2> QED BY <2>5, <2>6
<1> QED BY <1>1, <1>2

\* What a three-way merge can drop: nothing, if both sides hold the base or
\* account for what they lack of it.
LEMMA MergeKeeps ==
  ASSUME NEW base, NEW proposed, NEW current, NEW out,
         base \subseteq proposed \cup out, base \subseteq current \cup out
  PROVE  /\ proposed \subseteq Merge3(base, proposed, current) \cup out
         /\ current \subseteq Merge3(base, proposed, current) \cup out
  BY DEF Merge3

LEMMA MergeSteps ==
  ASSUME Typed, Safe, Typed'
  PROVE  Merge \/ MergeRefused \/ MergeUnheard => Safe'
<1>1. CASE Merge
  <2> DEFINE base == snapshot.baseHash
  <2>1. /\ local # None /\ local \in File /\ local.text \in Text
        /\ base # None /\ base \in Text
        /\ Reconcile(base, local.text)
        /\ UNCHANGED <<local, snapshot, stored, buffer, made, deleted, saved, gap>>
    BY <1>1 DEF Merge, users, Typed, TypeOK, File, Snapshot
  <2>2. base \subseteq Server /\ base \subseteq Hand
    BY <2>1 DEF Safe, Entries
  <2>3. /\ remote' # None
        /\ op'.pc = "apply" /\ op'.mine = local /\ op'.theirs = remote'
    <3>1. op' = [op EXCEPT !.pc = "apply", !.mine = local,
                          !.theirs = remote', !.prior = base]
          /\ remote' # None
      BY <2>1, ReconcileTypes
    <3> QED BY <3>1 DEF Typed, TypeOK, Op
  <2>4. /\ local.text \subseteq remote'.text \cup Out
        /\ TextOf(remote) \subseteq remote'.text \cup Out
    <3>1. CASE remote # None /\ remote.text = local.text /\ UNCHANGED remote
      BY <3>1 DEF TextOf
    <3>2. CASE remote = None /\ \E t \in Time : Put(local.text, t)
      BY <3>2 DEF Put, TextOf
    <3>3. CASE remote # None
               /\ \E t \in Time : Put(Merge3(base, local.text, remote.text), t)
      <4>1. remote'.text = Merge3(base, local.text, remote.text)
        BY <3>3 DEF Put
      <4>2. base \subseteq local.text \cup Out /\ base \subseteq remote.text \cup Out
        BY <2>1, <2>2, <3>3 DEF Server, Hand, TextOf
      <4> QED BY <3>3, <4>1, <4>2, MergeKeeps DEF TextOf
    <3> QED BY <2>1, <3>1, <3>2, <3>3 DEF Reconcile
  <2>5. Out' = Out /\ Hand' = Hand /\ Server' = remote'.text \cup Out
    BY <2>1, <2>3 DEF Out, Server, Hand, TextOf
  <2>6. Server \subseteq Server' /\ Hand \subseteq Server' /\ local.text \subseteq Hand
    BY <2>1, <2>4, <2>5 DEF Server, Hand, TextOf
  <2>7. op.pc = "merge"
    BY <1>1 DEF Merge, At
  <2> HIDE DEF base
  <2>8. Entries' /\ Withheld' /\ made' \subseteq Hand' \cup Server'
    BY <2>1, <2>3, <2>5, <2>6, <2>7 DEF Safe, Entries, Good, Withheld
  <2>9. Merging'
    BY <2>3, <2>4, <2>5, <2>6 DEF Merging
  <2>10. Erasing' /\ Going' /\ Pulling' /\ Writing' /\ Settling'
         /\ Overwriting' /\ Rebasing'
    BY <2>3 DEF Erasing, Going, Pulling, Writing, Settling, Overwriting,
                Rebasing, At
  <2> QED BY <2>8, <2>9, <2>10 DEF Safe, Operation
<1>2. CASE MergeRefused
  BY <1>2, Turning DEF MergeRefused, At, users
<1>3. CASE MergeUnheard
  <2> DEFINE base == snapshot.baseHash
  <2>1. /\ local # None /\ remote # None /\ base # None
        /\ UNCHANGED <<local, snapshot, stored, buffer, made, deleted, saved, gap>>
        /\ Goto("resolve")
    BY <1>3 DEF MergeUnheard, users
  <2>2. base \subseteq Server /\ base \subseteq Hand
    BY <2>1 DEF Safe, Entries
  <2>3. remote' # None /\ remote'.text = Merge3(base, local.text, remote.text)
    <3>1. \E t : Put(Merge3(base, local.text, remote.text), t)
      BY <1>3 DEF MergeUnheard
    <3>2. remote'.text = Merge3(base, local.text, remote.text) /\ news' = TRUE
      BY <3>1 DEF Put
    <3> QED BY <3>2 DEF Typed, Shape
  <2>4. /\ local.text \subseteq remote'.text \cup Out
        /\ remote.text \subseteq remote'.text \cup Out
    <3>1. base \subseteq local.text \cup Out /\ base \subseteq remote.text \cup Out
      BY <2>1, <2>2 DEF Server, Hand, TextOf
    <3> QED BY <2>3, <3>1, MergeKeeps
  <2>5. Out' = Out /\ Hand' = Hand /\ Server' = remote'.text \cup Out
    BY <2>1, <2>3 DEF Out, Server, Hand, TextOf
  <2>6. Server \subseteq Server' /\ Hand \subseteq Server'
    BY <2>1, <2>4, <2>5 DEF Server, Hand, TextOf
  <2>7. op.pc = "merge" /\ op'.pc = "resolve"
    BY <1>3, GotoTypes DEF MergeUnheard, At, Typed, TypeOK, Steps
  <2> HIDE DEF base
  <2>8. Entries' /\ Withheld' /\ made' \subseteq Hand' \cup Server'
    BY <2>1, <2>5, <2>6, <2>7 DEF Safe, Entries, Good, Withheld
  <2>9. Operation'
    BY <2>7 DEF Operation, Erasing, Going, Pulling, Writing, Merging, Settling,
                Overwriting, Rebasing, At
  <2> QED BY <2>8, <2>9 DEF Safe
<1> QED BY <1>1, <1>2, <1>3

\* The local copy is read again after the server's answer.
LEMMA ApplyStep ==
  ASSUME Typed, Safe, Typed', Apply
  PROVE  Safe'
<1>1. /\ op.pc = "apply" /\ op.mine # None /\ op.theirs # None
      /\ op.theirs.text \subseteq Server
      /\ op.mine.text \subseteq op.theirs.text \cup Out
      /\ op.mine.text \subseteq Hand
  BY DEF Apply, At, Typed, Shape, Safe, Operation, Merging
<1>2. CASE local # None /\ local.text = op.mine.text
  <2>1. /\ op'.pc = "settle" /\ op'.mine = op.mine /\ op'.theirs = op.theirs
        /\ UNCHANGED <<snapshot, stored>>
    <3>1. Goto("settle") /\ UNCHANGED <<snapshot, stored>>
      BY <1>2 DEF Apply, TextOf
    <3> QED BY <3>1, GotoTypes DEF Typed, TypeOK, Op, Steps
  <2>2. saved \subseteq saved'
    BY <1>2 DEF Apply, TextOf
  <2>3. Out \subseteq Out'
    BY <2>2 DEF Apply, users, Out
  <2>4. Server' = Server \cup Out' /\ Hand' = Hand \cup Out'
        /\ Hand' = op.mine.text \cup Out'
    BY <1>2, <2>3 DEF Apply, users, Server, Hand, TextOf
  <2>5. Entries' /\ Withheld' /\ made' \subseteq Hand' \cup Server'
    BY <1>1, <2>1, <2>4 DEF Apply, users, Safe, Entries, Good, Withheld
  <2>6. Merging' /\ Settling'
    BY <1>1, <2>1, <2>3, <2>4 DEF Merging, Settling, Late
  <2>7. Erasing' /\ Going' /\ Pulling' /\ Writing' /\ Overwriting'
        /\ Rebasing'
    BY <2>1 DEF Erasing, Going, Pulling, Writing, Overwriting, Rebasing, At
  <2> QED BY <2>5, <2>6, <2>7 DEF Safe, Operation
<1>3. CASE ~ (local # None /\ local.text = op.mine.text)
  <2> DEFINE snap == [snapshot EXCEPT !.baseHash = op.mine.text]
  <2>1. Finish(1, snap) /\ UNCHANGED saved
    BY <1>3 DEF Apply, TextOf
  <2>2. snap.baseHash = op.mine.text /\ snap.remoteHash = snapshot.remoteHash
    BY DEF Typed, TypeOK, Snapshot
  <2> HIDE DEF snap
  <2>3. Out' = Out /\ Server' = Server /\ Hand' = Hand
    BY <2>1 DEF Apply, users, Out, Server, Hand
  <2>4. made' \subseteq Hand' \cup Server' /\ Withheld'
    BY <2>3 DEF Apply, users, Safe, Withheld
  <2>5. op.mine.text \subseteq Server /\ Out \subseteq Server
    BY <1>1 DEF Server
  <2>6. snapshot.remoteHash # None =>
          snapshot.remoteHash \subseteq Server /\ snapshot.remoteHash \subseteq Hand
    BY <1>1 DEF Safe, Entries
  <2> QED BY <1>1, <2>1, <2>2, <2>3, <2>4, <2>5, <2>6, Ending
<1> QED BY <1>2, <1>3

\* The resolver: the local copy wins, the remote text is kept aside.
LEMMA ResolverSteps ==
  ASSUME Typed, Safe, Typed'
  PROVE  /\ Resolve \/ Rebase => Safe'
         /\ \A heard \in BOOLEAN : Overwrite(heard) => Safe'
<1>1. CASE Resolve
  <2>1. /\ local \in File /\ remote \in File /\ local # None /\ remote # None
        /\ Out' = Out /\ Server' = Server /\ Hand' = Hand
    BY <1>1 DEF Resolve, users, Out, Server, Hand, Typed, TypeOK
  <2>2. Server = remote.text \cup Out /\ Hand = local.text \cup Out
    BY <2>1 DEF Server, Hand, TextOf
  <2>3. /\ snapshot'.remoteHash = remote.text
        /\ snapshot'.baseHash = snapshot.baseHash
        /\ stored' = stored
    BY <1>1 DEF Resolve, Typed, TypeOK, Snapshot
  <2>4. \/ /\ op'.pc = "rebase" /\ op'.mine = local
           /\ local.text = remote.text
        \/ op'.pc = "overwrite" /\ op'.theirs = remote
    BY <1>1 DEF Resolve, Typed, TypeOK, Op
  <2>5. Entries' /\ Withheld' /\ made' \subseteq Hand' \cup Server'
    BY <1>1, <2>1, <2>2, <2>3, <2>4
       DEF Resolve, users, Safe, Entries, Good, Withheld
  <2>6. Overwriting'
    BY <2>3, <2>4 DEF Overwriting, At
  <2>7. Rebasing'
    BY <2>1, <2>2, <2>4 DEF Rebasing, At, Late
  <2>8. Erasing' /\ Going' /\ Pulling' /\ Writing' /\ Merging' /\ Settling'
    BY <2>4 DEF Erasing, Going, Pulling, Writing, Merging, Settling, At
  <2> QED BY <2>5, <2>6, <2>7, <2>8 DEF Safe, Operation
<1>2. CASE Rebase
  <2>1. op.pc = "rebase" /\ op.mine.text \subseteq Server /\ Late(op.mine.text)
    BY <1>2 DEF Rebase, At, Safe, Operation, Rebasing
  <2>2. Out' = Out \cup op.late
    BY <1>2 DEF Rebase, users, Out, Typed, TypeOK, Gap
  <2>3. Server' = Server \cup Out' /\ Hand' = Hand \cup Out' /\ Hand \subseteq Server'
    BY <1>2, <2>1, <2>2 DEF Rebase, users, Server, Hand, Late
  <2>4. made' \subseteq Hand' \cup Server' /\ Withheld'
    BY <1>2, <2>2, <2>3 DEF Rebase, users, Safe, Withheld
  <2>5. /\ snapshot.baseHash # None =>
             snapshot.baseHash \subseteq Server /\ snapshot.baseHash \subseteq Hand
        /\ snapshot.remoteHash # None =>
             snapshot.remoteHash \subseteq Server /\ snapshot.remoteHash \subseteq Hand
    BY <2>1 DEF Safe, Entries
  <2>6. CASE local = None
    <3>1. \E n : Finish(n, snapshot)
      BY <1>2, <2>6 DEF Rebase
    <3> QED BY <2>2, <2>3, <2>4, <2>5, <3>1, Ending
  <2>7. CASE local # None
    <3> DEFINE snap == [snapshot EXCEPT !.baseHash = local.text]
    <3>1. \E n : Finish(n, snap)
      BY <1>2, <2>7 DEF Rebase
    <3>2. snap.baseHash = local.text /\ snap.remoteHash = snapshot.remoteHash
      BY DEF Typed, TypeOK, Snapshot
    <3> HIDE DEF snap
    <3>3. local.text \subseteq Hand
      BY <2>7 DEF Hand, TextOf
    <3> QED BY <2>2, <2>3, <2>4, <2>5, <3>1, <3>2, <3>3, Ending
  <2> QED BY <2>6, <2>7
<1>3. ASSUME NEW heard \in BOOLEAN, Overwrite(heard) PROVE Safe'
  <2>1. /\ op.pc = "overwrite" /\ op.theirs # None /\ op.mine # None
        /\ op.theirs \in File /\ op.mine \in File
        /\ UNCHANGED <<local, buffer, made, deleted, gap>>
        /\ saved' = saved \cup op.theirs.text
    BY <1>3 DEF Overwrite, At, users, Typed, TypeOK, Shape, Op
  <2>2. Out' = Out \cup op.theirs.text /\ Hand' = Hand \cup Out'
    BY <2>1 DEF Out, Hand
  <2>3. /\ snapshot.baseHash # None =>
             snapshot.baseHash \subseteq Server /\ snapshot.baseHash \subseteq Hand
        /\ snapshot.remoteHash # None =>
             snapshot.remoteHash \subseteq Server /\ snapshot.remoteHash \subseteq Hand'
    BY <2>1, <2>2 DEF Safe, Entries, Operation, Overwriting, At
  <2>4. CASE /\ \E n \in {0, 1}, snap \in {[snapshot EXCEPT !.files = None],
                                         Forgotten} : Finish(n, snap)
             /\ UNCHANGED <<remote, news, clock, used>>
    <3>1. PICK n \in {0, 1}, snap \in {[snapshot EXCEPT !.files = None],
                                     Forgotten} : Finish(n, snap)
      BY <2>4
    <3>2. snap.baseHash = snapshot.baseHash
          /\ snap.remoteHash \in {None, snapshot.remoteHash}
      BY DEF Typed, TypeOK, Snapshot, Forgotten
    <3>3. Server' = Server \cup Out'
      BY <2>2, <2>4 DEF Server
    <3>4. made' \subseteq Hand' \cup Server' /\ Withheld'
      BY <2>1, <2>2, <3>3 DEF Safe, Withheld
    <3> QED BY <2>2, <2>3, <3>1, <3>2, <3>3, <3>4, Ending
  <2>5. CASE /\ local # None /\ local.text = op.mine.text
             /\ remote # None /\ remote.text = op.theirs.text
             /\ \E t \in Time :
               /\ Put(op.mine.text, t)
               /\ \/ /\ snapshot' = [snapshot EXCEPT
                          !.files = [local |-> op.mine.time, remote |-> t],
                          !.remoteHash = op.mine.text]
                     /\ Goto("rebase")
                     /\ UNCHANGED stored
                  \/ Finish(0, snapshot)
    <3>1. PICK t \in Time :
               /\ Put(op.mine.text, t)
               /\ \/ /\ snapshot' = [snapshot EXCEPT
                          !.files = [local |-> op.mine.time, remote |-> t],
                          !.remoteHash = op.mine.text]
                     /\ Goto("rebase")
                     /\ UNCHANGED stored
                  \/ Finish(0, snapshot)
      BY <2>5
    <3>2. remote' # None /\ remote'.text = op.mine.text
      <4>1. op.mine.text \in Text
        BY <2>1 DEF File
      <4> QED BY <3>1, <4>1, PutTypes
    <3>3. Server' = op.mine.text \cup Out' /\ Hand = op.mine.text \cup Out
      BY <2>5, <3>2 DEF Server, Hand, TextOf
    <3>4. Server = op.theirs.text \cup Out
      BY <2>5 DEF Server, TextOf
    <3>5. Out \subseteq Out' /\ Server \subseteq Server' /\ Hand \subseteq Hand'
          /\ Hand' = Server'
      BY <2>2, <3>3, <3>4
    <3>6. made' \subseteq Hand' \cup Server' /\ Withheld'
      BY <2>1, <3>5 DEF Safe, Withheld
    <3>7. CASE Finish(0, snapshot)
      BY <2>3, <3>5, <3>6, <3>7, Ending
    <3>8. CASE /\ snapshot' = [snapshot EXCEPT
                    !.files = [local |-> op.mine.time, remote |-> t],
                    !.remoteHash = op.mine.text]
               /\ Goto("rebase")
               /\ UNCHANGED stored
      <4>1. /\ snapshot'.baseHash = snapshot.baseHash
            /\ snapshot'.remoteHash = op.mine.text
        BY <3>8 DEF Typed, TypeOK, Snapshot
      <4>2. op'.pc = "rebase" /\ op'.mine = op.mine
        BY <3>8, GotoTypes DEF Typed, TypeOK, Op, Steps
      <4>3. op.mine.text \subseteq Server' /\ op.mine.text \subseteq Hand'
        BY <3>3, <3>5
      <4>4. Entries'
        BY <2>3, <3>5, <3>8, <4>1, <4>2, <4>3 DEF Safe, Entries, Good
      <4>5. Rebasing'
        BY <3>3, <3>5, <4>2 DEF Rebasing, Late
      <4>6. Erasing' /\ Going' /\ Pulling' /\ Writing' /\ Merging'
            /\ Settling' /\ Overwriting'
        BY <4>2 DEF Erasing, Going, Pulling, Writing, Merging, Settling,
                    Overwriting, At
      <4> QED BY <3>6, <4>4, <4>5, <4>6 DEF Safe, Operation
    <3> QED BY <3>1, <3>7, <3>8
  <2> QED BY <1>3, <2>4, <2>5 DEF Overwrite
<1> QED BY <1>1, <1>2, <1>3

\* Errors and crashes.
LEMMA FailureSteps ==
  ASSUME Typed, Safe, Typed'
  PROVE  NotFound \/ RequestFails \/ Crash => Safe'
<1>1. ASSUME op.pc \notin {"adopt", "write", "overwrite"}, Finish(0, snapshot),
             UNCHANGED <<local, remote, buffer, made, deleted, saved, gap>>
      PROVE  Safe'
  <2>1. Out' = Out /\ Server' = Server /\ Hand' = Hand
    BY <1>1 DEF Out, Server, Hand
  <2>2. made' \subseteq Hand' \cup Server' /\ Withheld'
    BY <1>1, <2>1 DEF Safe, Withheld
  <2>3. /\ snapshot.baseHash # None =>
             snapshot.baseHash \subseteq Server /\ snapshot.baseHash \subseteq Hand
        /\ snapshot.remoteHash # None =>
             snapshot.remoteHash \subseteq Server /\ snapshot.remoteHash \subseteq Hand
    BY <1>1 DEF Safe, Entries
  <2> QED BY <1>1, <2>1, <2>2, <2>3, Ending
<1>2. CASE NotFound
  BY <1>1, <1>2 DEF NotFound, Missing, users
<1>3. CASE RequestFails
  <2>1. CASE op.pc # "overwrite"
    BY <1>1, <1>3, <2>1 DEF RequestFails, At, users
  <2>2. CASE op.pc = "overwrite"
    <3>1. Out' = Out \cup op.theirs.text
      BY <1>3, <2>2 DEF RequestFails, At, users, Out, Typed, TypeOK, Gap
    <3>2. Server' = Server \cup Out' /\ Hand' = Hand \cup Out'
      BY <1>3, <3>1 DEF RequestFails, users, Server, Hand
    <3>3. made' \subseteq Hand' \cup Server' /\ Withheld'
      BY <1>3, <3>1, <3>2 DEF RequestFails, users, Safe, Withheld
    <3>4. /\ snapshot.baseHash # None =>
               snapshot.baseHash \subseteq Server /\ snapshot.baseHash \subseteq Hand
          /\ snapshot.remoteHash # None =>
               snapshot.remoteHash \subseteq Server /\ snapshot.remoteHash \subseteq Hand'
      BY <2>2, <3>1, <3>2 DEF Safe, Entries, Operation, Overwriting, At
    <3>5. Finish(0, snapshot)
      BY <1>3 DEF RequestFails
    <3> QED BY <3>1, <3>2, <3>3, <3>4, <3>5, Ending
  <2> QED BY <2>1, <2>2
<1>4. CASE Crash
  <2>1. Out' = Out /\ Server' = Server /\ Hand' = Hand
    BY <1>4 DEF Crash, users, Out, Server, Hand
  <2>2. op'.pc = "idle" /\ snapshot' = stored /\ stored' = stored
    BY <1>4, IdleTypes DEF Crash
  <2>3. Entries' /\ Withheld' /\ made' \subseteq Hand' \cup Server'
    BY <1>4, <2>1, <2>2 DEF Crash, users, Safe, Entries, Good, Withheld
  <2>4. Operation'
    BY <2>2 DEF Operation, Erasing, Going, Pulling, Writing, Merging, Settling,
                Overwriting, Rebasing, At
  <2> QED BY <2>3, <2>4 DEF Safe
<1> QED BY <1>2, <1>3, <1>4

-----------------------------------------------------------------------------
(* No difference between the copies goes unnoticed, while nothing fails    *)

\* The queue says that the local copy has changed.
LocalMarked == dirty # None /\ dirty.type \in {"local", "any"}

\* The queue knows the remote revision, or an event will tell it.
RemoteMarked == news \/ (dirty # None /\ dirty.hash # None)

\* What the engine, the editor and the two sides hold, users have written.
Written ==
  /\ TextOf(local) \subseteq made /\ TextOf(remote) \subseteq made
  /\ snapshot.remoteHash # None => snapshot.remoteHash \subseteq made
  /\ snapshot.baseHash # None => snapshot.baseHash \subseteq made
  /\ TextOf(op.mine) \subseteq made /\ TextOf(op.theirs) \subseteq made
  /\ op.prior # None => op.prior \subseteq made
  /\ buffer # None => buffer.base \subseteq made

\* A reported revision is that of the remote copy, unless a newer report is due.
Reported ==
  dirty # None /\ dirty.hash # None =>
    /\ dirty.type \in {"remote", "any"}
    /\ ~news /\ remote # None => dirty.hash = remote.text

\* The copies differ, and the path has an entry, so that a listing may not show it.
Apart ==
  local # None /\ remote # None /\ snapshot.files # None /\ local.text # remote.text

\* Then a mark or an event says so, and the recorded revision lets the engine see it.
Noticed ==
  Apart => \/ RemoteMarked /\ remote.text # snapshot.remoteHash
           \/ LocalMarked /\ local.text # snapshot.remoteHash

\* Nor can a declaration hide it.
NotHidden == buffer # None /\ Apart => RemoteMarked /\ remote.text # buffer.base

AtRest == op.pc \in {"idle", "rebase"} => Noticed /\ NotHidden

\* A remote copy that appears before the local one is created there again.
Reappeared ==
  At("recreate") /\ remote # None =>
    RemoteMarked /\ (buffer # None => remote.text # buffer.base)

\* A local copy that is no longer as listed was saved since, without a buffer that
\* was withheld: it is not the recorded revision.
MovedBeforePull ==
  op.pc \in {"erase", "pull"} /\ local # None /\ TimeOf(local) # op.expect =>
    buffer = None /\ local.text # snapshot.remoteHash

MovedSincePull ==
  At("adopt") /\ local # None /\ ~LocalHeld => buffer = None /\ local.text # op.prior

MovedSinceMerge ==
  At("apply") /\ local # None /\ local.text # op.mine.text =>
    buffer = None /\ local.text # snapshot.remoteHash

\* A remote copy that is no longer the one about to be taken over is reported, and
\* is none of the texts an editor may go on from.
RemoteMoved ==
  op.pc \in {"adopt", "write", "apply", "settle"} /\ remote # None
      /\ remote.text # op.theirs.text =>
    /\ RemoteMarked
    /\ remote.text # TextOf(op.mine)
    /\ buffer # None => remote.text # buffer.base
    /\ op.pc \in {"adopt", "write"} => remote.text # snapshot.remoteHash

Alert ==
  /\ Written /\ Reported /\ AtRest /\ Reappeared
  /\ MovedBeforePull /\ MovedSincePull /\ MovedSinceMerge /\ RemoteMoved

\* A mark only adds to what the queue says.
LEMMA MarkAdds ==
  ASSUME dirty \in {None} \cup Origin, NEW origin \in Origin, dirty' = Marked(origin)
  PROVE  /\ dirty' # None
         /\ LocalMarked \/ origin.type \in {"local", "any"} => LocalMarked'
         /\ origin.hash # None => dirty'.hash = origin.hash
         /\ origin.hash = None /\ dirty # None => dirty'.hash = dirty.hash
         /\ dirty = None => dirty' = origin
         /\ dirty # None => \/ dirty'.type = "any"
                            \/ dirty'.type = origin.type /\ dirty.type = origin.type
<1>1. dirty' \in Origin /\ dirty' # None
  BY MarkTypes, MarkAssumption
<1>2. CASE dirty = None
  BY <1>1, <1>2 DEF Marked, LocalMarked
<1>3. CASE dirty # None
  <2>1. dirty' = MergeOrigins(dirty, origin) /\ dirty \in Origin
    BY <1>3 DEF Marked
  <2>2. CASE dirty.type = origin.type
    BY <1>1, <1>3, <2>1, <2>2 DEF MergeOrigins, LocalMarked, Origin
  <2>3. CASE dirty.type # origin.type
    BY <1>1, <1>3, <2>1, <2>3 DEF MergeOrigins, LocalMarked, AnyOf, Origin
  <2> QED BY <2>2, <2>3
<1> QED BY <1>2, <1>3

\* A mark that reports no revision.
LEMMA PlainMark ==
  ASSUME Typed, Reported, NEW origin \in {Here, Probed, AnyOf(None)},
         dirty' = Marked(origin), news' = news, remote' \in {None, remote}
  PROVE  /\ Reported'
         /\ RemoteMarked => RemoteMarked'
         /\ LocalMarked \/ origin # Probed => LocalMarked'
<1>1. /\ origin \in Origin /\ origin.hash = None
      /\ origin.type \in {"local", "probe", "any"}
      /\ origin # Probed => origin.type \in {"local", "any"}
  BY OriginTypes DEF Here, Probed, AnyOf
<1>2. dirty \in {None} \cup Origin
  BY DEF Typed, TypeOK
<1>3. /\ dirty' # None
      /\ LocalMarked \/ origin.type \in {"local", "any"} => LocalMarked'
      /\ dirty # None => dirty'.hash = dirty.hash
      /\ dirty = None => dirty' = origin
      /\ dirty # None => \/ dirty'.type = "any"
                         \/ dirty'.type = origin.type /\ dirty.type = origin.type
  BY <1>1, <1>2, MarkAdds
<1>4. Reported'
  BY <1>1, <1>3 DEF Reported
<1>5. RemoteMarked => RemoteMarked'
  BY <1>1, <1>3 DEF RemoteMarked
<1> QED BY <1>1, <1>3, <1>4, <1>5

\* The queue stays as it is, and what the server writes is announced.
LEMMA StillReported ==
  ASSUME Reported, dirty' = dirty,
         news' = TRUE \/ remote' = None \/ (remote' = remote /\ news' = news)
  PROVE  Reported'
BY DEF Reported

\* A step of somebody who writes nothing.
LEMMA OnlyWatching ==
  ASSUME Typed, Alert, UNCHANGED <<snapshot, op, buffer, made>>,
         local' \in {None, local}, remote' \in {None, remote}, Reported',
         remote' # None /\ RemoteMarked => RemoteMarked', LocalMarked => LocalMarked'
  PROVE  Alert'
<1>1. Written'
  BY DEF Alert, Written, TextOf
<1>2. AtRest'
  BY DEF Alert, AtRest, Noticed, NotHidden, Apart
<1>3. Reappeared'
  BY DEF Alert, Reappeared, At
<1>4. MovedBeforePull' /\ MovedSinceMerge'
  BY DEF Alert, MovedBeforePull, MovedSinceMerge, At
<1>5. MovedSincePull'
  BY DEF Alert, MovedSincePull, LocalHeld, At
<1>6. RemoteMoved'
  BY DEF Alert, RemoteMoved
<1> QED BY <1>1, <1>2, <1>3, <1>4, <1>5, <1>6 DEF Alert

\* A save here: the edit is in none of the texts the engine compares with.
LEMMA SavedHere ==
  ASSUME Typed, Typed', Alert, NEW e, e \notin made, local' # None, e \in local'.text,
         local'.text \subseteq made \cup {e}, made' = made \cup {e},
         dirty' = Marked(Here), buffer' = None, op' = [op EXCEPT !.late = op'.late],
         UNCHANGED <<remote, snapshot, news>>
  PROVE  Alert'
<1>1. /\ op'.pc = op.pc /\ op'.mine = op.mine /\ op'.theirs = op.theirs
      /\ op'.prior = op.prior /\ op'.expect = op.expect
  BY DEF Typed, TypeOK, Op
<1>2. Reported' /\ (RemoteMarked => RemoteMarked') /\ LocalMarked'
  <2>1. Here # Probed
    BY DEF Here, Probed
  <2> QED BY <2>1, PlainMark DEF Alert
<1>3. local'.text # None
  BY NoneAssumption DEF Typed, TypeOK, File
<1>4. local'.text # snapshot.remoteHash /\ local'.text # op.prior
  BY <1>3 DEF Alert, Written
<1>5. Written'
  BY <1>1 DEF Alert, Written, TextOf
<1>6. AtRest'
  BY <1>2, <1>4 DEF AtRest, Noticed, NotHidden
<1>7. Reappeared'
  BY <1>1, <1>2 DEF Alert, Reappeared, At
<1>8. MovedBeforePull' /\ MovedSincePull' /\ MovedSinceMerge'
  BY <1>1, <1>4 DEF MovedBeforePull, MovedSincePull, MovedSinceMerge
<1>9. RemoteMoved'
  BY <1>1, <1>2 DEF Alert, RemoteMoved
<1> QED BY <1>2, <1>5, <1>6, <1>7, <1>8, <1>9 DEF Alert

\* A save on the server is announced, and is none of the texts known here.
LEMMA SavedThere ==
  ASSUME Typed, Typed', Alert, NEW e, e \notin made, remote' # None, e \in remote'.text,
         remote'.text \subseteq made \cup {e}, made' = made \cup {e}, news' = TRUE,
         UNCHANGED <<local, snapshot, op, buffer, dirty>>
  PROVE  Alert'
<1>1. RemoteMarked'
  BY DEF RemoteMarked
<1>2. remote'.text # None
  BY NoneAssumption DEF Typed, TypeOK, File
<1>3. /\ remote'.text # snapshot.remoteHash
      /\ remote'.text # TextOf(op.mine)
      /\ buffer # None => remote'.text # buffer.base
  BY <1>2 DEF Alert, Written
<1>4. Written'
  BY DEF Alert, Written, TextOf
<1>5. AtRest' /\ Reappeared' /\ RemoteMoved'
  BY <1>1, <1>3 DEF AtRest, Noticed, NotHidden, Reappeared, RemoteMoved
<1>6. MovedBeforePull' /\ MovedSinceMerge' /\ MovedSincePull'
  BY DEF Alert, MovedBeforePull, MovedSinceMerge, MovedSincePull, LocalHeld, At
<1>7. Reported'
  BY StillReported DEF Alert
<1> QED BY <1>4, <1>5, <1>6, <1>7 DEF Alert

\* The end of an operation.
LEMMA AlertAtEnd ==
  ASSUME Typed, Alert, NEW n, NEW snap, Finish(n, snap), made' = made,
         TextOf(local') \subseteq made, TextOf(remote') \subseteq made,
         snap.remoteHash # None => snap.remoteHash \subseteq made,
         snap.baseHash # None => snap.baseHash \subseteq made,
         buffer' # None => buffer'.base \subseteq made,
         Reported', Noticed', NotHidden'
  PROVE  Alert'
<1>1. op' = Idle /\ snapshot' = snap /\ op'.pc = "idle"
  BY IdleTypes DEF Finish
<1>2. op'.mine = None /\ op'.theirs = None /\ op'.prior = None
  BY <1>1 DEF Idle
<1>3. Written'
  BY <1>1, <1>2 DEF Written, TextOf
<1>4. /\ AtRest' /\ Reappeared' /\ MovedBeforePull' /\ MovedSincePull'
      /\ MovedSinceMerge' /\ RemoteMoved'
  BY <1>1 DEF AtRest, Reappeared, MovedBeforePull, MovedSincePull, MovedSinceMerge,
              RemoteMoved, At
<1> QED BY <1>3, <1>4 DEF Alert

\* It ends with copies that agree, or with a path that has no entry.
LEMMA AlertAgreed ==
  ASSUME Typed, Alert, NEW n, NEW snap, Finish(n, snap), made' = made,
         TextOf(local') \subseteq made, TextOf(remote') \subseteq made,
         snap.remoteHash # None => snap.remoteHash \subseteq made,
         snap.baseHash # None => snap.baseHash \subseteq made,
         buffer' = buffer, Reported',
         local' = None \/ remote' = None \/ snap.files = None \/ local'.text = remote'.text
  PROVE  Alert'
<1>1. ~Apart'
  BY DEF Finish, Apart
<1>2. Noticed' /\ NotHidden'
  BY <1>1 DEF Noticed, NotHidden
<1>3. buffer' # None => buffer'.base \subseteq made
  BY DEF Alert, Written
<1> QED BY <1>2, <1>3, AlertAtEnd

\* From a refused request to the next step.
LEMMA AlertPassing ==
  ASSUME Typed, Alert, NEW step \in {"resolve", "merge"}, Goto(step),
         UNCHANGED <<local, remote, snapshot, dirty, news, buffer, made>>
  PROVE  Alert'
<1>1. op' = [op EXCEPT !.pc = step] /\ op'.pc = step
  BY GotoTypes DEF Typed, TypeOK, Steps
<1>2. op'.mine = op.mine /\ op'.theirs = op.theirs /\ op'.prior = op.prior
  BY <1>1 DEF Typed, TypeOK, Op
<1>3. Written' /\ Reported'
  BY <1>2 DEF Alert, Written, Reported
<1>4. /\ AtRest' /\ Reappeared' /\ MovedBeforePull' /\ MovedSincePull'
      /\ MovedSinceMerge' /\ RemoteMoved'
  BY <1>1 DEF AtRest, Reappeared, MovedBeforePull, MovedSincePull, MovedSinceMerge,
              RemoteMoved, At
<1> QED BY <1>3, <1>4 DEF Alert

\* The users, the events and the editor.
LEMMA AlertUsers ==
  ASSUME Typed, Typed', Alert
  PROVE  /\ \A e \in Edits : Save(e) \/ RemoteSave(e) \/ DivergentWrite(e) => Alert'
         /\ Delete \/ RemoteDelete \/ Deliver \/ Probe \/ Declare => Alert'
<1>1. ASSUME NEW e \in Edits, Save(e) PROVE Alert'
  <2>1. local' = [text |-> TextOf(local) \cup {e}, time |-> local'.time] /\ local' # None
    <3>1. PICK t \in Time : local' = [text |-> TextOf(local) \cup {e}, time |-> t]
      BY <1>1 DEF Save
    <3>2. TextOf(local) \cup {e} \in Text
      BY TextTypes DEF Text, Typed, TypeOK
    <3> QED BY <3>1, <3>2, NoneAssumption DEF File
  <2>2. TextOf(local) \subseteq made
    BY DEF Alert, Written
  <2>3. op' = [op EXCEPT !.late = op'.late]
    BY <1>1, OverlookedTypes DEF Save, Typed, TypeOK
  <2> QED BY <1>1, <2>1, <2>2, <2>3, SavedHere DEF Save
<1>2. ASSUME NEW e \in Edits, DivergentWrite(e) PROVE Alert'
  <2>1. local' = [text |-> buffer.base \cup {e}, time |-> local'.time] /\ local' # None
    <3>1. PICK t \in Time : local' = [text |-> buffer.base \cup {e}, time |-> t]
      BY <1>2 DEF DivergentWrite
    <3>2. buffer.base \cup {e} \in Text
      BY <1>2 DEF DivergentWrite, Text, Typed, TypeOK, Buffer
    <3> QED BY <3>1, <3>2, NoneAssumption DEF File
  <2>2. buffer.base \subseteq made
    BY <1>2 DEF DivergentWrite, Alert, Written
  <2>3. op' = [op EXCEPT !.late = op'.late]
    BY <1>2, OverlookedTypes DEF DivergentWrite, Typed, TypeOK
  <2> QED BY <1>2, <2>1, <2>2, <2>3, SavedHere DEF DivergentWrite
<1>3. ASSUME NEW e \in Edits, RemoteSave(e) PROVE Alert'
  <2>1. remote'.text = TextOf(remote) \cup {e} /\ remote' # None /\ news' = TRUE
    <3>1. PICK t \in Time : Put(TextOf(remote) \cup {e}, t)
      BY <1>3 DEF RemoteSave
    <3>2. TextOf(remote) \cup {e} \in Text
      BY TextTypes DEF Text, Typed, TypeOK
    <3> QED BY <3>1, <3>2, PutTypes
  <2>2. TextOf(remote) \subseteq made
    BY DEF Alert, Written
  <2> QED BY <1>3, <2>1, <2>2, SavedThere DEF RemoteSave
<1>4. CASE Delete
  <2>1. Reported'
    BY <1>4, StillReported DEF Delete, Alert
  <2> QED BY <1>4, <2>1, OnlyWatching DEF Delete, RemoteMarked, LocalMarked
<1>5. CASE RemoteDelete
  <2>1. Reported'
    BY <1>5, StillReported DEF RemoteDelete, Alert
  <2> QED BY <1>5, <2>1, OnlyWatching DEF RemoteDelete, RemoteMarked, LocalMarked
<1>6. CASE Probe
  BY <1>6, PlainMark, OnlyWatching DEF Probe, Alert
<1>7. CASE Deliver
  <2>1. remote \in File /\ remote.text # None
    BY <1>7, NoneAssumption DEF Deliver, Typed, TypeOK, Shape, File
  <2>2. There(remote) \in Origin /\ There(remote).hash = remote.text
        /\ There(remote).type = "remote"
    BY <2>1, OriginTypes DEF There
  <2>3. dirty' # None /\ dirty'.hash = remote.text
        /\ dirty'.type \in {"remote", "any"} /\ (LocalMarked => LocalMarked')
    BY <1>7, <2>1, <2>2, MarkAdds DEF Deliver, Typed, TypeOK
  <2>4. Reported' /\ RemoteMarked'
    BY <1>7, <2>1, <2>3 DEF Deliver, Reported, RemoteMarked
  <2> QED BY <1>7, <2>3, <2>4, OnlyWatching DEF Deliver
<1>8. CASE Declare
  <2>1. buffer # None /\ buffer'.base = buffer.base
        /\ snapshot'.remoteHash = buffer.base /\ snapshot'.baseHash = buffer.base
        /\ snapshot'.files = snapshot.files
        /\ UNCHANGED <<local, remote, dirty, op, news, made>>
    <3>1. buffer \in Buffer /\ snapshot \in Snapshot
      BY <1>8 DEF Declare, Typed, TypeOK
    <3>2. /\ buffer' = [buffer EXCEPT !.declared = TRUE]
          /\ snapshot' = [snapshot EXCEPT !.baseHash = buffer.base,
                                          !.remoteHash = buffer.base]
          /\ buffer # None
          /\ UNCHANGED <<local, remote, dirty, op, news, made>>
      BY <1>8 DEF Declare
    <3> QED BY <3>1, <3>2 DEF Buffer, Snapshot
  <2>2. Written'
    BY <2>1 DEF Alert, Written
  <2>3. Reported'
    BY <2>1 DEF Alert, Reported
  <2>4. AtRest'
    BY <2>1 DEF Alert, AtRest, Noticed, NotHidden, Apart, RemoteMarked
  <2>5. Reappeared'
    BY <2>1 DEF Alert, Reappeared, RemoteMarked, At
  <2>6. MovedBeforePull' /\ MovedSincePull' /\ MovedSinceMerge'
    BY <2>1 DEF Alert, MovedBeforePull, MovedSincePull, MovedSinceMerge, LocalHeld, At
  <2>7. RemoteMoved'
    BY <2>1 DEF Alert, RemoteMoved, RemoteMarked
  <2> QED BY <2>2, <2>3, <2>4, <2>5, <2>6, <2>7 DEF Alert
<1> QED BY <1>1, <1>2, <1>3, <1>4, <1>5, <1>6, <1>7, <1>8

\* A mark that tells of a difference is neither dropped nor without effect.
LEMMA DifferenceTaken ==
  ASSUME Typed, Apart, dirty # None,
         \/ /\ dirty.type \in {"remote", "any"}
            /\ dirty.hash \notin {None, snapshot.remoteHash}
         \/ dirty.type \in {"local", "any"} /\ local.text # snapshot.remoteHash,
         NEW healthy
  PROVE  /\ ~ShouldSkip(dirty, healthy)
         /\ ~(dirty.type = "local" /\ LocalWriteIsEcho)
         /\ Route(SignalFor(dirty)) # "none"
<1>1. /\ local # None /\ remote # None /\ snapshot.files # None
      /\ snapshot.remoteHash # None
  BY DEF Apart, Typed, RevisionKnown
<1>2. ~ShouldSkip(dirty, healthy) /\ ~(dirty.type = "local" /\ LocalWriteIsEcho)
  BY <1>1 DEF ShouldSkip, LocalWriteIsEcho
<1> DEFINE signal == SignalFor(dirty)
<1>3. /\ signal.type \in {"changed", "remoteRevision"}
      /\ \/ signal.type = "remoteRevision" /\ signal.hash # snapshot.remoteHash
         \/ local.text # snapshot.remoteHash
  BY DEF SignalFor
<1> HIDE DEF signal
<1>4. ClassifySignalled(signal) # "none"
  BY <1>3 DEF ClassifySignalled
<1>5. BothThere(signal) # "none"
  <2> HIDE DEF Length
  <2> QED BY <1>4 DEF BothThere
<1>6. Route(signal) = BothThere(signal)
  BY <1>1 DEF Route
<1> QED BY <1>2, <1>5, <1>6 DEF signal

\* An operation starts from what was just listed.
LEMMA AlertBegin ==
  ASSUME Typed, Alert, At("idle"), NEW full \in BOOLEAN, NEW signal,
         Begin(full, signal), Route(signal) # "none", Reported',
         UNCHANGED <<local, remote, news, buffer, made>>
  PROVE  Alert'
<1>1. CASE Route(signal) = "drop"
  <2>1. snapshot' = Blank /\ op' = op
    BY <1>1 DEF Begin
  <2>2. Written'
    BY <2>1, BlankTypes DEF Alert, Written
  <2>3. AtRest'
    BY <2>1, BlankTypes DEF AtRest, Noticed, NotHidden, Apart
  <2> QED BY <2>1, <2>2, <2>3
          DEF Alert, At, Reappeared, MovedBeforePull, MovedSincePull, MovedSinceMerge,
              RemoteMoved
<1>2. CASE Route(signal) # "drop"
  <2>1. /\ op' = [[Idle EXCEPT !.full = full] EXCEPT
                    !.pc = Route(signal),
                    !.expect = TimeOf(local),
                    !.mine = IF Route(signal) = "gone" THEN local ELSE None]
        /\ snapshot' = snapshot
    BY <1>2 DEF Begin
  <2>2. Route(signal) \in Routes \ {"none", "drop"}
    BY <1>2, RouteTypes
  <2>3. /\ op'.pc = Route(signal) /\ op'.expect = TimeOf(local)
        /\ op'.mine \in {None, local} /\ op'.theirs = None /\ op'.prior = None
    BY <2>1 DEF Idle
  <2>4. Written'
    BY <2>1, <2>3 DEF Alert, Written, TextOf
  <2>5. op'.pc = "recreate" => remote = None
    <3>1. BothThere(signal) # "recreate"
      <4> HIDE DEF Length
      <4> QED BY DEF BothThere, ClassifySignalled
    <3> QED BY <2>3, <3>1 DEF Route
  <2>6. AtRest' /\ Reappeared' /\ MovedBeforePull'
    BY <2>2, <2>3, <2>5 DEF AtRest, Reappeared, MovedBeforePull, At, Routes
  <2>7. MovedSincePull' /\ MovedSinceMerge' /\ RemoteMoved'
    BY <2>2, <2>3 DEF MovedSincePull, MovedSinceMerge, RemoteMoved, At, Routes
  <2> QED BY <2>4, <2>6, <2>7 DEF Alert
<1> QED BY <1>1, <1>2

\* A scan finds the difference or leaves it noticed; a mark that tells of one is taken.
LEMMA AlertLoop ==
  ASSUME Typed, Typed', Alert PROVE Scan \/ Take => Alert'
<1>1. ASSUME At("idle"), snapshot' = snapshot, op' = op, Reported', AtRest',
             UNCHANGED <<local, remote, buffer, made>>
      PROVE  Alert'
  <2>1. Written'
    BY <1>1 DEF Alert, Written
  <2> QED BY <1>1, <2>1
          DEF Alert, At, Reappeared, MovedBeforePull, MovedSincePull, MovedSinceMerge,
              RemoteMoved
<1>2. CASE Scan
  <2>1. Reported'
    BY <1>2, StillReported DEF Scan, Alert
  <2>2. CASE Route(Unknown) = "none"
    <3>1. snapshot' = snapshot /\ op' = op /\ dirty' = dirty /\ news' = news
          /\ UNCHANGED <<local, remote, buffer, made>> /\ At("idle")
      BY <1>2, <2>2 DEF Scan, Begin, users
    <3>2. AtRest'
      BY <3>1 DEF Alert, AtRest, Noticed, NotHidden, Apart, RemoteMarked, LocalMarked
    <3> QED BY <1>1, <2>1, <3>1, <3>2
  <2>3. CASE Route(Unknown) # "none"
    BY <1>2, <2>1, <2>3, AlertBegin DEF Scan, users
  <2> QED BY <2>2, <2>3
<1>3. CASE Take
  <2>1. /\ At("idle") /\ dirty # None /\ dirty' = None
        /\ UNCHANGED <<local, remote, news, buffer, made>>
    BY <1>3 DEF Take, users
  <2>2. Reported'
    BY <2>1 DEF Reported
  <2>3. PICK healthy \in BOOLEAN :
          IF \/ ShouldSkip(dirty, healthy)
             \/ dirty.type = "local" /\ LocalWriteIsEcho
          THEN UNCHANGED <<op, snapshot, stored>>
          ELSE Begin(FALSE, SignalFor(dirty))
    BY <1>3 DEF Take
  <2>4. CASE ~ \/ ShouldSkip(dirty, healthy)
               \/ dirty.type = "local" /\ LocalWriteIsEcho
               \/ Route(SignalFor(dirty)) = "none"
    BY <2>1, <2>2, <2>3, <2>4, AlertBegin
  <2>5. CASE \/ ShouldSkip(dirty, healthy)
             \/ dirty.type = "local" /\ LocalWriteIsEcho
             \/ Route(SignalFor(dirty)) = "none"
    <3>1. snapshot' = snapshot /\ op' = op
      BY <2>3, <2>5 DEF Begin
    <3>2. ASSUME Apart PROVE news /\ remote.text # snapshot.remoteHash
      <4>1. Noticed
        BY <2>1 DEF Alert, AtRest, At
      <4>2. ~(LocalMarked /\ local.text # snapshot.remoteHash)
        BY <2>1, <2>5, <3>2, DifferenceTaken DEF LocalMarked
      <4>3. RemoteMarked /\ remote.text # snapshot.remoteHash
        BY <3>2, <4>1, <4>2 DEF Noticed
      <4>4. ASSUME ~news PROVE FALSE
        <5>1. dirty.hash # None /\ dirty.type \in {"remote", "any"}
              /\ dirty.hash = remote.text
          BY <3>2, <4>3, <4>4 DEF RemoteMarked, Alert, Reported, Apart
        <5> QED BY <2>1, <2>5, <3>2, <4>3, <5>1, DifferenceTaken
      <4> QED BY <4>3, <4>4
    <3>3. AtRest'
      <4>1. NotHidden
        BY <2>1 DEF Alert, AtRest, At
      <4>2. Apart' = Apart /\ (news => RemoteMarked')
        BY <2>1, <3>1 DEF Apart, RemoteMarked
      <4> QED BY <2>1, <3>1, <3>2, <4>1, <4>2 DEF AtRest, Noticed, NotHidden
    <3> QED BY <1>1, <2>1, <2>2, <3>1, <3>3
  <2> QED BY <2>4, <2>5
<1> QED BY <1>2, <1>3

\* A request that the server accepts and answers leaves equal copies.
LEMMA AlertSent ==
  ASSUME Typed, Alert, local # None, Put(local.text, local.time),
         Finish(1, Synced(local.time, local.time, local.text)),
         UNCHANGED <<local, dirty, buffer, made>>
  PROVE  Alert'
<1>1. /\ local \in File /\ local.text \in Text /\ local.time \in Time
      /\ local.text \subseteq made
  BY DEF Typed, TypeOK, File, Alert, Written, TextOf
<1>2. remote' # None /\ remote'.text = local.text /\ news' = TRUE
  BY <1>1, PutTypes
<1> DEFINE snap == Synced(local.time, local.time, local.text)
<1>3. snap.remoteHash = local.text /\ snap.baseHash = local.text
  BY <1>1, SyncedTypes
<1>4. Finish(1, snap)
  OBVIOUS
<1> HIDE DEF snap
<1>5. Reported'
  BY <1>2, StillReported DEF Alert
<1>6. TextOf(local') \subseteq made /\ TextOf(remote') \subseteq made
  BY <1>1, <1>2 DEF TextOf
<1> QED BY <1>1, <1>2, <1>3, <1>4, <1>5, <1>6, AlertAgreed

\* The four conditional requests: accepted, or refused and passed on.
LEMMA AlertRequests ==
  ASSUME Typed, Typed', Alert
  PROVE  Create(TRUE) \/ Recreate(TRUE) \/ Push(TRUE) \/ Erase(TRUE) => Alert'
<1>1. ASSUME NEW snap, Answered(TRUE, 1, snap) PROVE Finish(1, snap)
  BY <1>1 DEF Answered
<1>2. CASE Create(TRUE)
  <2>1. CASE remote = None
    BY <1>1, <1>2, <2>1, AlertSent DEF Create, users
  <2>2. CASE remote # None
    BY <1>2, <2>2, AlertPassing DEF Create, users
  <2> QED BY <2>1, <2>2
<1>3. CASE Recreate(TRUE)
  <2>1. CASE remote = None
    BY <1>1, <1>3, <2>1, AlertSent DEF Recreate, users
  <2>2. CASE remote # None
    <3>1. /\ Finish(1, snapshot) /\ At("recreate") /\ dirty' = Marked(AnyOf(None))
          /\ UNCHANGED <<local, remote, news, buffer, made>>
      BY <1>3, <2>2 DEF Recreate, users
    <3>2. AnyOf(None) # Probed
      BY DEF AnyOf, Probed
    <3>3. Reported' /\ LocalMarked' /\ (RemoteMarked => RemoteMarked')
      BY <3>1, <3>2, PlainMark DEF Alert
    <3>4. snapshot' = snapshot /\ RemoteMarked'
          /\ (buffer # None => remote.text # buffer.base)
      BY <2>2, <3>1, <3>3 DEF Alert, Reappeared, Finish
    <3>5. Noticed' /\ NotHidden'
      BY <3>1, <3>3, <3>4 DEF Noticed, NotHidden, Apart
    <3> QED BY <3>1, <3>3, <3>5, AlertAtEnd DEF Alert, Written
  <2> QED BY <2>1, <2>2
<1>4. CASE Push(TRUE)
  <2>1. CASE remote # None /\ remote.text = snapshot.remoteHash
    BY <1>1, <1>4, <2>1, AlertSent DEF Push, TextOf, users
  <2>2. CASE ~(remote # None /\ remote.text = snapshot.remoteHash)
    BY <1>4, <2>2, AlertPassing DEF Push, users
  <2> QED BY <2>1, <2>2
<1>5. CASE Erase(TRUE)
  <2>1. CASE remote # None /\ remote.text = snapshot.remoteHash
    <3>1. /\ remote' = None /\ Finish(1, Blank)
          /\ UNCHANGED <<local, dirty, buffer, made>>
      BY <1>1, <1>5, <2>1 DEF Erase, TextOf, users
    <3>2. Reported'
      BY <3>1, StillReported DEF Alert
    <3>3. TextOf(local') \subseteq made /\ TextOf(remote') \subseteq made
      BY <3>1 DEF Alert, Written, TextOf
    <3> QED BY <3>1, <3>2, <3>3, BlankTypes, AlertAgreed
  <2>2. CASE ~(remote # None /\ remote.text = snapshot.remoteHash)
    <3>1. /\ UNCHANGED <<local, remote, snapshot, dirty, news, buffer, made>>
          /\ op' = [op EXCEPT !.pc = "pull"] /\ At("erase")
      BY <1>5, <2>2 DEF Erase, Goto, users
    <3>2. /\ op'.pc = "pull" /\ op'.mine = op.mine /\ op'.theirs = op.theirs
          /\ op'.prior = op.prior /\ op'.expect = op.expect
      BY <3>1 DEF Typed, TypeOK, Op
    <3>3. Written' /\ Reported'
      BY <3>1, <3>2 DEF Alert, Written, Reported
    <3>4. MovedBeforePull'
      BY <3>1, <3>2 DEF Alert, MovedBeforePull, At
    <3>5. /\ AtRest' /\ Reappeared' /\ MovedSincePull' /\ MovedSinceMerge'
          /\ RemoteMoved'
      BY <3>2 DEF AtRest, Reappeared, MovedSincePull, MovedSinceMerge, RemoteMoved, At
    <3> QED BY <3>3, <3>4, <3>5 DEF Alert
  <2> QED BY <2>1, <2>2
<1> QED BY <1>2, <1>3, <1>4, <1>5

\* The two halves of a pull.
LEMMA AlertPull ==
  ASSUME Typed, Typed', Alert PROVE Gone \/ Pull \/ Adopt => Alert'
<1>1. CASE Gone
  <2>1. PICK n \in {0, 1} : Finish(n, Blank)
    BY <1>1 DEF Gone
  <2>2. local' = None /\ UNCHANGED <<remote, dirty, news, buffer, made>>
    BY <1>1 DEF Gone, users
  <2>3. Reported'
    BY <2>2, StillReported DEF Alert
  <2>4. TextOf(local') \subseteq made /\ TextOf(remote') \subseteq made
    BY <2>2 DEF Alert, Written, TextOf
  <2> QED BY <2>1, <2>2, <2>3, <2>4, BlankTypes, AlertAgreed
<1>2. CASE Pull
  <2>1. /\ At("pull") /\ remote # None /\ op \in Op /\ snapshot \in Snapshot
        /\ op' = [op EXCEPT !.pc = "adopt", !.mine = local, !.theirs = remote,
                            !.prior = snapshot.remoteHash]
        /\ snapshot' = [snapshot EXCEPT !.remoteHash = remote.text]
        /\ UNCHANGED <<local, remote, dirty, news, buffer, made>>
    BY <1>2 DEF Pull, users, Typed, TypeOK
  <2>2. /\ op'.pc = "adopt" /\ op'.mine = local /\ op'.theirs = remote
        /\ op'.prior = snapshot.remoteHash /\ op'.expect = op.expect
    BY <2>1 DEF Op
  <2>3. snapshot'.remoteHash = remote.text /\ snapshot'.baseHash = snapshot.baseHash
    BY <2>1 DEF Snapshot
  <2>4. Written'
    BY <2>1, <2>2, <2>3 DEF Alert, Written, TextOf
  <2>5. Reported'
    BY <2>1 DEF Alert, Reported
  <2>6. MovedSincePull'
    BY <2>1, <2>2 DEF Alert, MovedBeforePull, MovedSincePull, LocalHeld, At
  <2>7. RemoteMoved'
    BY <2>1, <2>2 DEF RemoteMoved
  <2>8. AtRest' /\ Reappeared' /\ MovedBeforePull' /\ MovedSinceMerge'
    BY <2>2 DEF AtRest, Reappeared, MovedBeforePull, MovedSinceMerge, At
  <2> QED BY <2>4, <2>5, <2>6, <2>7, <2>8 DEF Alert
<1>3. CASE Adopt
  <2>1. At("adopt") /\ UNCHANGED <<local, remote, news, buffer, made>>
    BY <1>3 DEF Adopt, users
  <2>2. CASE LocalHeld
    <3>1. op' = [op EXCEPT !.pc = "write"] /\ UNCHANGED <<snapshot, dirty>>
      BY <1>3, <2>2 DEF Adopt, Goto
    <3>2. /\ op'.pc = "write" /\ op'.mine = op.mine /\ op'.theirs = op.theirs
          /\ op'.prior = op.prior
      BY <3>1 DEF Typed, TypeOK, Op
    <3>3. Written' /\ Reported'
      BY <2>1, <3>1, <3>2 DEF Alert, Written, Reported
    <3>4. RemoteMoved'
      BY <2>1, <3>1, <3>2 DEF Alert, RemoteMoved, RemoteMarked, At
    <3>5. /\ AtRest' /\ Reappeared' /\ MovedBeforePull' /\ MovedSincePull'
          /\ MovedSinceMerge'
      BY <3>2 DEF AtRest, Reappeared, MovedBeforePull, MovedSincePull, MovedSinceMerge,
                  At
    <3> QED BY <3>3, <3>4, <3>5 DEF Alert
  <2>3. CASE ~LocalHeld
    <3> DEFINE snap == [snapshot EXCEPT !.remoteHash = op.prior]
    <3>1. Finish(0, snap) /\ dirty' = Marked(AnyOf(None))
      BY <1>3, <2>3 DEF Adopt
    <3>2. /\ snap.remoteHash = op.prior /\ snap.baseHash = snapshot.baseHash
      BY DEF Typed, TypeOK, Snapshot
    <3> HIDE DEF snap
    <3>3. AnyOf(None) # Probed
      BY DEF AnyOf, Probed
    <3>4. Reported' /\ LocalMarked'
      BY <2>1, <3>1, <3>3, PlainMark DEF Alert
    <3>5. snapshot' = snap
      BY <3>1 DEF Finish
    <3>6. local # None => buffer = None /\ local.text # op.prior
      BY <2>1, <2>3 DEF Alert, MovedSincePull
    <3>7. Noticed' /\ NotHidden'
      BY <2>1, <3>2, <3>4, <3>5, <3>6 DEF Noticed, NotHidden, Apart
    <3>8. /\ TextOf(local') \subseteq made /\ TextOf(remote') \subseteq made
          /\ snap.remoteHash # None => snap.remoteHash \subseteq made
          /\ snap.baseHash # None => snap.baseHash \subseteq made
          /\ buffer' # None => buffer'.base \subseteq made
      BY <2>1, <3>2 DEF Alert, Written
    <3> QED BY <2>1, <3>1, <3>4, <3>7, <3>8, AlertAtEnd
  <2> QED BY <2>2, <2>3
<1> QED BY <1>1, <1>2, <1>3

\* What is taken over replaces the local copy, perhaps under an open editor.
LEMMA AlertTakenOver ==
  ASSUME Typed, Alert, op.pc \in {"write", "settle"}, local' = op.theirs, Withhold(op.mine),
         NEW n, NEW snap, Finish(n, snap), UNCHANGED <<remote, dirty, news, made>>,
         snap.baseHash = op.theirs.text,
         snap.remoteHash = op.theirs.text
           \/ (op.pc = "write" /\ snap.remoteHash = snapshot.remoteHash)
  PROVE  Alert'
<1>1. /\ op.theirs # None
      /\ op.theirs.text \subseteq made /\ TextOf(op.mine) \subseteq made
  BY DEF Typed, Shape, Alert, Written, TextOf
<1>2. buffer' = buffer \/ (op.mine # None /\ buffer'.base = TextOf(op.mine))
  BY DEF Withhold, TextOf
<1>3. buffer' # None => buffer'.base \subseteq made
  BY <1>1, <1>2 DEF Alert, Written
<1>4. snapshot' = snap
  BY DEF Finish
<1>5. Apart' => /\ RemoteMarked /\ RemoteMarked'
                /\ remote.text # TextOf(op.mine)
                /\ buffer # None => remote.text # buffer.base
                /\ remote'.text # snapshot'.remoteHash
  BY <1>1, <1>4 DEF Apart, Alert, RemoteMoved, RemoteMarked
<1>6. Noticed' /\ NotHidden'
  BY <1>2, <1>5 DEF Noticed, NotHidden
<1>7. Reported'
  BY StillReported DEF Alert
<1>8. /\ TextOf(local') \subseteq made /\ TextOf(remote') \subseteq made
      /\ snap.remoteHash # None => snap.remoteHash \subseteq made
      /\ snap.baseHash # None => snap.baseHash \subseteq made
  BY <1>1 DEF TextOf, Alert, Written
<1> QED BY <1>3, <1>6, <1>7, <1>8, AlertAtEnd

\* The writes that end a pull and a merge.
LEMMA AlertWrites ==
  ASSUME Typed, Alert PROVE Write \/ Settle => Alert'
<1>1. CASE Write
  <2> DEFINE snap == [snapshot EXCEPT
                  !.files = [local  |-> op.theirs.time,
                             remote |-> op.theirs.time],
                  !.baseHash = op.theirs.text]
  <2>1. snap.baseHash = op.theirs.text /\ snap.remoteHash = snapshot.remoteHash
    BY DEF Typed, TypeOK, Snapshot
  <2>2. /\ At("write") /\ local' = op.theirs /\ Withhold(op.mine) /\ Finish(1, snap)
        /\ UNCHANGED <<remote, dirty, news, made>>
    BY <1>1 DEF Write, users
  <2> HIDE DEF snap
  <2> QED BY <2>1, <2>2, AlertTakenOver DEF At
<1>2. CASE Settle
  <2> DEFINE snap == Synced(op.theirs.time, op.theirs.time, op.theirs.text)
  <2>1. snap.baseHash = op.theirs.text /\ snap.remoteHash = op.theirs.text
    BY DEF Synced
  <2>2. /\ At("settle") /\ local' = op.theirs /\ Withhold(op.mine) /\ Finish(1, snap)
        /\ UNCHANGED <<remote, dirty, news, made>>
    BY <1>2 DEF Settle, users
  <2> HIDE DEF snap
  <2> QED BY <2>1, <2>2, AlertTakenOver DEF At
<1> QED BY <1>1, <1>2

\* The merge on the server, and its answer.
LEMMA AlertMerge ==
  ASSUME Typed, Typed', Alert PROVE Merge \/ MergeRefused \/ Apply => Alert'
<1>1. CASE Merge
  <2>1. /\ local # None /\ snapshot.baseHash # None
        /\ Reconcile(snapshot.baseHash, local.text)
        /\ UNCHANGED <<local, snapshot, dirty, buffer, made>>
    BY <1>1 DEF Merge, users
  <2>2. snapshot.baseHash \in Text /\ local.text \in Text /\ local \in File
    BY <2>1 DEF Typed, TypeOK, Snapshot, File
  <2>3. /\ remote' \in File /\ remote' # None
        /\ op' = [op EXCEPT !.pc = "apply", !.mine = local,
                            !.theirs = remote', !.prior = snapshot.baseHash]
    BY <2>1, <2>2, ReconcileTypes
  <2>4. /\ op'.pc = "apply" /\ op'.mine = local /\ op'.theirs = remote'
        /\ op'.prior = snapshot.baseHash
    BY <2>3 DEF Typed, TypeOK, Op
  <2>5. TextOf(remote') \subseteq made /\ (news' = TRUE \/ UNCHANGED <<remote, news>>)
    <3>1. /\ local.text \subseteq made /\ TextOf(remote) \subseteq made
          /\ snapshot.baseHash \subseteq made
      BY <2>1 DEF Alert, Written, TextOf
    <3>2. CASE UNCHANGED <<remote, news>>
      BY <3>1, <3>2 DEF TextOf
    <3>3. CASE ~ UNCHANGED <<remote, news>>
      <4>1. PICK t \in Time : Put(IF remote = None THEN local.text
                       ELSE Merge3(snapshot.baseHash, local.text, remote.text), t)
        BY <2>1, <3>3 DEF Reconcile
      <4>2. news' = TRUE /\ remote'.text = IF remote = None THEN local.text
                       ELSE Merge3(snapshot.baseHash, local.text, remote.text)
        BY <4>1 DEF Put
      <4>3. remote # None =>
              Merge3(snapshot.baseHash, local.text, remote.text) \subseteq made
        BY <3>1 DEF Merge3, TextOf
      <4> QED BY <3>1, <4>2, <4>3 DEF TextOf
    <3> QED BY <3>2, <3>3
  <2>6. Written'
    BY <2>1, <2>4, <2>5 DEF Alert, Written
  <2>7. Reported'
    BY <2>1, <2>5, StillReported DEF Alert
  <2>8. MovedSinceMerge' /\ RemoteMoved'
    BY <2>1, <2>4 DEF MovedSinceMerge, RemoteMoved
  <2>9. AtRest' /\ Reappeared' /\ MovedBeforePull' /\ MovedSincePull'
    BY <2>4 DEF AtRest, Reappeared, MovedBeforePull, MovedSincePull, At
  <2> QED BY <2>6, <2>7, <2>8, <2>9 DEF Alert
<1>2. CASE MergeRefused
  BY <1>2, AlertPassing DEF MergeRefused, users
<1>3. CASE Apply
  <2>1. At("apply") /\ UNCHANGED <<local, remote, news, buffer, made>>
    BY <1>3 DEF Apply, users
  <2>2. CASE local # None /\ local.text = op.mine.text
    <3>1. op' = [op EXCEPT !.pc = "settle"] /\ UNCHANGED <<snapshot, dirty>>
      BY <1>3, <2>2 DEF Apply, Goto, TextOf
    <3>2. /\ op'.pc = "settle" /\ op'.mine = op.mine /\ op'.theirs = op.theirs
          /\ op'.prior = op.prior
      BY <3>1 DEF Typed, TypeOK, Op
    <3>3. Written' /\ Reported'
      BY <2>1, <3>1, <3>2 DEF Alert, Written, Reported
    <3>4. RemoteMoved'
      BY <2>1, <3>1, <3>2 DEF Alert, RemoteMoved, RemoteMarked, At
    <3>5. /\ AtRest' /\ Reappeared' /\ MovedBeforePull' /\ MovedSincePull'
          /\ MovedSinceMerge'
      BY <3>2 DEF AtRest, Reappeared, MovedBeforePull, MovedSincePull, MovedSinceMerge,
                  At
    <3> QED BY <3>3, <3>4, <3>5 DEF Alert
  <2>3. CASE ~(local # None /\ local.text = op.mine.text)
    <3> DEFINE snap == [snapshot EXCEPT !.baseHash = op.mine.text]
    <3>1. Finish(1, snap) /\ dirty' = Marked(AnyOf(None))
      BY <1>3, <2>3 DEF Apply
    <3>2. snap.remoteHash = snapshot.remoteHash /\ snap.baseHash = op.mine.text
      BY DEF Typed, TypeOK, Snapshot
    <3> HIDE DEF snap
    <3>3. AnyOf(None) # Probed
      BY DEF AnyOf, Probed
    <3>4. Reported' /\ LocalMarked'
      BY <2>1, <3>1, <3>3, PlainMark DEF Alert
    <3>5. snapshot' = snap
      BY <3>1 DEF Finish
    <3>6. local # None => buffer = None /\ local.text # snapshot.remoteHash
      BY <2>1, <2>3 DEF Alert, MovedSinceMerge
    <3>7. Noticed' /\ NotHidden'
      BY <2>1, <3>2, <3>4, <3>5, <3>6 DEF Noticed, NotHidden, Apart
    <3>8. op.mine.text \subseteq made
      BY <2>1 DEF At, Typed, Shape, Alert, Written, TextOf
    <3>9. /\ TextOf(local') \subseteq made /\ TextOf(remote') \subseteq made
          /\ snap.remoteHash # None => snap.remoteHash \subseteq made
          /\ snap.baseHash # None => snap.baseHash \subseteq made
          /\ buffer' # None => buffer'.base \subseteq made
      BY <2>1, <3>2, <3>8 DEF Alert, Written
    <3> QED BY <2>1, <3>1, <3>4, <3>7, <3>9, AlertAtEnd
  <2> QED BY <2>2, <2>3
<1> QED BY <1>1, <1>2, <1>3

\* The resolver leaves equal copies, or no entry.
LEMMA AlertResolver ==
  ASSUME Typed, Typed', Alert PROVE Resolve \/ Overwrite(TRUE) \/ Rebase => Alert'
<1>1. CASE Resolve
  <2>1. /\ local # None /\ remote # None
        /\ local.text \subseteq made /\ remote.text \subseteq made
        /\ snapshot'.remoteHash = remote.text
        /\ snapshot'.baseHash = snapshot.baseHash
        /\ UNCHANGED <<local, remote, dirty, news, buffer, made>>
    <3>1. \/ snapshot' = [snapshot EXCEPT
               !.files = [local |-> local.time, remote |-> remote.time],
               !.remoteHash = remote.text]
          \/ snapshot' = [snapshot EXCEPT !.remoteHash = remote.text]
      BY <1>1 DEF Resolve
    <3>2. snapshot'.remoteHash = remote.text /\ snapshot'.baseHash = snapshot.baseHash
      BY <3>1 DEF Typed, TypeOK, Snapshot
    <3> QED BY <1>1, <3>2 DEF Resolve, users, Alert, Written, TextOf
  <2>2. /\ \/ op'.pc = "rebase" /\ local.text = remote.text
           \/ op'.pc = "overwrite"
        /\ op'.mine = local /\ op'.theirs \in {op.theirs, remote} /\ op'.prior = op.prior
    BY <1>1 DEF Resolve, Typed, TypeOK, Op
  <2>3. Written'
    BY <2>1, <2>2 DEF Alert, Written, TextOf
  <2>4. Reported'
    BY <2>1 DEF Alert, Reported
  <2>5. AtRest'
    BY <2>1, <2>2 DEF AtRest, Noticed, NotHidden, Apart
  <2>6. /\ Reappeared' /\ MovedBeforePull' /\ MovedSincePull' /\ MovedSinceMerge'
        /\ RemoteMoved'
    BY <2>2 DEF Reappeared, MovedBeforePull, MovedSincePull, MovedSinceMerge,
                RemoteMoved, At
  <2> QED BY <2>3, <2>4, <2>5, <2>6 DEF Alert
<1>2. CASE Overwrite(TRUE)
  <2>1. /\ At("overwrite") /\ op.mine \in File /\ op.theirs \in File
        /\ UNCHANGED <<local, dirty, buffer, made>>
    BY <1>2 DEF Overwrite, users, Typed, TypeOK, Shape, At, Op
  <2>2. CASE ~(/\ local # None /\ local.text = op.mine.text
               /\ remote # None /\ remote.text = op.theirs.text)
    <3>1. PICK n \in {0, 1}, snap \in {[snapshot EXCEPT !.files = None], Forgotten} :
            Finish(n, snap) /\ UNCHANGED <<remote, news>>
      BY <1>2, <2>2 DEF Overwrite
    <3>2. /\ snap.files = None /\ snap.baseHash = snapshot.baseHash
          /\ snap.remoteHash \in {None, snapshot.remoteHash}
      BY DEF Typed, TypeOK, Snapshot, Forgotten
    <3>3. Reported'
      BY <2>1, <3>1, StillReported DEF Alert
    <3>4. /\ TextOf(local') \subseteq made /\ TextOf(remote') \subseteq made
          /\ snap.remoteHash # None => snap.remoteHash \subseteq made
          /\ snap.baseHash # None => snap.baseHash \subseteq made
      BY <2>1, <3>1, <3>2 DEF Alert, Written
    <3> QED BY <2>1, <3>1, <3>2, <3>3, <3>4, AlertAgreed
  <2>3. CASE /\ local # None /\ local.text = op.mine.text
             /\ remote # None /\ remote.text = op.theirs.text
    <3>1. PICK t \in Time :
            /\ Put(op.mine.text, t)
            /\ snapshot' = [snapshot EXCEPT
                 !.files = [local |-> op.mine.time, remote |-> t],
                 !.remoteHash = op.mine.text]
            /\ Goto("rebase")
      BY <1>2, <2>3 DEF Overwrite, TextOf
    <3>2. remote' # None /\ remote'.text = op.mine.text /\ news' = TRUE
      BY <2>1, <3>1, PutTypes DEF File
    <3>3. snapshot'.remoteHash = op.mine.text /\ snapshot'.baseHash = snapshot.baseHash
      BY <3>1 DEF Typed, TypeOK, Snapshot
    <3>4. /\ op'.pc = "rebase" /\ op'.mine = op.mine /\ op'.theirs = op.theirs
          /\ op'.prior = op.prior
      BY <3>1 DEF Goto, Typed, TypeOK, Op
    <3>5. op.mine.text \subseteq made
      BY <2>3 DEF Alert, Written, TextOf
    <3>6. Written'
      BY <2>1, <3>2, <3>3, <3>4, <3>5 DEF Alert, Written, TextOf
    <3>7. Reported'
      BY <2>1, <3>2, StillReported DEF Alert
    <3>8. AtRest'
      BY <2>1, <2>3, <3>2 DEF AtRest, Noticed, NotHidden, Apart
    <3>9. /\ Reappeared' /\ MovedBeforePull' /\ MovedSincePull' /\ MovedSinceMerge'
          /\ RemoteMoved'
      BY <3>4 DEF Reappeared, MovedBeforePull, MovedSincePull, MovedSinceMerge,
                  RemoteMoved, At
    <3> QED BY <3>6, <3>7, <3>8, <3>9 DEF Alert
  <2> QED BY <2>2, <2>3
<1>3. CASE Rebase
  <2>1. /\ At("rebase") /\ UNCHANGED <<local, remote, dirty, news, buffer, made>>
    BY <1>3 DEF Rebase, users
  <2>2. PICK n \in {0, 1}, snap \in {snapshot, [snapshot EXCEPT !.baseHash = local.text]} :
          Finish(n, snap) /\ (snap = snapshot \/ local # None)
    BY <1>3 DEF Rebase
  <2>3. /\ snap.files = snapshot.files /\ snap.remoteHash = snapshot.remoteHash
        /\ snap.baseHash = snapshot.baseHash \/ (local # None /\ snap.baseHash = local.text)
    BY <2>2 DEF Typed, TypeOK, Snapshot
  <2>4. snapshot' = snap
    BY <2>2 DEF Finish
  <2>5. Noticed' /\ NotHidden'
    BY <2>1, <2>3, <2>4
       DEF Alert, AtRest, Noticed, NotHidden, Apart, RemoteMarked, LocalMarked, At
  <2>6. Reported'
    BY <2>1, StillReported DEF Alert
  <2>7. /\ TextOf(local') \subseteq made /\ TextOf(remote') \subseteq made
        /\ snap.remoteHash # None => snap.remoteHash \subseteq made
        /\ snap.baseHash # None => snap.baseHash \subseteq made
        /\ buffer' # None => buffer'.base \subseteq made
    BY <2>1, <2>3 DEF Alert, Written, TextOf
  <2> QED BY <2>1, <2>2, <2>5, <2>6, <2>7, AlertAtEnd
<1> QED BY <1>1, <1>2, <1>3

\* An operation that ends with an error has one copy missing.
LEMMA AlertNotFound ==
  ASSUME Typed, Alert PROVE NotFound => Alert'
<1> SUFFICES ASSUME NotFound PROVE Alert'
  OBVIOUS
<1>1. /\ Finish(0, snapshot)
      /\ local' = None \/ remote' = None
      /\ UNCHANGED <<local, remote, dirty, news, buffer, made>>
  BY DEF NotFound, Missing, users
<1>2. Reported'
  BY <1>1, StillReported DEF Alert
<1>3. /\ TextOf(local') \subseteq made /\ TextOf(remote') \subseteq made
      /\ snapshot.remoteHash # None => snapshot.remoteHash \subseteq made
      /\ snapshot.baseHash # None => snapshot.baseHash \subseteq made
  BY <1>1 DEF Alert, Written
<1> QED BY <1>1, <1>2, <1>3, AlertAgreed

\* What has had no trouble so far takes no step of trouble.
LEMMA NoTrouble ==
  ASSUME Typed, [Next]_vars, used'.troubles = 0
  PROVE  /\ used.troubles = 0
         /\ \/ \E e \in Edits : Save(e) \/ RemoteSave(e) \/ DivergentWrite(e)
            \/ Delete \/ RemoteDelete \/ Deliver \/ Probe \/ Declare
            \/ Scan \/ Take
            \/ Create(TRUE) \/ Recreate(TRUE) \/ Push(TRUE) \/ Erase(TRUE)
            \/ Gone \/ Pull \/ Adopt \/ Write \/ Settle
            \/ Merge \/ MergeRefused \/ Apply
            \/ Resolve \/ Overwrite(TRUE) \/ Rebase \/ NotFound
            \/ UNCHANGED vars
<1>1. used \in Used /\ used.troubles \in Nat
  BY DEF Typed, TypeOK, Used
<1>2. ~Trouble
  BY <1>1 DEF Trouble, Used
<1>3. ~Request(FALSE)
  BY <1>2 DEF Request, Create, Recreate, Push, Erase, Overwrite, Answered
<1>4. ~MergeUnheard /\ ~RequestFails /\ ~Crash
  BY <1>2 DEF MergeUnheard, RequestFails, Crash
<1>5. CASE \E e \in Edits : Save(e) \/ RemoteSave(e) \/ DivergentWrite(e)
  BY <1>5 DEF Save, RemoteSave, DivergentWrite
<1>6. CASE Delete \/ RemoteDelete \/ Deliver \/ Probe \/ Declare
  BY <1>1, <1>6 DEF Delete, RemoteDelete, Deliver, Probe, Declare, Used
<1>7. CASE Scan \/ Take
  BY <1>7 DEF Scan, Take
<1>8. CASE Create(TRUE) \/ Recreate(TRUE) \/ Push(TRUE) \/ Erase(TRUE)
  BY <1>8 DEF Create, Recreate, Push, Erase, Answered
<1>9. CASE Gone \/ Pull \/ Adopt
  BY <1>9 DEF Gone, Pull, Adopt
<1>10. CASE Write \/ Settle
  BY <1>1, <1>10 DEF Write, Settle, Withhold, Used
<1>11. CASE Merge \/ MergeRefused \/ Apply
  BY <1>11 DEF Merge, MergeRefused, Apply
<1>12. CASE Resolve \/ Overwrite(TRUE) \/ Rebase \/ NotFound
  BY <1>12 DEF Resolve, Overwrite, Rebase, NotFound
<1>13. CASE UNCHANGED vars
  BY <1>13 DEF vars
<1> QED BY <1>3, <1>4, <1>5, <1>6, <1>7, <1>8, <1>9, <1>10, <1>11, <1>12, <1>13
        DEF Next, Engine, Request

\* It is claimed as long as nothing has failed.
AlertInv == used.troubles = 0 => Alert

\* Every step keeps it, and it holds at the start.
LEMMA AlertStep ==
  ASSUME Typed, Typed', AlertInv, [Next]_vars PROVE AlertInv'
<1> SUFFICES ASSUME used'.troubles = 0 PROVE Alert'
  BY DEF AlertInv
<1>1. Alert
  BY NoTrouble DEF AlertInv
<1>2. UNCHANGED vars => Alert'
  <2> SUFFICES ASSUME UNCHANGED vars PROVE Alert'
    OBVIOUS
  <2>1. Reported'
    BY <1>1, StillReported DEF vars, Alert
  <2> QED BY <1>1, <2>1, OnlyWatching DEF vars, RemoteMarked, LocalMarked
<1> QED BY <1>1, <1>2, NoTrouble, AlertUsers, AlertLoop, AlertRequests, AlertPull,
        AlertWrites, AlertMerge, AlertResolver, AlertNotFound

LEMMA AlertInit == Init => AlertInv
<1> SUFFICES ASSUME Init PROVE Alert
  BY DEF AlertInv
<1>1. op.pc = "idle" /\ op.mine = None /\ op.theirs = None /\ op.prior = None
  BY DEF Init, Idle
<1>2. /\ TextOf(local) = {} /\ TextOf(remote) = {}
      /\ snapshot.remoteHash \in {None, {}} /\ snapshot.baseHash \in {None, {}}
  BY DEF Init, TextOf, Blank
<1>3. ~Apart
  BY DEF Init, Apart
<1>4. Written /\ Reported
  BY <1>1, <1>2 DEF Init, Written, Reported, TextOf
<1>5. AtRest
  BY <1>3 DEF AtRest, Noticed, NotHidden
<1>6. /\ Reappeared /\ MovedBeforePull /\ MovedSincePull /\ MovedSinceMerge
      /\ RemoteMoved
  BY <1>1 DEF Reappeared, MovedBeforePull, MovedSincePull, MovedSinceMerge,
              RemoteMoved, At
<1> QED BY <1>4, <1>5, <1>6 DEF Alert

-----------------------------------------------------------------------------
(* The theorems                                                            *)

LEMMA StartOfAll == Init => Typed /\ Safe
<1> SUFFICES ASSUME Init PROVE Typed /\ Safe
  OBVIOUS
<1>1. {} \in Text /\ 0 \in Time
  BY BoundsAssumption DEF Text, Time
<1>2. TypeOK
  <2>1. local \in {None} \cup File /\ remote \in {None} \cup File
    BY <1>1 DEF Init, File
  <2>2. snapshot \in Snapshot /\ stored \in Snapshot
    BY <1>1, BlankTypes DEF Init, Snapshot
  <2>3. used \in Used /\ gap \in Gap
    BY <1>1, BoundsAssumption DEF Init, Used, Gap
  <2> QED BY <1>1, <2>1, <2>2, <2>3, IdleTypes DEF Init, TypeOK
<1>3. Shape
  BY IdleTypes DEF Init, Shape
<1>4. RevisionKnown
  BY <1>1, NoneAssumption, BlankTypes DEF Init, RevisionKnown
<1>5. Entries
  BY BlankTypes DEF Init, Entries, Good
<1>6. Operation
  BY IdleTypes DEF Init, Operation, Erasing, Going, Pulling, Writing, Merging,
                   Settling, Overwriting, Rebasing, At
<1>7. made \subseteq Hand \cup Server /\ Withheld
  BY DEF Init, Withheld
<1> QED BY <1>2, <1>3, <1>4, <1>5, <1>6, <1>7 DEF Typed, Safe

LEMMA SafeStep ==
  ASSUME Typed, Safe, [Next]_vars
  PROVE  Safe'
<1>1. Typed'
  BY TypedStep
<1>2. CASE \E e \in Edits : Save(e) \/ RemoteSave(e) \/ DivergentWrite(e)
  BY <1>1, <1>2, UserSteps, EditorSteps
<1>3. CASE Delete \/ RemoteDelete \/ Deliver \/ Probe \/ UNCHANGED vars
  BY <1>1, <1>3, UserSteps
<1>4. CASE Declare
  BY <1>1, <1>4, EditorSteps
<1>5. CASE Scan \/ Take
  BY <1>1, <1>5, LoopSteps
<1>6. CASE Request(TRUE) \/ Request(FALSE)
  BY <1>1, <1>6, RequestSteps, ResolverSteps DEF Request
<1>7. CASE Gone \/ Write \/ Settle
  BY <1>1, <1>7, LocalSteps
<1>8. CASE Pull \/ Adopt
  BY <1>1, <1>8, PullSteps
<1>9. CASE Merge \/ MergeRefused \/ MergeUnheard
  BY <1>1, <1>9, MergeSteps
<1>10. CASE Apply
  BY <1>1, <1>10, ApplyStep
<1>11. CASE Resolve \/ Rebase
  BY <1>1, <1>11, ResolverSteps
<1>12. CASE NotFound \/ RequestFails \/ Crash
  BY <1>1, <1>12, FailureSteps
<1> QED BY <1>2, <1>3, <1>4, <1>5, <1>6, <1>7, <1>8, <1>9, <1>10, <1>11, <1>12
        DEF Next, Engine

\* The stored and the current entry, the mark, the operation and the buffer
\* keep their shape through every interleaving.
THEOREM SpaceSyncTypes == Spec => []TypeOK
<1>1. Init => Typed
  BY StartOfAll
<1>2. Typed /\ [Next]_vars => Typed'
  BY TypedStep
<1>3. Typed => TypeOK
  BY DEF Typed
<1> QED BY <1>1, <1>2, <1>3, PTL DEF Spec

\* A path with an entry always has a recorded revision, in memory and on disk,
\* so that no push and no delete goes out without its precondition.
THEOREM RevisionAlwaysKnown == Spec => []RevisionKnown
<1>1. Init => Typed
  BY StartOfAll
<1>2. Typed /\ [Next]_vars => Typed'
  BY TypedStep
<1>3. Typed => RevisionKnown
  BY DEF Typed
<1> QED BY <1>1, <1>2, <1>3, PTL DEF Spec

\* Whatever users, the network and the service worker do, an edit is in one of
\* the two copies, in a safety copy, was deleted by a user, or fell into one of
\* the four windows the model names.
THEOREM EditsAreKept == Spec => []NoEditLost
<1>1. Init => Typed /\ Safe
  BY StartOfAll
<1>2. Typed /\ Safe /\ [Next]_vars => (Typed /\ Safe)'
  BY TypedStep, SafeStep
<1>3. Safe => NoEditLost
  BY DEF Safe, NoEditLost, Lost, Kept, Hand, Server, Out
<1> QED BY <1>1, <1>2, <1>3, PTL DEF Spec

\* As long as no request fails and no answer or event is lost, a path with no mark, no
\* event on its way and nothing for a scan to do has equal copies: no mark is ever
\* dropped that still had something to tell, however the saves, the withheld updates
\* and the engine's own writes fall between its awaits.
THEOREM QuietIsSynced == Spec => []QuietMeansSynced
<1>1. Init => Typed /\ AlertInv
  BY StartOfAll, AlertInit
<1>2. Typed /\ AlertInv /\ [Next]_vars => (Typed /\ AlertInv)'
  BY TypedStep, AlertStep
<1>3. Typed /\ AlertInv => QuietMeansSynced
  <2> SUFFICES ASSUME Typed, AlertInv, At("idle"), dirty = None, ~news,
                      used.troubles = 0, Route(Unknown) = "none"
               PROVE  TextOf(local) = TextOf(remote)
    BY DEF QuietMeansSynced
  <2>1. ~Apart
    BY DEF AlertInv, Alert, AtRest, Noticed, RemoteMarked, LocalMarked, At
  <2>2. \/ local = None /\ remote = None
        \/ local # None /\ remote # None /\ snapshot.files # None
    BY DEF Route, BothThere
  <2> QED BY <2>1, <2>2 DEF Apart, TextOf
<1> QED BY <1>1, <1>2, <1>3, PTL DEF Spec
=============================================================================
