--------------------------- MODULE PlugSyncProofs ---------------------------
(***************************************************************************)
(* Proofs about PlugSync for any number of devices, paths, runs, edits and *)
(* faults: types; that a file the state calls unchanged has the content of *)
(* the recorded rev (BaseAgreement); that every call fits its branch       *)
(* (PlansFit); that no edit is lost while nobody touches what a run works  *)
(* on (NoEditLost, by way of QuietInv); and that the cloud forgets no edit *)
(* when every upload has a rev of its own (RemoteKeepsEdits, by way of     *)
(* RaceInv).                                                               *)
(***************************************************************************)
EXTENDS PlugSync, TLAPS

-----------------------------------------------------------------------------
(* What the helpers of a run return *)

\* An idle invocation is a well-formed one.
LEMMA IdleType == Idle \in Invocations
<1>1. (CHOOSE p \in Paths : TRUE) \in Paths
  BY ConstAssumption
<1> QED
  BY <1>1 DEF Idle, Invocations, NoState, NoEntry, NoVersion, Entries, Versions,
              Contents, Plans, Calls

\* Leaving a path, with or without an exception, keeps the invocation well formed.
LEMMA SkippedType ==
  ASSUME NEW i \in Invocations PROVE Skipped(i) \in Invocations
BY DEF Skipped, Invocations, NoVersion, Versions, Contents

LEMMA FinishedType ==
  ASSUME NEW i \in Invocations, NEW e \in Entries
  PROVE  Finished(i, e) \in Invocations
BY DEF Finished, Invocations, NoVersion, Versions, Contents, Calls

LEMMA AfterListingType ==
  ASSUME NEW i \in Invocations, NEW side \in {"local", "remote"}
  PROVE  AfterListing(i, side) \in Invocations
BY DEF AfterListing, Invocations

\* Moving on to another call keeps it well formed.
LEMMA PcType ==
  ASSUME NEW i \in Invocations, NEW pc \in {"idle", "list", "loop"} \cup Calls
  PROVE  [i EXCEPT !.pc = pc] \in Invocations
BY DEF Invocations

\* One run changes, the others keep what they hold.
LEMMA BecomesType ==
  ASSUME run \in [Runs -> Invocations], NEW r \in Runs, NEW i \in Invocations,
         Becomes(r, i)
  PROVE  run' \in [Runs -> Invocations]
BY DEF Becomes

\* Listings report versions and write counts.
LEMMA ListingType ==
  ASSUME TypeOK
  PROVE  /\ \A d \in Devices, p \in Paths : Mtime(d, p) \in Nat
         /\ \A p \in Paths : Rev(p) \in Versions
BY DEF TypeOK, Mtime, Rev, Files, Versions, NoVersion, Contents

LEMMA PlanType ==
  ASSUME NEW l \in Nat, NEW v, NEW prior
  PROVE  /\ Plan(l, v, prior) \in Plans
         /\ FirstCall(Plan(l, v, prior)) \in {"loop"} \cup Calls
BY DEF Plan, OnlyLocal, OnlyRemote, Both, Plans, FirstCall, Calls

LEMMA WriteFileType ==
  ASSUME TypeOK, NEW d \in Devices, NEW p \in Paths, NEW c \in Contents,
         WriteFile(d, p, c) \/ DeleteFile(d, p)
  PROVE  local' \in [Devices -> [Paths -> Files]]
<1>1. local \in [Devices -> [Paths -> Files]] /\ local[d][p] \in Files
  BY DEF TypeOK
<1>2. [tick |-> local[d][p].tick + 1, content |-> c] \in Files
  BY <1>1 DEF Files
<1>3. [local[d][p] EXCEPT !.content = {}] \in Files
  BY <1>1 DEF Files, Contents
<1>4. CASE WriteFile(d, p, c)
  BY <1>1, <1>2, <1>4 DEF WriteFile
<1>5. CASE DeleteFile(d, p)
  BY <1>1, <1>3, <1>5 DEF DeleteFile
<1> QED
  BY <1>4, <1>5

LEMMA PutType ==
  ASSUME TypeOK, NEW p \in Paths, NEW c \in Contents, Put(p, c) \/ DropRemote(p)
  PROVE  remote' \in [Paths -> Versions]
<1>1. remote \in [Paths -> Versions] /\ remote[p] \in Versions
  BY DEF TypeOK
<1>2. [stamp |-> IF FreshRevs THEN remote[p].stamp + 1 ELSE 0, content |-> c] \in Versions
  BY <1>1 DEF Versions
<1>3. [remote[p] EXCEPT !.content = {}] \in Versions
  BY <1>1 DEF Versions, Contents
<1>4. CASE Put(p, c)
  BY <1>1, <1>2, <1>4 DEF Put
<1>5. CASE DropRemote(p)
  BY <1>1, <1>3, <1>5 DEF DropRemote
<1> QED
  BY <1>4, <1>5

-----------------------------------------------------------------------------
(* Type correctness *)

LEMMA TypeInit == Init => TypeOK
<1> SUFFICES ASSUME Init PROVE TypeOK
  OBVIOUS
<1>1. run \in [Runs -> Invocations]
  BY IdleType DEF Init
<1> QED
  BY <1>1, ConstAssumption
  DEF Init, TypeOK, Files, Versions, Entries, Contents, NoVersion, NoEntry, NoState

\* What a step of a run r leaves alone, or writes, is of its type.
LEMMA TypeSyncStep ==
  ASSUME TypeOK, NEW r \in Runs, SyncStep(r) PROVE TypeOK'
<1> DEFINE d == Owner[r]  i == run[r]
<1>1. d \in Devices /\ i \in Invocations /\ i.path \in Paths /\ i.dl \in Versions
      /\ i.dl.content \in Contents /\ i.data \in Contents /\ i.listL \in [Paths -> Nat]
      /\ i.next \in [Paths -> Entries] /\ i.listR \in [Paths -> Versions]
      /\ i.listL[i.path] \in Nat /\ i.since \in Nat
  BY ConstAssumption DEF TypeOK, Invocations, Versions
<1>2. \A j \in Invocations : Becomes(r, j) => run' \in [Runs -> Invocations]
  BY BecomesType DEF TypeOK
<1>3. \A m \in Nat, v \in Versions : [mtime |-> m, rev |-> v] \in Entries
  BY DEF Entries
<1>4. NoEntry \in Entries /\ NoState \in [Paths -> Entries]
  BY DEF Entries, NoEntry, NoState, NoVersion, Versions, Contents
<1>5. Mtime(d, i.path) \in Nat /\ Rev(i.path) \in Versions
  BY <1>1, ListingType
<1>6. CASE Start(r)
  <2>1. [Idle EXCEPT !.pc = "list", !.listing = {"local", "remote"},
                     !.next = stored[d]] \in Invocations
    BY <1>1, IdleType DEF TypeOK, Invocations
  <2> QED
    BY <1>2, <1>6, <2>1 DEF Start, Begin, TypeOK, users
<1>7. CASE ListLocal(r)
  <2>1. [AfterListing(i, "local") EXCEPT !.listL = [p \in Paths |-> Mtime(d, p)]]
          \in Invocations
    BY <1>1, AfterListingType, ListingType DEF Invocations
  <2> QED
    BY <1>2, <1>7, <2>1 DEF ListLocal, Listed, TypeOK, users
<1>8. CASE ListRemote(r)
  <2>1. [AfterListing(i, "remote") EXCEPT !.listR = [p \in Paths |-> Rev(p)]]
          \in Invocations
    BY <1>1, AfterListingType, ListingType DEF Invocations
  <2> QED
    BY <1>2, <1>8, <2>1 DEF ListRemote, Listed, TypeOK, users
<1>9. CASE \E p \in Paths : Take(r, p)
  <2> PICK p \in Paths : Take(r, p)
    BY <1>9
  <2> DEFINE plan == Plan(i.listL[p], i.listR[p], i.next[p])
             j == [i EXCEPT !.done = @ \cup {p}, !.path = p, !.plan = plan,
                            !.pc = FirstCall(plan),
                            !.next[p] = IF plan = "forget" THEN NoEntry ELSE @]
  <2>1. plan \in Plans /\ FirstCall(plan) \in {"loop"} \cup Calls
    BY <1>1, PlanType
  <2> HIDE DEF plan
  <2>2. j \in Invocations
    BY <1>1, <1>4, <2>1 DEF Invocations
  <2>3. Becomes(r, j) /\ UNCHANGED <<local, remote, stored, copies, users, faults>>
    BY DEF Take, plan
  <2> QED
    BY <1>2, <2>2, <2>3 DEF TypeOK, users
<1>10. CASE Download(r)
  <2> DEFINE v == Rev(i.path)
             pc == CASE i.plan = "fetch"   -> "writeLocal"
                     [] i.plan = "compare" -> "read"
                     [] OTHER              -> "copy"
             j == [i EXCEPT !.dl = v, !.pc = pc]
  <2>1. pc \in Calls
    BY DEF Calls
  <2> HIDE DEF pc
  <2>2. j \in Invocations
    BY <1>1, <1>5, <2>1 DEF Invocations
  <2>3. Becomes(r, IF v = NoVersion THEN Skipped(i) ELSE j)
        /\ UNCHANGED <<local, remote, stored, copies, users, faults>>
    BY <1>10 DEF Download, pc
  <2> QED
    BY <1>1, <1>2, <2>2, <2>3, SkippedType DEF TypeOK, users
<1>11. CASE WriteLocal(r)
  <2>1. local[d][i.path].tick + 1 \in Nat
    BY <1>1 DEF TypeOK, Files
  <2>2. Finished(i, [mtime |-> local[d][i.path].tick + 1, rev |-> i.dl]) \in Invocations
    BY <1>1, <1>3, <2>1, FinishedType
  <2>3. local' \in [Devices -> [Paths -> Files]]
    BY <1>1, <1>11, WriteFileType DEF WriteLocal
  <2> QED
    BY <1>2, <1>11, <2>2, <2>3 DEF WriteLocal, TypeOK, users
<1>12. CASE Read(r)
  <2> DEFINE c == local[d][i.path].content
  <2>1. c \in Contents
    BY <1>1 DEF TypeOK, Files
  <2>2. Finished(i, [mtime |-> i.listL[i.path], rev |-> i.dl]) \in Invocations
    BY <1>1, <1>3, FinishedType
  <2>3. [i EXCEPT !.plan = "conflict", !.pc = "copy"] \in Invocations
    BY <1>1 DEF Invocations, Plans, Calls
  <2>4. [i EXCEPT !.data = c, !.pc = "upload"] \in Invocations
    BY <1>1, <2>1 DEF Invocations, Calls
  <2>5. run' \in [Runs -> Invocations]
    BY <1>1, <1>2, <1>12, <2>2, <2>3, <2>4, SkippedType DEF Read, Recorded
  <2> QED
    BY <1>12, <2>5 DEF Read, Recorded, TypeOK, users
<1>13. CASE Copy(r)
  <2>1. [i EXCEPT !.pc = "read"] \in Invocations
    BY <1>1, PcType DEF Calls
  <2>2. copies' \in SUBSET [path : Paths, content : Contents]
    BY <1>1, <1>13 DEF Copy, TypeOK, Contents
  <2> QED
    BY <1>2, <1>13, <2>1, <2>2 DEF Copy, Goto, TypeOK, users
<1>14. CASE Upload(r)
  <2>1. remote' \in [Paths -> Versions]
    BY <1>1, <1>14, PutType DEF Upload, Recorded, TypeOK
  <2>2. Finished(i, [mtime |-> i.listL[i.path], rev |-> remote'[i.path]]) \in Invocations
    BY <1>1, <1>3, <2>1, FinishedType
  <2>3. [i EXCEPT !.pc = "head"] \in Invocations
    BY <1>1, PcType DEF Calls
  <2>4. run' \in [Runs -> Invocations]
    BY <1>1, <1>2, <1>14, <2>2, <2>3, SkippedType DEF Upload, Recorded
  <2> QED
    BY <1>14, <2>1, <2>4 DEF Upload, Recorded, TypeOK, users
<1>15. CASE Head(r)
  <2>1. Finished(i, [mtime |-> i.listL[i.path], rev |-> Rev(i.path)]) \in Invocations
    BY <1>1, <1>3, <1>5, FinishedType
  <2> QED
    BY <1>2, <1>15, <2>1 DEF Head, Recorded, TypeOK, users
<1>16. CASE DeleteLocal(r)
  <2>1. local' \in [Devices -> [Paths -> Files]]
    BY <1>1, <1>16, WriteFileType DEF DeleteLocal, Contents
  <2>2. Finished(i, NoEntry) \in Invocations /\ Skipped(i) \in Invocations
    BY <1>1, <1>4, FinishedType, SkippedType
  <2> QED
    BY <1>2, <1>16, <2>1, <2>2 DEF DeleteLocal, TypeOK, users
<1>17. CASE DeleteRemote(r)
  <2>1. remote' \in [Paths -> Versions]
    BY <1>1, <1>17, PutType DEF DeleteRemote, Contents
  <2>2. Finished(i, NoEntry) \in Invocations
    BY <1>1, <1>4, FinishedType
  <2> QED
    BY <1>2, <1>17, <2>1, <2>2 DEF DeleteRemote, TypeOK, users
<1>18. CASE Checkpoint(r)
  <2>1. \A n \in Nat : [Skipped(i) EXCEPT !.since = n] \in Invocations
    BY <1>1, SkippedType DEF Invocations
  <2>2. Skipped(i).since \in Nat
    BY <1>1, SkippedType DEF Invocations
  <2>3. run' \in [Runs -> Invocations]
    BY <1>2, <1>18, <2>1, <2>2 DEF Checkpoint
  <2>4. stored' \in [Devices -> [Paths -> Entries]]
    BY <1>1, <1>18 DEF Checkpoint, TypeOK
  <2> QED
    BY <1>18, <2>3, <2>4 DEF Checkpoint, TypeOK, users
<1>19. CASE Finish(r)
  <2>1. stored' \in [Devices -> [Paths -> Entries]]
    BY <1>1, <1>19 DEF Finish, TypeOK
  <2> QED
    BY <1>2, <1>19, <2>1, IdleType DEF Finish, TypeOK, users
<1> QED
  BY <1>6, <1>7, <1>8, <1>9, <1>10, <1>11, <1>12, <1>13, <1>14, <1>15, <1>16,
     <1>17, <1>18, <1>19 DEF SyncStep

LEMMA TypeUserStep == ASSUME TypeOK, UserStep PROVE TypeOK'
<1> PICK d \in Devices, p \in Paths : (\E c \in Contents : Save(d, p, c)) \/ Delete(d, p)
  BY DEF UserStep
<1>1. \A c \in Contents : \A old \in Contents :
        /\ (wanted[p] \ (old \ c)) \cup (c \ old) \in Contents
        /\ wanted[p] \ old \in Contents
  BY DEF TypeOK, Contents
<1>2. local[d][p].content \in Contents
  BY DEF TypeOK, Files
<1>3. MaxEdits \in Nat /\ MaxUserOps \in Nat
  BY ConstAssumption
<1>4. ASSUME NEW c \in Contents, Save(d, p, c) PROVE TypeOK'
  <2>1. local' \in [Devices -> [Paths -> Files]]
    BY <1>4, WriteFileType DEF Save
  <2>2. wanted' \in [Paths -> Contents]
    BY <1>1, <1>2, <1>4 DEF Save, TypeOK
  <2>3. edits' \in 0 .. MaxEdits
    <3>1. CASE c \subseteq local[d][p].content
      BY <1>4, <3>1 DEF Save, TypeOK
    <3>2. CASE ~(c \subseteq local[d][p].content)
      <4>1. edits + 1 \in 1 .. MaxEdits
        BY <1>4, <3>2 DEF Save
      <4> QED
        BY <1>3, <1>4, <3>2, <4>1 DEF Save, TypeOK
    <3> QED
      BY <3>1, <3>2
  <2>4. userOps' \in 0 .. MaxUserOps
    BY <1>3, <1>4 DEF Save, UserMay, TypeOK
  <2> QED
    BY <1>4, <2>1, <2>2, <2>3, <2>4 DEF Save, TypeOK
<1>5. CASE Delete(d, p)
  <2>1. local' \in [Devices -> [Paths -> Files]]
    BY <1>2, <1>5, WriteFileType DEF Delete
  <2>2. wanted' \in [Paths -> Contents]
    BY <1>1, <1>2, <1>5 DEF Delete, TypeOK
  <2>3. userOps' \in 0 .. MaxUserOps
    BY <1>3, <1>5 DEF Delete, UserMay, TypeOK
  <2> QED
    BY <1>5, <2>1, <2>2, <2>3 DEF Delete, TypeOK
<1> QED
  BY <1>4, <1>5

LEMMA TypeFaultStep == ASSUME TypeOK, FaultStep PROVE TypeOK'
<1>1. faults' \in 0 .. MaxFaults
  BY ConstAssumption DEF FaultStep, StateUnreadable, CallFails, AnswerLost, Crash,
                         Fault, TypeOK
<1>2. ASSUME NEW r \in Runs, StateUnreadable(r) PROVE TypeOK'
  <2>1. [Idle EXCEPT !.pc = "list", !.listing = {"local", "remote"},
                     !.next = NoState] \in Invocations
    BY IdleType DEF Invocations, NoState, NoEntry, NoVersion, Entries, Versions, Contents
  <2> QED
    BY <1>1, <1>2, <2>1, BecomesType DEF StateUnreadable, Begin, TypeOK, users
<1>3. ASSUME NEW r \in Runs, CallFails(r) PROVE TypeOK'
  <2>1. Skipped(run[r]) \in Invocations
    BY SkippedType DEF TypeOK
  <2>2. run' \in [Runs -> Invocations]
    BY <1>3, <2>1, IdleType, BecomesType DEF CallFails, TypeOK
  <2> QED
    BY <1>1, <1>3, <2>2 DEF CallFails, TypeOK, users
<1>4. ASSUME NEW r \in Runs, AnswerLost(r) PROVE TypeOK'
  <2>1. run[r].path \in Paths /\ run[r].data \in Contents /\ Skipped(run[r]) \in Invocations
    BY SkippedType DEF TypeOK, Invocations
  <2>2. run' \in [Runs -> Invocations]
    BY <1>4, <2>1, BecomesType DEF AnswerLost, TypeOK
  <2>3. remote' \in [Paths -> Versions]
    BY <1>4, <2>1, PutType DEF AnswerLost
  <2> QED
    BY <1>1, <1>4, <2>2, <2>3 DEF AnswerLost, TypeOK, users
<1>5. ASSUME NEW d \in Devices, Crash(d) PROVE TypeOK'
  BY <1>1, <1>5, IdleType DEF Crash, TypeOK, users
<1> QED
  BY <1>2, <1>3, <1>4, <1>5 DEF FaultStep

LEMMA TypeStep == TypeOK /\ [Next]_vars => TypeOK'
<1>1. CASE UNCHANGED vars
  BY <1>1 DEF vars, users, TypeOK
<1> QED
  BY <1>1, TypeSyncStep, TypeUserStep, TypeFaultStep DEF Next

\* The variables of PlugSync keep their types for every value of the constants.
THEOREM TypeCorrect == Spec => []TypeOK
BY TypeInit, TypeStep, PTL DEF Spec

-----------------------------------------------------------------------------
(* One run at a time *)

\* The lock of auto_trigger.ts kept, and the command not used meanwhile.
OneRunEachDevice == \A q, r \in Runs : Owner[q] = Owner[r] => q = r

\* Neither do two devices sync at the same time.
OneAtATime == OneRunEachDevice /\ ~OverlapDevices

Alone == \A q, r \in Runs : run[q].pc # "idle" /\ run[r].pc # "idle" => q = r

\* The version a HEAD request finds is the one the run has just uploaded.
HeadKnows ==
  \A r \in Runs : run[r].pc = "head" => remote[run[r].path].content = run[r].data

\* What any step of a run, with or without an error, leaves alone.
LEMMA StepOfOneRun ==
  ASSUME NEW r \in Runs,
         SyncStep(r) \/ StateUnreadable(r) \/ CallFails(r) \/ AnswerLost(r)
  PROVE  /\ \E j : Becomes(r, j)
         /\ run[r].pc = "idle" => MayStart(r)
         /\ UNCHANGED users
<1>1. CASE Start(r) \/ StateUnreadable(r)
  BY <1>1 DEF Start, StateUnreadable, Begin
<1>2. CASE ListLocal(r) \/ ListRemote(r)
  BY <1>2 DEF ListLocal, ListRemote, Listed
<1>3. CASE \E p \in Paths : Take(r, p)
  BY <1>3 DEF Take
<1>4. CASE Download(r) \/ WriteLocal(r) \/ Head(r)
  BY <1>4 DEF Download, WriteLocal, Head
<1>5. CASE Read(r) \/ Copy(r)
  BY <1>5 DEF Read, Copy, Goto
<1>6. CASE Upload(r)
  BY <1>6 DEF Upload
<1>7. CASE DeleteLocal(r) \/ DeleteRemote(r)
  BY <1>7 DEF DeleteLocal, DeleteRemote
<1>8. CASE Checkpoint(r) \/ Finish(r)
  BY <1>8 DEF Checkpoint, Finish
<1>9. CASE CallFails(r)
  BY <1>9 DEF CallFails, Calls
<1>10. CASE AnswerLost(r)
  BY <1>10 DEF AnswerLost
<1> QED
  BY <1>1, <1>2, <1>3, <1>4, <1>5, <1>6, <1>7, <1>8, <1>9, <1>10 DEF SyncStep

\* The other runs stay as they are.
LEMMA OthersStay ==
  ASSUME TypeOK, NEW r \in Runs,
         SyncStep(r) \/ StateUnreadable(r) \/ CallFails(r) \/ AnswerLost(r)
  PROVE  \A q \in Runs \ {r} : run'[q] = run[q]
<1>1. PICK j : Becomes(r, j)
  BY StepOfOneRun
<1> QED
  BY <1>1 DEF Becomes, TypeOK

\* A run that starts finds the others idle.
LEMMA StartsAlone ==
  ASSUME OneAtATime, TypeOK, NEW r \in Runs, MayStart(r)
  PROVE  \A q \in Runs : run[q].pc = "idle"
<1> SUFFICES ASSUME NEW q \in Runs PROVE run[q].pc = "idle"
  OBVIOUS
<1>1. CASE Owner[q] = Owner[r]
  BY <1>1 DEF OneAtATime, OneRunEachDevice, MayStart
<1>2. CASE Owner[q] # Owner[r]
  <2>1. Owner[q] \in Devices \ {Owner[r]}
    BY <1>2, ConstAssumption
  <2> QED
    BY <2>1 DEF OneAtATime, MayStart, Busy
<1> QED
  BY <1>1, <1>2

LEMMA AloneStep ==
  ASSUME OneAtATime, TypeOK, Alone, [Next]_vars PROVE Alone'
<1>1. ASSUME NEW r \in Runs,
             SyncStep(r) \/ StateUnreadable(r) \/ CallFails(r) \/ AnswerLost(r)
      PROVE  Alone'
  <2>1. \A q \in Runs \ {r} : run'[q] = run[q]
    BY <1>1, OthersStay
  <2>2. \A q \in Runs \ {r} : run[q].pc = "idle"
    BY <1>1, StepOfOneRun, StartsAlone DEF Alone
  <2> QED
    BY <2>1, <2>2 DEF Alone
<1>2. CASE UserStep
  BY <1>2 DEF UserStep, Save, Delete, Alone
<1>3. ASSUME NEW d \in Devices, Crash(d) PROVE Alone'
  BY <1>3 DEF Crash, Alone, Idle
<1>4. CASE UNCHANGED vars
  BY <1>4 DEF vars, Alone
<1> QED
  BY <1>1, <1>2, <1>3, <1>4 DEF Next, FaultStep

\* Only an upload brings a run to the HEAD request.
LEMMA HeadFollowsUpload ==
  ASSUME TypeOK, NEW r \in Runs,
         SyncStep(r) \/ StateUnreadable(r) \/ CallFails(r) \/ AnswerLost(r),
         run'[r].pc = "head"
  PROVE  ~EtagInPut /\ run[r].pc = "upload" /\ Put(run[r].path, run[r].data)
         /\ Becomes(r, [run[r] EXCEPT !.pc = "head"])
<1>1. run \in [Runs -> Invocations] /\ run[r] \in Invocations
  BY DEF TypeOK
<1>2. \A j : Becomes(r, j) => run'[r] = j
  BY <1>1 DEF Becomes
<1>3. \A i \in Invocations : \A e : Skipped(i).pc # "head" /\ Finished(i, e).pc # "head"
  BY DEF Skipped, Finished, Invocations
<1>4. Idle.pc # "head"
  BY DEF Idle
<1>5. CASE Start(r) \/ StateUnreadable(r)
  BY <1>2, <1>5 DEF Start, StateUnreadable, Begin, Idle
<1>6. CASE ListLocal(r) \/ ListRemote(r)
  <2>1. \A side \in {"local", "remote"} :
          /\ AfterListing(run[r], side) \in Invocations
          /\ AfterListing(run[r], side).pc \in {"loop", "list"}
    BY <1>1, AfterListingType DEF AfterListing, Invocations
  <2>2. CASE ListLocal(r)
    <3> DEFINE a == AfterListing(run[r], "local")
    <3>1. PICK l : Becomes(r, [a EXCEPT !.listL = l])
      BY <2>2 DEF ListLocal
    <3>2. a \in Invocations /\ a.pc \in {"loop", "list"}
      BY <2>1
    <3> HIDE DEF a
    <3>3. [a EXCEPT !.listL = l].pc = a.pc
      BY <3>2 DEF Invocations
    <3> QED
      BY <1>2, <3>1, <3>2, <3>3
  <2>3. CASE ListRemote(r)
    <3> DEFINE a == AfterListing(run[r], "remote")
    <3>1. PICK v : Becomes(r, [a EXCEPT !.listR = v])
      BY <2>3 DEF ListRemote
    <3>2. a \in Invocations /\ a.pc \in {"loop", "list"}
      BY <2>1
    <3> HIDE DEF a
    <3>3. [a EXCEPT !.listR = v].pc = a.pc
      BY <3>2 DEF Invocations
    <3> QED
      BY <1>2, <3>1, <3>2, <3>3
  <2> QED
    BY <1>6, <2>2, <2>3
<1>7. CASE \E p \in Paths : Take(r, p)
  <2>1. \A plan : FirstCall(plan) # "head" \/ plan \notin Plans
    BY DEF FirstCall, Plans
  <2>2. PICK p \in Paths : Take(r, p)
    BY <1>7
  <2> DEFINE plan == Plan(run[r].listL[p], run[r].listR[p], run[r].next[p])
  <2>3. plan \in Plans
    BY <1>1, PlanType DEF Invocations
  <2> HIDE DEF plan
  <2>4. run'[r].pc = FirstCall(plan)
    BY <1>1, <1>2, <2>2 DEF Take, plan, Invocations
  <2> QED
    BY <2>1, <2>3, <2>4
<1>8. CASE Download(r)
  BY <1>1, <1>2, <1>3, <1>8 DEF Download, Invocations
<1>9. CASE WriteLocal(r) \/ Head(r) \/ DeleteLocal(r) \/ DeleteRemote(r)
  BY <1>1, <1>2, <1>3, <1>9 DEF WriteLocal, Head, DeleteLocal, DeleteRemote
<1>10. CASE Read(r) \/ Copy(r)
  BY <1>1, <1>2, <1>3, <1>10 DEF Read, Copy, Goto, Invocations
<1>11. CASE Upload(r)
  BY <1>1, <1>2, <1>3, <1>11 DEF Upload
<1>12. CASE Checkpoint(r) \/ Finish(r)
  BY <1>1, <1>2, <1>4, <1>12 DEF Checkpoint, Finish, Skipped, Invocations
<1>13. CASE CallFails(r) \/ AnswerLost(r)
  BY <1>1, <1>2, <1>3, <1>4, <1>13 DEF CallFails, AnswerLost
<1> QED
  BY <1>5, <1>6, <1>7, <1>8, <1>9, <1>10, <1>11, <1>12, <1>13 DEF SyncStep

\* A provider that answers an upload with its ETag is never asked for it.
LEMMA NoHeadStep ==
  ASSUME EtagInPut, TypeOK, \A r \in Runs : run[r].pc # "head", [Next]_vars
  PROVE  (\A r \in Runs : run[r].pc # "head")'
<1>1. ASSUME NEW r \in Runs,
             SyncStep(r) \/ StateUnreadable(r) \/ CallFails(r) \/ AnswerLost(r)
      PROVE  (\A q \in Runs : run[q].pc # "head")'
  BY <1>1, OthersStay, HeadFollowsUpload
<1>2. CASE UserStep
  BY <1>2 DEF UserStep, Save, Delete
<1>3. ASSUME NEW d \in Devices, Crash(d) PROVE (\A q \in Runs : run[q].pc # "head")'
  BY <1>3 DEF Crash, Idle
<1>4. CASE UNCHANGED vars
  BY <1>4 DEF vars
<1> QED
  BY <1>1, <1>2, <1>3, <1>4 DEF Next, FaultStep

\* When one run is under way, nobody writes between its upload and its HEAD.
LEMMA HeadKnowsStep ==
  ASSUME OneAtATime, TypeOK, Alone, HeadKnows, [Next]_vars PROVE HeadKnows'
<1>1. ASSUME NEW r \in Runs,
             SyncStep(r) \/ StateUnreadable(r) \/ CallFails(r) \/ AnswerLost(r)
      PROVE  HeadKnows'
  <2>1. \A q \in Runs \ {r} : run'[q] = run[q] /\ run[q].pc = "idle"
    BY <1>1, OthersStay, StepOfOneRun, StartsAlone DEF Alone
  <2>2. ASSUME run'[r].pc = "head"
        PROVE  remote'[run'[r].path].content = run'[r].data
    <3> DEFINE i == run[r]
    <3>1. Put(i.path, i.data) /\ Becomes(r, [i EXCEPT !.pc = "head"])
      BY <1>1, <2>2, HeadFollowsUpload
    <3>2. i \in Invocations /\ i.path \in Paths /\ remote \in [Paths -> Versions]
      BY DEF TypeOK, Invocations
    <3>3. run'[r] = [i EXCEPT !.pc = "head"]
      BY <3>1 DEF Becomes, TypeOK
    <3>4. run'[r].path = i.path /\ run'[r].data = i.data
      BY <3>2, <3>3 DEF Invocations
    <3>5. remote'[i.path].content = i.data
      BY <3>1, <3>2 DEF Put
    <3> QED
      BY <3>4, <3>5
  <2> QED
    BY <2>1, <2>2 DEF HeadKnows
<1>2. CASE UserStep
  BY <1>2 DEF UserStep, Save, Delete, HeadKnows
<1>3. ASSUME NEW d \in Devices, Crash(d) PROVE HeadKnows'
  BY <1>3 DEF Crash, HeadKnows, Idle
<1>4. CASE UNCHANGED vars
  BY <1>4 DEF vars, HeadKnows
<1> QED
  BY <1>1, <1>2, <1>3, <1>4 DEF Next, FaultStep

LEMMA AloneAlways == ASSUME OneAtATime PROVE Spec => []Alone
<1>1. Init => Alone
  BY DEF Init, Alone, Idle
<1>2. TypeOK /\ Alone /\ [Next]_vars => Alone'
  BY AloneStep
<1> QED
  BY <1>1, <1>2, TypeCorrect, PTL DEF Spec

LEMMA HeadKnown == ASSUME EtagInPut \/ OneAtATime PROVE Spec => []HeadKnows
<1>1. CASE EtagInPut
  <2> DEFINE NoHead == \A r \in Runs : run[r].pc # "head"
  <2>1. Init => NoHead
    BY DEF Init, Idle
  <2>2. TypeOK /\ NoHead /\ [Next]_vars => NoHead'
    BY <1>1, NoHeadStep
  <2>3. NoHead => HeadKnows
    BY DEF HeadKnows
  <2> QED
    BY <2>1, <2>2, <2>3, TypeCorrect, PTL DEF Spec
<1>2. CASE OneAtATime
  <2>1. Init => HeadKnows
    BY DEF Init, HeadKnows, Idle
  <2>2. TypeOK /\ Alone /\ HeadKnows /\ [Next]_vars => HeadKnows'
    BY <1>2, HeadKnowsStep
  <2> QED
    BY <1>2, <2>1, <2>2, TypeCorrect, AloneAlways, PTL DEF Spec
<1> QED
  BY <1>1, <1>2

-----------------------------------------------------------------------------
(* The state a device keeps agrees with its files *)

\* What a write or a deletion does to one file.
Touched(f, c) == {[tick |-> f.tick + 1, content |-> c], [f EXCEPT !.content = {}]}

LEMMA FitsTouched ==
  ASSUME NEW f \in Files, NEW c \in Contents, NEW g \in Touched(f, c),
         NEW s \in Entries, Fits(f, s)
  PROVE  Fits(g, s)
BY DEF Fits, Touched, Files, Entries

LEMMA TouchedGrows ==
  ASSUME NEW f \in Files, NEW c \in Contents, NEW g \in Touched(f, c)
  PROVE  /\ g \in Files /\ f.tick <= g.tick
         /\ g.tick = f.tick => g.content = {}
BY DEF Touched, Files, Contents

\* A run keeps fitting when any of the device's files is written or deleted.
LEMMA RunFitsTouched ==
  ASSUME NEW files \in [Paths -> Files], NEW i \in Invocations, RunFits(i, files),
         NEW p \in Paths, NEW c \in Contents, NEW g \in Touched(files[p], c)
  PROVE  RunFits(i, [files EXCEPT ![p] = g])
<1> DEFINE after == [files EXCEPT ![p] = g]
<1>1. \A q \in Paths : after[q] = IF q = p THEN g ELSE files[q]
  OBVIOUS
<1>2. i.listL \in [Paths -> Nat] /\ i.next \in [Paths -> Entries] /\ i.path \in Paths
  BY DEF Invocations
<1>3. files[p].tick \in Nat /\ g.tick \in Nat /\ files[p].tick <= g.tick
      /\ (g.tick = files[p].tick => g.content = {})
  BY TouchedGrows DEF Files
<1> HIDE DEF after
<1>4. ASSUME NEW q \in Paths
      PROVE  Fits(after[q], i.next[q]) /\ i.listL[q] <= after[q].tick
  <2>1. Fits(files[q], i.next[q]) /\ i.listL[q] <= files[q].tick
    BY DEF RunFits
  <2>2. CASE q = p
    BY <1>1, <1>2, <1>3, <2>1, <2>2, FitsTouched
  <2>3. CASE q # p
    BY <1>1, <2>1, <2>3
  <2> QED
    BY <2>2, <2>3
<1>5. ASSUME i.pc \in {"upload", "head"}, i.listL[i.path] = after[i.path].tick
      PROVE  after[i.path].content \in {{}, i.data}
  <2>1. CASE i.path = p
    <3>1. i.listL[p] <= files[p].tick /\ i.listL[p] \in Nat
      BY <1>2 DEF RunFits
    <3> QED
      BY <1>1, <1>3, <1>5, <2>1, <3>1
  <2>2. CASE i.path # p
    BY <1>1, <1>2, <1>5, <2>2 DEF RunFits
  <2> QED
    BY <2>1, <2>2
<1> QED
  BY <1>4, <1>5 DEF RunFits, after

LEMMA RunFitsIdle ==
  ASSUME NEW files \in [Paths -> Files] PROVE RunFits(Idle, files)
BY DEF RunFits, Idle, Fits, NoState, NoEntry, Files

LEMMA RunFitsSkipped ==
  ASSUME NEW files, NEW i \in Invocations, RunFits(i, files)
  PROVE  RunFits(Skipped(i), files)
BY DEF RunFits, Skipped, Invocations

LEMMA RunFitsFinished ==
  ASSUME NEW files, NEW i \in Invocations, NEW e,
         \A p \in Paths : i.listL[p] <= files[p].tick,
         \A p \in Paths \ {i.path} : Fits(files[p], i.next[p]),
         Fits(files[i.path], e)
  PROVE  RunFits(Finished(i, e), files)
BY DEF RunFits, Finished, Invocations

\* A step that touches no file and changes run r alone.
LEMMA BaseOneRun ==
  ASSUME BaseInv, NEW r \in Runs, NEW i, TypeOK,
         Becomes(r, i), UNCHANGED <<local, stored>>, RunFits(i, local[Owner[r]])
  PROVE  BaseInv'
BY DEF BaseInv, Becomes, TypeOK

\* A step that writes or deletes one file, and run r goes on as i.
LEMMA BaseOneFile ==
  ASSUME BaseInv, TypeOK, NEW d \in Devices, NEW p \in Paths, NEW c \in Contents,
         WriteFile(d, p, c) \/ DeleteFile(d, p),
         UNCHANGED stored
  PROVE  /\ \A e \in Devices, q \in Paths : Fits(local'[e][q], stored'[e][q])
         /\ \A r \in Runs : RunFits(run[r], local'[Owner[r]])
<1>1. PICK g \in Touched(local[d][p], c) : local' = [local EXCEPT ![d][p] = g]
  BY DEF WriteFile, DeleteFile, Touched
<1>2. local \in [Devices -> [Paths -> Files]] /\ local[d] \in [Paths -> Files]
  BY DEF TypeOK
<1>3. \A e \in Devices : local'[e] = IF e = d THEN [local[d] EXCEPT ![p] = g] ELSE local[e]
  BY <1>1, <1>2
<1>4. ASSUME NEW e \in Devices, NEW q \in Paths PROVE Fits(local'[e][q], stored'[e][q])
  <2>1. stored'[e][q] = stored[e][q] /\ stored[e][q] \in Entries
    BY DEF TypeOK
  <2>2. Fits(local[e][q], stored[e][q])
    BY DEF BaseInv
  <2>3. CASE e = d /\ q = p
    <3>1. local'[e][q] = g /\ local[d][p] \in Files
      BY <1>2, <1>3, <2>3
    <3>2. Fits(g, stored[e][q])
      BY <2>1, <2>2, <2>3, <3>1, FitsTouched
    <3> QED
      BY <2>1, <3>1, <3>2
  <2>4. CASE ~(e = d /\ q = p)
    BY <1>2, <1>3, <2>1, <2>2, <2>4
  <2> QED
    BY <2>3, <2>4
<1>5. ASSUME NEW r \in Runs PROVE RunFits(run[r], local'[Owner[r]])
  <2>1. RunFits(run[r], local[Owner[r]]) /\ run[r] \in Invocations /\ Owner[r] \in Devices
    BY ConstAssumption DEF BaseInv, TypeOK
  <2>2. CASE Owner[r] = d
    <3>1. RunFits(run[r], [local[d] EXCEPT ![p] = g])
      BY <1>2, <2>1, <2>2, RunFitsTouched
    <3> QED
      BY <1>3, <2>1, <2>2, <3>1
  <2>3. CASE Owner[r] # d
    BY <1>3, <2>1, <2>3
  <2> QED
    BY <2>2, <2>3
<1> QED
  BY <1>4, <1>5

LEMMA BaseInit == Init => BaseInv
<1> SUFFICES ASSUME Init PROVE BaseInv
  OBVIOUS
<1>1. \A d \in Devices : local[d] \in [Paths -> Files]
  BY DEF Init, Files, Contents
<1> QED
  BY <1>1, RunFitsIdle, ConstAssumption DEF Init, BaseInv, Fits, NoState

LEMMA BaseSyncStep ==
  ASSUME TypeOK, BaseInv, HeadKnows, NEW r \in Runs, SyncStep(r) PROVE BaseInv'
<1> DEFINE d == Owner[r]  i == run[r]  files == local[d]
<1>1. /\ d \in Devices /\ i \in Invocations /\ i.path \in Paths
      /\ files \in [Paths -> Files] /\ RunFits(i, files)
      /\ i.next \in [Paths -> Entries] /\ i.listL \in [Paths -> Nat]
  BY ConstAssumption DEF TypeOK, BaseInv, Invocations
<1>2. \A p \in Paths : Fits(files[p], i.next[p]) /\ i.listL[p] <= files[p].tick
  BY <1>1 DEF RunFits
<1>3. \A j : RunFits(j, files) /\ Becomes(r, j) /\ UNCHANGED <<local, stored>> => BaseInv'
  BY BaseOneRun
<1>4. \A p \in Paths : Mtime(d, p) <= files[p].tick
  BY <1>1 DEF Mtime, Files
<1>5. RunFits(Idle, files) /\ RunFits(Skipped(i), files)
  BY <1>1, RunFitsIdle, RunFitsSkipped
<1>6. \A e : Fits(files[i.path], e) => RunFits(Finished(i, e), files)
  BY <1>1, <1>2, RunFitsFinished
<1>7. \A f \in Files : Fits(f, NoEntry)
  BY DEF Fits
<1> HIDE DEF files
<1>8. CASE Start(r)
  <2> DEFINE j == [Idle EXCEPT !.pc = "list", !.listing = {"local", "remote"},
                               !.next = stored[d]]
  <2>1. \A p \in Paths : Fits(files[p], stored[d][p])
    BY <1>1 DEF BaseInv, files
  <2>2. RunFits(j, files)
    BY <1>1, <2>1 DEF RunFits, Idle, Files
  <2> QED
    BY <1>3, <1>8, <2>2 DEF Start, Begin
<1>9. CASE ListLocal(r)
  <2> DEFINE j == [AfterListing(i, "local") EXCEPT !.listL = [p \in Paths |-> Mtime(d, p)]]
  <2>1. i.pc = "list"
    BY <1>9 DEF ListLocal, Listed
  <2>2. RunFits(j, files)
    BY <1>1, <1>2, <1>4, <2>1 DEF RunFits, AfterListing, Invocations
  <2> QED
    BY <1>3, <1>9, <2>2 DEF ListLocal, Listed
<1>10. CASE ListRemote(r)
  <2> DEFINE j == [AfterListing(i, "remote") EXCEPT !.listR = [p \in Paths |-> Rev(p)]]
  <2>1. RunFits(j, files)
    BY <1>1, <1>2 DEF RunFits, AfterListing, Invocations
  <2> QED
    BY <1>3, <1>10, <2>1 DEF ListRemote, Listed
<1>11. CASE \E p \in Paths : Take(r, p)
  <2> PICK p \in Paths : Take(r, p)
    BY <1>11
  <2> DEFINE plan == Plan(i.listL[p], i.listR[p], i.next[p])
             j == [i EXCEPT !.done = @ \cup {p}, !.path = p, !.plan = plan,
                            !.pc = FirstCall(plan),
                            !.next[p] = IF plan = "forget" THEN NoEntry ELSE @]
  <2>1. FirstCall(plan) \notin {"head", "upload", "copy"}
    BY DEF FirstCall, Plan, OnlyLocal, OnlyRemote, Both
  <2>2. \/ FirstCall(plan) = "read"
        \/ FirstCall(plan) = "download" /\ plan # "fetch"
        => i.listL[p] # 0
    BY DEF FirstCall, Plan, OnlyLocal, OnlyRemote, Both
  <2>3. Becomes(r, j) /\ UNCHANGED <<local, stored>>
    BY DEF Take
  <2> HIDE DEF plan
  <2>4. \A q \in Paths : Fits(files[q], j.next[q])
    BY <1>1, <1>2, <1>7 DEF Invocations
  <2>5. j.pc = FirstCall(plan) /\ j.path = p /\ j.listL = i.listL /\ j.plan = plan
    BY <1>1 DEF Invocations
  <2>6. RunFits(j, files)
    BY <1>2, <2>1, <2>2, <2>4, <2>5 DEF RunFits
  <2> QED
    BY <1>3, <2>3, <2>6
<1>12. CASE Download(r)
  <2> DEFINE v == Rev(i.path)
             pc == CASE i.plan = "fetch"   -> "writeLocal"
                     [] i.plan = "compare" -> "read"
                     [] OTHER              -> "copy"
             j == [i EXCEPT !.dl = v, !.pc = pc]
  <2>1. i.pc = "download" /\ pc \in {"writeLocal", "read", "copy"}
        /\ (pc # "writeLocal" => i.plan # "fetch")
    BY <1>12 DEF Download
  <2>2. Becomes(r, IF v = NoVersion THEN Skipped(i) ELSE j) /\ UNCHANGED <<local, stored>>
    BY <1>12 DEF Download
  <2> HIDE DEF pc
  <2>3. RunFits(j, files)
    BY <1>1, <1>2, <2>1 DEF RunFits, Invocations
  <2> QED
    BY <1>3, <1>5, <2>2, <2>3
<1>13. CASE Read(r)
  <2> DEFINE c == files[i.path].content
             e == [mtime |-> i.listL[i.path], rev |-> i.dl]
  <2>1. i.pc = "read" /\ i.listL[i.path] # 0 /\ i.listL[i.path] \in Nat
        /\ files[i.path] \in Files /\ i.listL[i.path] <= files[i.path].tick
    BY <1>1, <1>2, <1>13 DEF Read, Recorded, RunFits
  <2>2. c = i.dl.content => Fits(files[i.path], e)
    BY <2>1 DEF Fits, Files
  <2>3. RunFits([i EXCEPT !.plan = "conflict", !.pc = "copy"], files)
    BY <1>1, <1>2, <2>1 DEF RunFits, Invocations
  <2>4. RunFits([i EXCEPT !.data = c, !.pc = "upload"], files)
    BY <1>1, <1>2, <2>1 DEF RunFits, Invocations
  <2>5. UNCHANGED <<local, stored>>
    BY <1>13 DEF Read, Recorded
  <2>6. CASE Becomes(r, Skipped(i))
    BY <1>3, <1>5, <2>5, <2>6
  <2>7. CASE c = i.dl.content /\ Becomes(r, Finished(i, e))
    BY <1>3, <1>6, <2>2, <2>5, <2>7
  <2>8. CASE \/ Becomes(r, [i EXCEPT !.plan = "conflict", !.pc = "copy"])
             \/ Becomes(r, [i EXCEPT !.data = c, !.pc = "upload"])
    BY <1>3, <2>3, <2>4, <2>5, <2>8
  <2> QED
    BY <1>13, <2>6, <2>7, <2>8 DEF Read, Recorded, files
<1>14. CASE Copy(r)
  <2>1. RunFits([i EXCEPT !.pc = "read"], files)
    BY <1>1, <1>2, <1>14 DEF Copy, RunFits, Invocations
  <2> QED
    BY <1>3, <1>14, <2>1 DEF Copy, Goto
<1>15. CASE Upload(r)
  <2> DEFINE e == [mtime |-> i.listL[i.path], rev |-> remote'[i.path]]
  <2>1. i.pc = "upload" /\ i.listL[i.path] # 0 /\ i.listL[i.path] \in Nat
        /\ files[i.path] \in Files /\ i.listL[i.path] <= files[i.path].tick
        /\ (i.listL[i.path] = files[i.path].tick => files[i.path].content \in {{}, i.data})
    BY <1>1, <1>2, <1>15 DEF Upload, Recorded, RunFits
  <2>2. UNCHANGED <<local, stored>>
    BY <1>15 DEF Upload, Recorded
  <2>3. CASE Becomes(r, Skipped(i))
    BY <1>3, <1>5, <2>2, <2>3
  <2>4. CASE Put(i.path, i.data) /\ Becomes(r, Finished(i, e))
    <3>1. e.rev.content = i.data
      BY <1>1, <2>4 DEF Put, TypeOK
    <3>2. Fits(files[i.path], e)
      BY <2>1, <3>1 DEF Fits, Files
    <3> QED
      BY <1>3, <1>6, <2>2, <2>4, <3>2
  <2>5. CASE Becomes(r, [i EXCEPT !.pc = "head"])
    <3>1. RunFits([i EXCEPT !.pc = "head"], files)
      BY <1>1, <1>2, <2>1 DEF RunFits, Invocations
    <3> QED
      BY <1>3, <2>2, <2>5, <3>1
  <2> QED
    BY <1>15, <2>3, <2>4, <2>5 DEF Upload, Recorded
<1>16. CASE Head(r)
  <2> DEFINE e == [mtime |-> i.listL[i.path], rev |-> Rev(i.path)]
  <2>1. i.pc = "head" /\ i.listL[i.path] # 0 /\ i.listL[i.path] \in Nat
        /\ files[i.path] \in Files /\ i.listL[i.path] <= files[i.path].tick
        /\ (i.listL[i.path] = files[i.path].tick => files[i.path].content \in {{}, i.data})
    BY <1>1, <1>2, <1>16 DEF Head, RunFits
  <2>2. e.rev.content = i.data
    BY <2>1 DEF HeadKnows, Rev, NoVersion
  <2>3. Fits(files[i.path], e)
    BY <2>1, <2>2 DEF Fits, Files
  <2> QED
    BY <1>3, <1>6, <1>16, <2>3 DEF Head, Recorded
<1>17. CASE DeleteRemote(r)
  BY <1>1, <1>3, <1>6, <1>7, <1>17 DEF DeleteRemote
<1>18. CASE WriteLocal(r) \/ DeleteLocal(r)
  <2>1. PICK c \in Contents : WriteFile(d, i.path, c) \/ DeleteFile(d, i.path)
    BY <1>1, <1>18 DEF WriteLocal, DeleteLocal, Invocations, Versions, Contents
  <2> DEFINE after == local'[d]
  <2>2. UNCHANGED stored
    BY <1>18 DEF WriteLocal, DeleteLocal
  <2>3. /\ \A e \in Devices, q \in Paths : Fits(local'[e][q], stored'[e][q])
        /\ \A q \in Runs : RunFits(run[q], local'[Owner[q]])
    BY <1>1, <2>1, <2>2, BaseOneFile
  <2>4. RunFits(i, after) /\ after[i.path] \in Files
    BY <1>1, <2>1, <2>3, WriteFileType
  <2>5. \A p \in Paths : Fits(after[p], i.next[p]) /\ i.listL[p] <= after[p].tick
    BY <2>4 DEF RunFits
  <2>6. PICK j : Becomes(r, j) /\ RunFits(j, after)
    <3>1. CASE WriteLocal(r)
      <4> DEFINE e == [mtime |-> files[i.path].tick + 1, rev |-> i.dl]
      <4>1. after[i.path] = [tick |-> files[i.path].tick + 1, content |-> i.dl.content]
        BY <1>1, <3>1 DEF WriteLocal, WriteFile, TypeOK, files
      <4>2. files[i.path].tick \in Nat
        BY <1>1 DEF Files
      <4>3. Fits(after[i.path], e)
        BY <4>1, <4>2 DEF Fits
      <4>4. RunFits(Finished(i, e), after)
        BY <1>1, <2>5, <4>3, RunFitsFinished
      <4> QED
        BY <3>1, <4>4 DEF WriteLocal, files
    <3>2. CASE DeleteLocal(r)
      <4>1. RunFits(Skipped(i), after) /\ RunFits(Finished(i, NoEntry), after)
        BY <1>1, <1>7, <2>4, <2>5, RunFitsFinished, RunFitsSkipped
      <4> QED
        BY <3>2, <4>1 DEF DeleteLocal
    <3> QED
      BY <1>18, <3>1, <3>2
  <2> QED
    BY <2>3, <2>6 DEF BaseInv, Becomes, TypeOK
<1>19. CASE Checkpoint(r)
  <2>1. \A n : RunFits([Skipped(i) EXCEPT !.since = n], files)
    BY <1>1, <1>5, SkippedType DEF RunFits, Invocations
  <2>2. PICK j : Becomes(r, j) /\ RunFits(j, files) /\ UNCHANGED local
                 /\ (stored' = [stored EXCEPT ![d] = i.next] \/ UNCHANGED stored)
    BY <1>19, <2>1 DEF Checkpoint
  <2>3. \A e \in Devices, q \in Paths : Fits(local'[e][q], stored'[e][q])
    BY <1>1, <1>2, <2>2 DEF BaseInv, TypeOK, files
  <2> QED
    BY <2>2, <2>3 DEF BaseInv, Becomes, TypeOK, files
<1>20. CASE Finish(r)
  <2>1. \A e \in Devices, q \in Paths : Fits(local'[e][q], stored'[e][q])
    BY <1>1, <1>2, <1>20 DEF Finish, BaseInv, TypeOK, files
  <2> QED
    BY <1>5, <1>20, <2>1 DEF Finish, BaseInv, Becomes, TypeOK, files
<1> QED
  BY <1>8, <1>9, <1>10, <1>11, <1>12, <1>13, <1>14, <1>15, <1>16, <1>17, <1>18,
     <1>19, <1>20 DEF SyncStep

LEMMA BaseUserStep == ASSUME TypeOK, BaseInv, UserStep PROVE BaseInv'
<1> PICK d \in Devices, p \in Paths : (\E c \in Contents : Save(d, p, c)) \/ Delete(d, p)
  BY DEF UserStep
<1>1. PICK c \in Contents : WriteFile(d, p, c) \/ DeleteFile(d, p)
  BY DEF Save, Delete, Contents
<1>2. UNCHANGED <<stored, run>>
  BY DEF Save, Delete
<1> QED
  BY <1>1, <1>2, BaseOneFile DEF BaseInv

LEMMA BaseFaultStep == ASSUME TypeOK, BaseInv, FaultStep PROVE BaseInv'
<1>1. \A d \in Devices : local[d] \in [Paths -> Files]
  BY DEF TypeOK
<1>2. \A r \in Runs : /\ Owner[r] \in Devices /\ run[r] \in Invocations
                      /\ RunFits(Skipped(run[r]), local[Owner[r]])
                      /\ RunFits(Idle, local[Owner[r]])
  BY <1>1, RunFitsIdle, RunFitsSkipped, ConstAssumption DEF BaseInv, TypeOK
<1>3. ASSUME NEW r \in Runs, StateUnreadable(r) PROVE BaseInv'
  <2> DEFINE j == [Idle EXCEPT !.pc = "list", !.listing = {"local", "remote"},
                               !.next = NoState]
  <2>1. RunFits(j, local[Owner[r]])
    BY <1>2 DEF RunFits, Idle
  <2> QED
    BY <1>3, <2>1, BaseOneRun DEF StateUnreadable, Begin
<1>4. ASSUME NEW r \in Runs, CallFails(r) \/ AnswerLost(r) PROVE BaseInv'
  BY <1>2, <1>4, BaseOneRun DEF CallFails, AnswerLost
<1>5. ASSUME NEW d \in Devices, Crash(d) PROVE BaseInv'
  BY <1>2, <1>5 DEF Crash, BaseInv
<1> QED
  BY <1>3, <1>4, <1>5 DEF FaultStep

LEMMA BaseStep == TypeOK /\ BaseInv /\ HeadKnows /\ [Next]_vars => BaseInv'
<1>1. CASE UNCHANGED vars
  BY <1>1 DEF vars, BaseInv
<1> QED
  BY <1>1, BaseSyncStep, BaseUserStep, BaseFaultStep DEF Next

LEMMA BaseInvImplies == TypeOK /\ BaseInv => BaseAgreement
<1> SUFFICES ASSUME TypeOK, BaseInv, NEW d \in Devices, NEW p \in Paths,
                    stored[d][p] # NoEntry, stored[d][p].mtime = Mtime(d, p)
             PROVE  local[d][p].content = stored[d][p].rev.content
  BY DEF BaseAgreement
<1>1. Fits(local[d][p], stored[d][p]) /\ local[d][p] \in Files
  BY DEF BaseInv, TypeOK
<1> QED
  BY <1>1 DEF Fits, Mtime, Files

\* Every entry, on disk or in a run, is about a write its device has made, and
\* fits the file if that write is still the last one; a run about to upload
\* holds what it listed unless the file has changed since.
THEOREM EntriesFit ==
  ASSUME EtagInPut \/ OneAtATime PROVE Spec => []BaseInv
<1>1. Init => TypeOK /\ BaseInv
  BY TypeInit, BaseInit
<1>2. (TypeOK /\ BaseInv) /\ HeadKnows /\ [Next]_vars => (TypeOK /\ BaseInv)'
  BY TypeStep, BaseStep
<1> QED
  BY <1>1, <1>2, HeadKnown, PTL DEF Spec

\* A file whose lastModified is the recorded one has the content of the recorded
\* rev, whatever users and faults do meanwhile, provided that the provider
\* answers an upload with the rev of that upload (then overlapping runs on any
\* device do no harm either) or that only one run is under way at a time.
THEOREM StateAgreesWithFiles ==
  ASSUME EtagInPut \/ OneAtATime PROVE Spec => []BaseAgreement
<1>1. TypeOK /\ BaseInv => BaseAgreement
  BY BaseInvImplies
<1> QED
  BY <1>1, TypeCorrect, EntriesFit, PTL

-----------------------------------------------------------------------------
(* What a step of a run does outside its memory, and to its entries *)

\* One step of a run r, with or without an error.
StepOf(r) == SyncStep(r) \/ StateUnreadable(r) \/ CallFails(r) \/ AnswerLost(r)

\* A step writes in one place at most: the local file, the cloud, the state
\* file or a .conflict file, and always at the path the run is about.
WritesLocal(r) ==
  /\ \/ run[r].pc = "writeLocal" /\ WriteFile(Owner[r], run[r].path, run[r].dl.content)
     \/ run[r].pc = "deleteLocal" /\ DeleteFile(Owner[r], run[r].path)
  /\ UNCHANGED <<remote, stored, copies>>

WritesRemote(r) ==
  /\ \/ run[r].pc = "upload" /\ Accepts(r) /\ Put(run[r].path, run[r].data)
     \/ run[r].pc = "deleteRemote" /\ DropRemote(run[r].path)
  /\ UNCHANGED <<local, stored, copies>>

WritesCopy(r) ==
  /\ run[r].pc = "copy"
  /\ copies' = copies \cup
       {[path |-> run[r].path,
         content |-> IF run[r].path \in Binary THEN {} ELSE run[r].dl.content]}
  /\ UNCHANGED <<local, remote, stored>>

WritesState(r) ==
  /\ stored' = [stored EXCEPT ![Owner[r]] = run[r].next]
  /\ UNCHANGED <<local, remote, copies>>

LEMMA OneWrite ==
  ASSUME NEW r \in Runs, StepOf(r)
  PROVE  \/ WritesLocal(r) \/ WritesRemote(r) \/ WritesCopy(r) \/ WritesState(r)
         \/ UNCHANGED <<local, remote, stored, copies>>
<1>1. CASE Start(r) \/ StateUnreadable(r)
  BY <1>1 DEF Start, StateUnreadable, Begin
<1>2. CASE ListLocal(r) \/ ListRemote(r)
  BY <1>2 DEF ListLocal, ListRemote, Listed
<1>3. CASE \E p \in Paths : Take(r, p)
  BY <1>3 DEF Take
<1>4. CASE Download(r) \/ Read(r) \/ Head(r)
  BY <1>4 DEF Download, Read, Head
<1>5. CASE WriteLocal(r) \/ DeleteLocal(r)
  BY <1>5 DEF WriteLocal, DeleteLocal, WritesLocal
<1>6. CASE Copy(r)
  BY <1>6 DEF Copy, WritesCopy
<1>7. CASE Upload(r) \/ DeleteRemote(r)
  BY <1>7 DEF Upload, DeleteRemote, WritesRemote
<1>8. CASE Checkpoint(r) \/ Finish(r)
  BY <1>8 DEF Checkpoint, Finish, WritesState
<1>9. CASE CallFails(r)
  BY <1>9 DEF CallFails
<1>10. CASE AnswerLost(r)
  BY <1>10 DEF AnswerLost, WritesRemote
<1> QED
  BY <1>1, <1>2, <1>3, <1>4, <1>5, <1>6, <1>7, <1>8, <1>9, <1>10 DEF SyncStep, StepOf

\* The entry a run gives its path: the rev is that of a version which, at that
\* moment, is in the cloud or was downloaded, and which the local file equals.
NewEntry(r, e) ==
  LET i == run[r]  f == local[Owner[r]][i.path]
  IN \/ /\ i.pc = "writeLocal" /\ e.rev = i.dl
        /\ WriteFile(Owner[r], i.path, i.dl.content)
     \/ i.pc = "read" /\ i.plan = "compare" /\ e.rev = i.dl /\ i.dl.content = f.content
     \/ i.pc = "upload" /\ EtagInPut /\ e.rev = remote'[i.path] /\ Put(i.path, i.data)
     \/ i.pc = "head" /\ e.rev = Rev(i.path)

\* Otherwise a run has the entries it had, those of the state file, or none.
LEMMA EntriesOfStep ==
  ASSUME TypeOK, NEW r \in Runs, StepOf(r), NEW p \in Paths
  PROVE  \/ run'[r].next[p] = run[r].next[p]
         \/ run'[r].next[p] \in {NoEntry, stored[Owner[r]][p]}
         \/ p = run[r].path /\ NewEntry(r, run'[r].next[p])
<1> DEFINE i == run[r]
<1>1. run \in [Runs -> Invocations] /\ i \in Invocations /\ i.path \in Paths
      /\ i.next \in [Paths -> Entries] /\ NoEntry \in Entries
  BY DEF TypeOK, Invocations, NoEntry, NoVersion, Entries, Versions, Contents
<1>2. \A j : Becomes(r, j) => run'[r] = j
  BY <1>1 DEF Becomes
<1>3. Skipped(i).next = i.next
      /\ (\A e : Finished(i, e).next = [i.next EXCEPT ![i.path] = e])
  BY <1>1 DEF Skipped, Finished, Invocations
<1>4. Idle.next[p] = NoEntry
  BY DEF Idle, NoState
<1>5. Becomes(r, Skipped(i)) => run'[r].next = i.next
  BY <1>2, <1>3
<1>6. ASSUME NEW e, Becomes(r, Finished(i, e))
      PROVE  run'[r].next[p] = i.next[p] \/ (p = i.path /\ run'[r].next[p] = e)
  <2>1. run'[r] = Finished(i, e)
    BY <1>2, <1>6
  <2>2. run'[r].next = [i.next EXCEPT ![i.path] = e]
    BY <1>3, <2>1
  <2> QED
    BY <1>1, <2>2
<1>7. CASE Start(r) \/ StateUnreadable(r)
  <2>1. \A state : [Idle EXCEPT !.pc = "list", !.listing = {"local", "remote"},
                                !.next = state].next = state
    BY DEF Idle
  <2>2. Begin(r, stored[Owner[r]]) \/ Begin(r, NoState)
    BY <1>7 DEF Start, StateUnreadable
  <2>3. run'[r].next = stored[Owner[r]] \/ run'[r].next = NoState
    BY <1>2, <2>1, <2>2 DEF Begin
  <2> QED
    BY <2>3 DEF NoState
<1>8. CASE ListLocal(r)
  BY <1>1, <1>2, <1>8 DEF ListLocal, AfterListing, Invocations
<1>9. CASE ListRemote(r)
  BY <1>1, <1>2, <1>9 DEF ListRemote, AfterListing, Invocations
<1>10. CASE \E q \in Paths : Take(r, q)
  <2> PICK q \in Paths : Take(r, q)
    BY <1>10
  <2> DEFINE plan == Plan(i.listL[q], i.listR[q], i.next[q])
             e == IF plan = "forget" THEN NoEntry ELSE i.next[q]
  <2>1. run'[r] = [i EXCEPT !.done = @ \cup {q}, !.path = q, !.plan = plan,
                            !.pc = FirstCall(plan), !.next[q] = e]
    BY <1>2 DEF Take
  <2>2. e \in {NoEntry, i.next[q]}
    OBVIOUS
  <2> HIDE DEF plan, e
  <2>3. run'[r].next = [i.next EXCEPT ![q] = e]
    BY <1>1, <2>1 DEF Invocations
  <2> QED
    BY <1>1, <2>2, <2>3
<1>11. CASE Download(r)
  <2>1. CASE Becomes(r, Skipped(i))
    BY <1>5, <2>1
  <2>2. CASE ~Becomes(r, Skipped(i))
    <3> DEFINE v == Rev(i.path)
               pc == CASE i.plan = "fetch"   -> "writeLocal"
                       [] i.plan = "compare" -> "read"
                       [] OTHER              -> "copy"
    <3>1. Becomes(r, [i EXCEPT !.dl = v, !.pc = pc])
      BY <1>11, <2>2 DEF Download
    <3> HIDE DEF v, pc
    <3>2. [i EXCEPT !.dl = v, !.pc = pc].next = i.next
      BY <1>1 DEF Invocations
    <3>3. run'[r] = [i EXCEPT !.dl = v, !.pc = pc]
      BY <1>2, <3>1
    <3> QED
      BY <3>2, <3>3
  <2> QED
    BY <2>1, <2>2
<1>12. CASE WriteLocal(r)
  <2> DEFINE e == [mtime |-> local[Owner[r]][i.path].tick + 1, rev |-> i.dl]
  <2>1. /\ i.pc = "writeLocal" /\ WriteFile(Owner[r], i.path, i.dl.content)
        /\ Becomes(r, Finished(i, e))
    BY <1>12 DEF WriteLocal
  <2>2. e.rev = i.dl
    OBVIOUS
  <2> HIDE DEF e
  <2> QED
    BY <1>6, <2>1, <2>2 DEF NewEntry
<1>13. CASE Read(r)
  <2> DEFINE c == local[Owner[r]][i.path].content
  <2>1. CASE run'[r].next = i.next
    BY <2>1
  <2>2. CASE c = i.dl.content /\ i.plan = "compare" /\ i.pc = "read"
             /\ Becomes(r, Finished(i, Recorded(r, i.dl)))
    <3>1. Recorded(r, i.dl).rev = i.dl
      BY DEF Recorded
    <3> QED
      BY <1>6, <2>2, <3>1 DEF NewEntry
  <2>3. [i EXCEPT !.plan = "conflict", !.pc = "copy"].next = i.next
        /\ [i EXCEPT !.data = c, !.pc = "upload"].next = i.next
    BY <1>1 DEF Invocations
  <2> QED
    BY <1>2, <1>3, <1>13, <2>1, <2>2, <2>3 DEF Read
<1>14. CASE Copy(r)
  BY <1>1, <1>2, <1>14 DEF Copy, Goto, Invocations
<1>15. CASE Upload(r)
  <2>1. CASE Becomes(r, Skipped(i)) \/ Becomes(r, [i EXCEPT !.pc = "head"])
    BY <1>1, <1>2, <1>3, <2>1 DEF Invocations
  <2>2. CASE /\ EtagInPut /\ i.pc = "upload" /\ Put(i.path, i.data)
             /\ Becomes(r, Finished(i, Recorded(r, remote'[i.path])))
    <3>1. Recorded(r, remote'[i.path]).rev = remote'[i.path]
      BY DEF Recorded
    <3> QED
      BY <1>6, <2>2, <3>1 DEF NewEntry
  <2> QED
    BY <1>15, <2>1, <2>2 DEF Upload
<1>16. CASE Head(r)
  <2>1. Recorded(r, Rev(i.path)).rev = Rev(i.path)
    BY DEF Recorded
  <2> QED
    BY <1>6, <1>16, <2>1 DEF Head, NewEntry
<1>17. CASE DeleteLocal(r) \/ DeleteRemote(r)
  BY <1>5, <1>6, <1>17 DEF DeleteLocal, DeleteRemote
<1>18. CASE Checkpoint(r) \/ Finish(r)
  <2>1. \A n : [Skipped(i) EXCEPT !.since = n].next = i.next
    BY <1>1, <1>3, SkippedType DEF Invocations
  <2> QED
    BY <1>2, <1>4, <1>18, <2>1 DEF Checkpoint, Finish
<1>19. CASE CallFails(r) \/ AnswerLost(r)
  BY <1>2, <1>3, <1>4, <1>19 DEF CallFails, AnswerLost
<1> QED
  BY <1>7, <1>8, <1>9, <1>10, <1>11, <1>12, <1>13, <1>14, <1>15, <1>16, <1>17,
     <1>18, <1>19 DEF SyncStep, StepOf

\* What download and readFile return is what is there at that moment, and a run
\* forgets it when it leaves the path.
LEMMA HandsOfStep ==
  ASSUME TypeOK, NEW r \in Runs, StepOf(r)
  PROVE  /\ \/ run'[r].dl \in {run[r].dl, NoVersion}
            \/ run[r].pc = "download" /\ run'[r].dl = Rev(run[r].path)
         /\ \/ run'[r].data \in {run[r].data, {}}
            \/ run[r].pc = "read" /\ run'[r].data = local[Owner[r]][run[r].path].content
         /\ \/ run'[r].listR = run[r].listR
            \/ run'[r].listR = [p \in Paths |-> NoVersion]
            \/ run'[r].listR = [p \in Paths |-> Rev(p)]
<1> DEFINE i == run[r]
           Hands(j) ==
             /\ \/ j.dl \in {i.dl, NoVersion}
                \/ i.pc = "download" /\ j.dl = Rev(i.path)
             /\ \/ j.data \in {i.data, {}}
                \/ i.pc = "read" /\ j.data = local[Owner[r]][i.path].content
             /\ \/ j.listR = i.listR
                \/ j.listR = [p \in Paths |-> NoVersion]
                \/ j.listR = [p \in Paths |-> Rev(p)]
<1> SUFFICES Hands(run'[r])
  OBVIOUS
<1>1. i \in Invocations
  BY DEF TypeOK
<1>2. \A j : Becomes(r, j) => run'[r] = j
  BY DEF Becomes, TypeOK
<1>3. Hands(Skipped(i)) /\ (\A e : Hands(Finished(i, e))) /\ Hands(Idle)
  BY <1>1 DEF Skipped, Finished, Invocations, Idle
<1> HIDE DEF Hands
<1>4. CASE Start(r) \/ StateUnreadable(r)
  <2>1. \A state : Hands([Idle EXCEPT !.pc = "list", !.listing = {"local", "remote"},
                                      !.next = state])
    BY DEF Idle, Hands
  <2> QED
    BY <1>2, <1>4, <2>1 DEF Start, StateUnreadable, Begin
<1>5. CASE ListLocal(r)
  <2>1. Hands([AfterListing(i, "local") EXCEPT !.listL = [p \in Paths |-> Mtime(Owner[r], p)]])
    BY <1>1 DEF AfterListing, Invocations, Hands
  <2> QED
    BY <1>2, <1>5, <2>1 DEF ListLocal
<1>6. CASE ListRemote(r)
  <2>1. Hands([AfterListing(i, "remote") EXCEPT !.listR = [p \in Paths |-> Rev(p)]])
    BY <1>1 DEF AfterListing, Invocations, Hands
  <2> QED
    BY <1>2, <1>6, <2>1 DEF ListRemote
<1>7. CASE \E q \in Paths : Take(r, q)
  <2> PICK q \in Paths : Take(r, q)
    BY <1>7
  <2> DEFINE plan == Plan(i.listL[q], i.listR[q], i.next[q])
             e == IF plan = "forget" THEN NoEntry ELSE i.next[q]
             j == [i EXCEPT !.done = @ \cup {q}, !.path = q, !.plan = plan,
                            !.pc = FirstCall(plan), !.next[q] = e]
  <2>1. run'[r] = j
    BY <1>2 DEF Take
  <2> HIDE DEF plan, e
  <2>2. Hands(j)
    BY <1>1 DEF Invocations, Hands
  <2> QED
    BY <2>1, <2>2
<1>8. CASE Download(r)
  <2> DEFINE v == Rev(i.path)
             pc == CASE i.plan = "fetch"   -> "writeLocal"
                     [] i.plan = "compare" -> "read"
                     [] OTHER              -> "copy"
             j == [i EXCEPT !.dl = v, !.pc = pc]
  <2>1. i.pc = "download" /\ Becomes(r, IF v = NoVersion THEN Skipped(i) ELSE j)
    BY <1>8 DEF Download
  <2> HIDE DEF pc
  <2>2. Hands(j)
    BY <1>1, <2>1 DEF Invocations, Hands
  <2> HIDE DEF j
  <2>3. run'[r] = j \/ run'[r] = Skipped(i)
    BY <1>2, <2>1
  <2> QED
    BY <1>3, <2>2, <2>3
<1>9. CASE WriteLocal(r) \/ Head(r)
  BY <1>2, <1>3, <1>9 DEF WriteLocal, Head
<1>10. CASE Read(r)
  <2> DEFINE c == local[Owner[r]][i.path].content
  <2>1. i.pc = "read"
    BY <1>10 DEF Read
  <2>2. Hands([i EXCEPT !.plan = "conflict", !.pc = "copy"])
        /\ Hands([i EXCEPT !.data = c, !.pc = "upload"])
    BY <1>1, <2>1 DEF Invocations, Hands
  <2> QED
    BY <1>2, <1>3, <1>10, <2>2 DEF Read
<1>11. CASE Copy(r)
  BY <1>1, <1>2, <1>11 DEF Copy, Goto, Invocations, Hands
<1>12. CASE Upload(r)
  <2>1. Hands([i EXCEPT !.pc = "head"])
    BY <1>1 DEF Invocations, Hands
  <2> QED
    BY <1>2, <1>3, <1>12, <2>1 DEF Upload
<1>13. CASE DeleteLocal(r) \/ DeleteRemote(r)
  BY <1>2, <1>3, <1>13 DEF DeleteLocal, DeleteRemote
<1>14. CASE Checkpoint(r) \/ Finish(r)
  <2>1. \A n : Hands([Skipped(i) EXCEPT !.since = n])
    BY <1>1, <1>3, SkippedType DEF Invocations, Hands
  <2> QED
    BY <1>2, <1>3, <1>14, <2>1 DEF Checkpoint, Finish
<1>15. CASE CallFails(r) \/ AnswerLost(r)
  BY <1>2, <1>3, <1>15 DEF CallFails, AnswerLost
<1> QED
  BY <1>4, <1>5, <1>6, <1>7, <1>8, <1>9, <1>10, <1>11, <1>12, <1>13, <1>14, <1>15
  DEF SyncStep, StepOf

-----------------------------------------------------------------------------
(* Nobody holds an edit that has not been made *)

Made(c, n) == c \subseteq 1 .. n

RunMade(i, n) ==
  /\ Made(i.dl.content, n) /\ Made(i.data, n)
  /\ \A p \in Paths : Made(i.next[p].rev.content, n) /\ Made(i.listR[p].content, n)

EditsMade ==
  /\ \A d \in Devices, p \in Paths : Made(local[d][p].content, edits)
  /\ \A p \in Paths : Made(remote[p].content, edits)
  /\ \A d \in Devices, p \in Paths : Made(stored[d][p].rev.content, edits)
  /\ \A r \in Runs : RunMade(run[r], edits)

LEMMA EditsMadeStepOf ==
  ASSUME TypeOK, EditsMade, NEW r \in Runs, StepOf(r) PROVE EditsMade'
<1> DEFINE i == run[r]  d == Owner[r]
<1>1. /\ d \in Devices /\ i \in Invocations /\ i.path \in Paths /\ run \in [Runs -> Invocations]
      /\ local \in [Devices -> [Paths -> Files]] /\ remote \in [Paths -> Versions]
      /\ stored \in [Devices -> [Paths -> Entries]]
  BY ConstAssumption DEF TypeOK, Invocations
<1>2. RunMade(i, edits) /\ edits' = edits /\ Made({}, edits)
  BY StepOfOneRun DEF EditsMade, StepOf, users, Made
<1>3. ASSUME NEW e \in Devices, NEW p \in Paths PROVE Made(local'[e][p].content, edits)
  <2>1. CASE UNCHANGED local
    BY <2>1 DEF EditsMade
  <2>2. CASE WritesLocal(r)
    <3>1. local'[e][p] = local[e][p]
          \/ local'[e][p].content \in {{}, i.dl.content}
      <4>1. CASE WriteFile(d, i.path, i.dl.content)
        BY <1>1, <4>1 DEF WriteFile
      <4>2. CASE DeleteFile(d, i.path)
        BY <1>1, <4>2 DEF DeleteFile, Files
      <4> QED
        BY <2>2, <4>1, <4>2 DEF WritesLocal
    <3> QED
      BY <1>2, <3>1 DEF EditsMade, RunMade
  <2> QED
    BY <2>1, <2>2, OneWrite DEF WritesRemote, WritesCopy, WritesState
<1>4. ASSUME NEW p \in Paths PROVE Made(remote'[p].content, edits)
  <2>1. CASE UNCHANGED remote
    BY <2>1 DEF EditsMade
  <2>2. CASE WritesRemote(r)
    <3>1. remote'[p] = remote[p] \/ remote'[p].content \in {{}, i.data}
      BY <1>1, <2>2 DEF WritesRemote, Put, DropRemote, Versions
    <3> QED
      BY <1>2, <3>1 DEF EditsMade, RunMade
  <2> QED
    BY <2>1, <2>2, OneWrite DEF WritesLocal, WritesCopy, WritesState
<1>5. ASSUME NEW e \in Devices, NEW p \in Paths
      PROVE  Made(stored'[e][p].rev.content, edits)
  <2>1. CASE UNCHANGED stored
    BY <2>1 DEF EditsMade
  <2>2. CASE WritesState(r)
    <3>1. stored'[e][p] = stored[e][p] \/ stored'[e][p] = i.next[p]
      BY <1>1, <2>2 DEF WritesState
    <3> QED
      BY <1>2, <3>1 DEF EditsMade, RunMade
  <2> QED
    BY <2>1, <2>2, OneWrite DEF WritesLocal, WritesCopy, WritesRemote
<1>6. RunMade(run'[r], edits)
  <2>1. \A q \in Paths : Made(Rev(q).content, edits)
    BY <1>2 DEF EditsMade, Rev, NoVersion
  <2>2. Made(run'[r].dl.content, edits)
    <3>1. Made(NoVersion.content, edits) /\ Made(i.dl.content, edits)
      BY <1>2 DEF RunMade, NoVersion
    <3>2. run'[r].dl = i.dl \/ run'[r].dl = NoVersion \/ run'[r].dl = Rev(i.path)
      BY HandsOfStep
    <3> QED
      BY <1>1, <2>1, <3>1, <3>2
  <2>3. Made(run'[r].data, edits)
    BY <1>1, <1>2, HandsOfStep DEF RunMade, EditsMade
  <2>4. ASSUME NEW p \in Paths PROVE Made(run'[r].next[p].rev.content, edits)
    <3>1. CASE run'[r].next[p] = i.next[p] \/ run'[r].next[p] \in {NoEntry, stored[d][p]}
      <4>1. Made(NoEntry.rev.content, edits) /\ Made(i.next[p].rev.content, edits)
            /\ Made(stored[d][p].rev.content, edits)
        BY <1>1, <1>2 DEF RunMade, EditsMade, NoEntry, NoVersion
      <4> QED
        BY <3>1, <4>1
    <3>2. CASE NewEntry(r, run'[r].next[p])
      <4>1. Put(i.path, i.data) => remote'[i.path].content = i.data
        BY <1>1 DEF Put
      <4> QED
        BY <1>1, <1>2, <2>1, <3>2, <4>1 DEF NewEntry, RunMade
    <3> QED
      BY <3>1, <3>2, EntriesOfStep
  <2>5. ASSUME NEW p \in Paths PROVE Made(run'[r].listR[p].content, edits)
    <3>1. /\ Made(i.listR[p].content, edits) /\ Made(Rev(p).content, edits)
          /\ Made(NoVersion.content, edits)
      BY <1>2, <2>1 DEF RunMade, NoVersion
    <3>2. run'[r].listR[p] \in {i.listR[p], NoVersion, Rev(p)}
      BY HandsOfStep
    <3> QED
      BY <3>1, <3>2
  <2> QED
    BY <2>2, <2>3, <2>4, <2>5 DEF RunMade
<1>7. \A q \in Runs \ {r} : run'[q] = run[q]
  BY OthersStay DEF StepOf
<1> QED
  BY <1>2, <1>3, <1>4, <1>5, <1>6, <1>7 DEF EditsMade

LEMMA EditsMadeUserStep ==
  ASSUME TypeOK, EditsMade, UserStep PROVE EditsMade'
<1> PICK d \in Devices, p \in Paths : (\E c \in Contents : Save(d, p, c)) \/ Delete(d, p)
  BY DEF UserStep
<1>1. edits \in Nat /\ local \in [Devices -> [Paths -> Files]]
  BY ConstAssumption DEF TypeOK
<1>2. edits' \in {edits, edits + 1} /\ UNCHANGED <<remote, stored, run>>
  BY DEF Save, Delete
<1>3. \A c : Made(c, edits) => Made(c, edits')
  BY <1>1, <1>2 DEF Made
<1>4. ASSUME NEW e \in Devices, NEW q \in Paths PROVE Made(local'[e][q].content, edits')
  <2>1. Made(local[e][q].content, edits') /\ Made({}, edits')
    BY <1>3 DEF EditsMade, Made
  <2>2. CASE Delete(d, p)
    BY <1>1, <2>1, <2>2 DEF Delete, DeleteFile, Files
  <2>3. ASSUME NEW c \in Contents, Save(d, p, c) PROVE Made(local'[e][q].content, edits')
    <3>1. local'[e][q].content \in {local[e][q].content, c}
      BY <1>1, <2>3 DEF Save, WriteFile
    <3>2. c \subseteq local[d][p].content \cup {edits + 1}
      BY <2>3 DEF Save
    <3>3. c \subseteq local[d][p].content \/ edits' = edits + 1
      BY <2>3 DEF Save
    <3>4. Made(local[d][p].content, edits)
      BY DEF EditsMade
    <3>5. Made(c, edits')
      BY <1>1, <1>2, <3>2, <3>3, <3>4 DEF Made
    <3> QED
      BY <2>1, <3>1, <3>5
  <2> QED
    BY <2>2, <2>3
<1> QED
  BY <1>2, <1>3, <1>4 DEF EditsMade, RunMade

LEMMA EditsMadeStep == TypeOK /\ EditsMade /\ [Next]_vars => EditsMade'
<1> SUFFICES ASSUME TypeOK, EditsMade, [Next]_vars PROVE EditsMade'
  OBVIOUS
<1>1. ASSUME NEW d \in Devices, Crash(d) PROVE EditsMade'
  <2>1. RunMade(Idle, edits)
    BY DEF RunMade, Idle, Made, NoState, NoEntry, NoVersion
  <2> QED
    BY <1>1, <2>1 DEF Crash, EditsMade, users
<1>2. CASE UNCHANGED vars
  BY <1>2 DEF vars, users, EditsMade
<1> QED
  BY <1>1, <1>2, EditsMadeStepOf, EditsMadeUserStep DEF Next, FaultStep, StepOf

LEMMA EditsMadeAlways == Spec => []EditsMade
<1>1. Init => EditsMade
  BY DEF Init, EditsMade, RunMade, Made, Idle, NoState, NoEntry, NoVersion
<1> QED
  BY <1>1, EditsMadeStep, TypeCorrect, PTL DEF Spec

-----------------------------------------------------------------------------
(* The call a run is at fits the branch it took and what it had listed *)

PlanFits(i) ==
  /\ i.pc # "list" => i.listing = {}
  /\ i.pc \in Calls => i.path \in i.done
  /\ i.pc = "download" => i.plan \in {"fetch", "compare", "conflict"}
  /\ i.pc = "writeLocal" => i.plan = "fetch"
  /\ i.pc = "copy" => i.plan = "conflict"
  /\ i.pc = "read" => i.plan \in {"add", "update", "compare", "conflict"}
  /\ i.pc = "upload" => i.plan \in {"add", "update", "conflict"}
  /\ i.pc \in {"read", "upload"} /\ i.plan = "update" =>
       i.listR[i.path] = i.next[i.path].rev
  /\ i.pc = "deleteLocal" =>
       /\ i.listR[i.path] = NoVersion /\ i.next[i.path] # NoEntry
       /\ i.listL[i.path] = i.next[i.path].mtime
  /\ i.pc = "deleteRemote" =>
       /\ i.listL[i.path] = 0 /\ i.next[i.path] # NoEntry
       /\ i.listR[i.path] = i.next[i.path].rev
  /\ i.pc \in {"download", "writeLocal"} /\ i.plan = "fetch" =>
       \/ i.listL[i.path] = 0
       \/ i.next[i.path] # NoEntry /\ i.listL[i.path] = i.next[i.path].mtime

PlansFit == \A r \in Runs : PlanFits(run[r])

LEMMA PlanFitsBetweenPaths ==
  ASSUME NEW i \in Invocations, i.listing = {},
         i.pc \in {"idle", "loop", "checkpoint", "head"},
         i.pc \in {"idle", "loop"} \/ i.path \in i.done
  PROVE  PlanFits(i)
BY DEF PlanFits, Calls

LEMMA PlanFitsListing ==
  ASSUME NEW i \in Invocations, i.pc = "list"
  PROVE  PlanFits(i)
BY DEF PlanFits, Calls

\* A path that is left, with or without an exception.
LEMMA PlanFitsLeaving ==
  ASSUME NEW i \in Invocations, i.listing = {}, i.path \in i.done, NEW e \in Entries
  PROVE  PlanFits(Skipped(i)) /\ PlanFits(Finished(i, e))
<1>1. Skipped(i).pc = "loop" /\ Skipped(i).listing = {}
  BY DEF Skipped, Invocations
<1>2. Finished(i, e).pc = "checkpoint" /\ Finished(i, e).listing = {}
      /\ Finished(i, e).path = i.path /\ Finished(i, e).done = i.done
  BY DEF Finished, Invocations
<1> QED
  BY <1>1, <1>2, SkippedType, FinishedType, PlanFitsBetweenPaths

\* The branches, as the conditions that lead to them.
LEMMA Branches ==
  ASSUME NEW l, NEW v, NEW prior, NEW plan, plan = Plan(l, v, prior)
  PROVE  /\ plan = "update" => v = prior.rev
         /\ plan = "deleteLocal" => v = NoVersion /\ prior # NoEntry /\ l = prior.mtime
         /\ plan = "deleteRemote" => l = 0 /\ prior # NoEntry /\ v = prior.rev
         /\ plan = "fetch" => l = 0 \/ (prior # NoEntry /\ l = prior.mtime)
BY DEF Plan, OnlyLocal, OnlyRemote, Both

LEMMA FirstCalls ==
  ASSUME NEW plan \in Plans
  PROVE  /\ FirstCall(plan) \in {"download", "read", "deleteLocal", "deleteRemote",
                                 "checkpoint", "loop"}
         /\ FirstCall(plan) = "download" => plan \in {"fetch", "compare", "conflict"}
         /\ FirstCall(plan) = "read" => plan \in {"add", "update"}
         /\ FirstCall(plan) = "deleteLocal" => plan = "deleteLocal"
         /\ FirstCall(plan) = "deleteRemote" => plan = "deleteRemote"
         /\ plan = "forget" => FirstCall(plan) = "checkpoint"
BY DEF Plans, FirstCall

LEMMA PlanFitsStepOf ==
  ASSUME TypeOK, PlansFit, NEW r \in Runs, StepOf(r) PROVE PlanFits(run'[r])
<1> DEFINE i == run[r]  d == Owner[r]
<1>1. /\ i \in Invocations /\ run \in [Runs -> Invocations] /\ PlanFits(i)
      /\ i.path \in Paths /\ i.next \in [Paths -> Entries]
      /\ i.listR \in [Paths -> Versions] /\ i.listL \in [Paths -> Nat]
  BY DEF TypeOK, PlansFit, Invocations
<1>2. \A j : Becomes(r, j) => run'[r] = j
  BY <1>1 DEF Becomes
<1>3. i.pc # "list" => i.listing = {}
  BY <1>1 DEF PlanFits
<1>4. PlanFits(Idle)
  BY IdleType, PlanFitsBetweenPaths DEF Idle
<1>5. i.pc \in Calls => /\ PlanFits(Skipped(i)) /\ i.path \in i.done /\ i.listing = {}
                       /\ \A e \in Entries : PlanFits(Finished(i, e))
  <2>1. SUFFICES ASSUME i.pc \in Calls
                 PROVE  /\ i.path \in i.done /\ i.listing = {}
                        /\ \A e \in Entries : PlanFits(Skipped(i)) /\ PlanFits(Finished(i, e))
    BY DEF Entries, NoEntry, NoVersion, Versions, Contents, PlanFits, Skipped
  <2>2. i.path \in i.done /\ i.listing = {}
    BY <1>1, <2>1 DEF PlanFits, Calls
  <2> QED
    BY <1>1, <2>2, PlanFitsLeaving
<1>6. TypeOK'
  BY TypeSyncStep, TypeFaultStep DEF StepOf, FaultStep
<1>7. run'[r] \in Invocations
  BY <1>6 DEF TypeOK
<1>8. CASE Start(r) \/ StateUnreadable(r)
  <2>1. run'[r].pc = "list"
    BY <1>2, <1>8 DEF Start, StateUnreadable, Begin, Idle
  <2> QED
    BY <1>7, <2>1, PlanFitsListing
<1>9. CASE ListLocal(r) \/ ListRemote(r)
  <2>1. PICK side, l, v :
          /\ side \in {"local", "remote"} /\ i.pc = "list" /\ side \in i.listing
          /\ \/ run'[r] = [AfterListing(i, side) EXCEPT !.listL = l]
             \/ run'[r] = [AfterListing(i, side) EXCEPT !.listR = v]
    BY <1>2, <1>9 DEF ListLocal, ListRemote, Listed
  <2> DEFINE a == AfterListing(i, side)
  <2>2. a \in Invocations
    BY <1>1, <2>1, AfterListingType
  <2>3. a.pc = "list" \/ (a.pc = "loop" /\ a.listing = {})
    BY <1>1, <2>1 DEF AfterListing, Invocations
  <2> HIDE DEF a
  <2>4. run'[r] = [a EXCEPT !.listL = l] \/ run'[r] = [a EXCEPT !.listR = v]
    BY <2>1 DEF a
  <2>5. run'[r].pc = a.pc /\ run'[r].listing = a.listing
    BY <2>2, <2>4 DEF Invocations
  <2> QED
    BY <1>7, <2>3, <2>5, PlanFitsListing, PlanFitsBetweenPaths
<1>10. CASE \E q \in Paths : Take(r, q)
  <2> PICK q \in Paths : Take(r, q)
    BY <1>10
  <2> DEFINE plan == Plan(i.listL[q], i.listR[q], i.next[q])
             e == IF plan = "forget" THEN NoEntry ELSE i.next[q]
             j == [i EXCEPT !.done = @ \cup {q}, !.path = q, !.plan = plan,
                            !.pc = FirstCall(plan), !.next[q] = e]
  <2>1. run'[r] = j /\ i.listing = {}
    BY <1>2, <1>3 DEF Take
  <2>2. plan # "forget" => e = i.next[q]
    OBVIOUS
  <2> HIDE DEF e
  <2>3. plan \in Plans
    BY <1>1, PlanType
  <2>4. /\ plan = "update" => i.listR[q] = i.next[q].rev
        /\ plan = "deleteLocal" => /\ i.listR[q] = NoVersion /\ i.next[q] # NoEntry
                                   /\ i.listL[q] = i.next[q].mtime
        /\ plan = "deleteRemote" => /\ i.listL[q] = 0 /\ i.next[q] # NoEntry
                                    /\ i.listR[q] = i.next[q].rev
        /\ plan = "fetch" => \/ i.listL[q] = 0
                             \/ i.next[q] # NoEntry /\ i.listL[q] = i.next[q].mtime
    BY Branches
  <2> HIDE DEF plan
  <2> DEFINE pc == FirstCall(plan)
  <2>5. /\ pc \in {"download", "read", "deleteLocal", "deleteRemote", "checkpoint", "loop"}
        /\ pc = "download" => plan \in {"fetch", "compare", "conflict"}
        /\ pc = "read" => plan \in {"add", "update"}
        /\ pc = "deleteLocal" => plan = "deleteLocal"
        /\ pc = "deleteRemote" => plan = "deleteRemote"
        /\ plan = "forget" => pc = "checkpoint"
    BY <2>3, FirstCalls
  <2> HIDE DEF pc
  <2>6. /\ j.listing = {} /\ j.path = q /\ j.plan = plan /\ j.pc = pc
        /\ j.listL = i.listL /\ j.listR = i.listR /\ j.next[q] = e /\ q \in j.done
    BY <1>1, <2>1 DEF Invocations, pc
  <2> HIDE DEF j
  <2>7. PlanFits(j)
    BY <2>2, <2>4, <2>5, <2>6 DEF PlanFits
  <2> QED
    BY <2>1, <2>7
<1>11. CASE Download(r)
  <2> DEFINE pc == CASE i.plan = "fetch"   -> "writeLocal"
                     [] i.plan = "compare" -> "read"
                     [] OTHER              -> "copy"
             j == [i EXCEPT !.dl = Rev(i.path), !.pc = pc]
  <2>1. i.pc = "download" /\ (run'[r] = Skipped(i) \/ run'[r] = j)
    BY <1>2, <1>11 DEF Download
  <2>2. i.plan \in {"fetch", "compare", "conflict"} /\ i.listing = {} /\ i.path \in i.done
    BY <1>1, <1>3, <2>1 DEF PlanFits, Calls
  <2>3. /\ i.plan = "fetch" => pc = "writeLocal"
        /\ i.plan = "compare" => pc = "read"
        /\ i.plan = "conflict" => pc = "copy"
    OBVIOUS
  <2> HIDE DEF pc
  <2>4. /\ j.listing = i.listing /\ j.path = i.path /\ j.plan = i.plan /\ j.pc = pc
        /\ j.listL = i.listL /\ j.next = i.next /\ j.done = i.done
    BY <1>1 DEF Invocations
  <2> HIDE DEF j
  <2>5. PlanFits(j)
    BY <1>1, <2>1, <2>2, <2>3, <2>4 DEF PlanFits
  <2> QED
    BY <1>5, <2>1, <2>5 DEF Calls
<1>12. CASE Read(r)
  <2> DEFINE c == local[d][i.path].content
             j == [i EXCEPT !.plan = "conflict", !.pc = "copy"]
             k == [i EXCEPT !.data = c, !.pc = "upload"]
  <2>1. i.pc = "read" /\ \/ run'[r] = Skipped(i)
                         \/ run'[r] = Finished(i, Recorded(r, i.dl))
                         \/ run'[r] = j
                         \/ i.plan # "compare" /\ run'[r] = k
    BY <1>2, <1>12 DEF Read
  <2>2. Recorded(r, i.dl) \in Entries
    BY <1>1 DEF Recorded, Entries, Invocations
  <2>7. i.path \in i.done /\ i.listing = {}
    BY <1>5, <2>1 DEF Calls
  <2>3. /\ j.pc = "copy" /\ j.plan = "conflict" /\ j.listing = i.listing
        /\ j.path = i.path /\ j.done = i.done
    BY <1>1, <1>3, <2>1 DEF Invocations
  <2>4. k.pc = "upload" /\ k.plan = i.plan /\ k.listing = i.listing /\ k.path = i.path
        /\ k.listR = i.listR /\ k.next = i.next /\ k.done = i.done
    BY <1>1, <1>3, <2>1 DEF Invocations
  <2> HIDE DEF j, k
  <2>5. PlanFits(j)
    BY <2>3, <2>7 DEF PlanFits
  <2>6. i.plan # "compare" => PlanFits(k)
    BY <1>1, <2>1, <2>4, <2>7 DEF PlanFits
  <2> QED
    BY <1>5, <2>1, <2>2, <2>5, <2>6 DEF Calls
<1>13. CASE Copy(r)
  <2> DEFINE j == [i EXCEPT !.pc = "read"]
  <2>1. i.pc = "copy" /\ run'[r] = j
    BY <1>2, <1>13 DEF Copy, Goto
  <2>2. i.plan = "conflict" /\ i.listing = {} /\ i.path \in i.done
    BY <1>1, <2>1 DEF PlanFits, Calls
  <2>3. j.pc = "read" /\ j.plan = i.plan /\ j.listing = i.listing /\ j.path = i.path
        /\ j.done = i.done
    BY <1>1 DEF Invocations
  <2> HIDE DEF j
  <2> QED
    BY <2>1, <2>2, <2>3 DEF PlanFits
<1>14. CASE CallFails(r) \/ AnswerLost(r)
  BY <1>2, <1>4, <1>5, <1>14 DEF CallFails, AnswerLost, Calls
<1>15. CASE Finish(r)
  BY <1>2, <1>4, <1>15 DEF Finish
<1>16. CASE WriteLocal(r) \/ Head(r) \/ Upload(r) \/ DeleteLocal(r) \/ DeleteRemote(r)
            \/ Checkpoint(r)
  <2>1. i.pc \in Calls
    BY <1>16 DEF WriteLocal, Head, Upload, DeleteLocal, DeleteRemote, Checkpoint, Calls
  <2> DEFINE Left(j) == /\ j.pc \in {"loop", "checkpoint", "head"} /\ j.listing = {}
                        /\ j.path \in j.done
  <2>2. Left(Skipped(i)) /\ (\A e : Left(Finished(i, e)))
    BY <1>1, <1>5, <2>1 DEF Skipped, Finished, Invocations
  <2>3. Left([i EXCEPT !.pc = "head"])
    BY <1>1, <1>5, <2>1 DEF Invocations
  <2>4. \A n : Left([Skipped(i) EXCEPT !.since = n])
    BY <1>1, <1>5, <2>1 DEF Skipped, Invocations
  <2> HIDE DEF Left
  <2>5. Left(run'[r])
    <3>1. CASE WriteLocal(r) \/ Head(r) \/ DeleteLocal(r) \/ DeleteRemote(r)
      BY <1>2, <2>2, <3>1 DEF WriteLocal, Head, DeleteLocal, DeleteRemote
    <3>2. CASE Upload(r)
      BY <1>2, <2>2, <2>3, <3>2 DEF Upload
    <3>3. CASE Checkpoint(r)
      BY <1>2, <2>4, <3>3 DEF Checkpoint
    <3> QED
      BY <1>16, <3>1, <3>2, <3>3
  <2> QED
    BY <1>7, <2>5, PlanFitsBetweenPaths DEF Left
<1> QED
  BY <1>8, <1>9, <1>10, <1>11, <1>12, <1>13, <1>14, <1>15, <1>16 DEF SyncStep, StepOf

LEMMA PlansFitStep == TypeOK /\ PlansFit /\ [Next]_vars => PlansFit'
<1> SUFFICES ASSUME TypeOK, PlansFit, [Next]_vars PROVE PlansFit'
  OBVIOUS
<1>1. ASSUME NEW r \in Runs, StepOf(r) PROVE PlansFit'
  BY <1>1, OthersStay, PlanFitsStepOf DEF PlansFit, StepOf
<1>2. CASE UserStep
  BY <1>2 DEF UserStep, Save, Delete, PlansFit
<1>3. ASSUME NEW d \in Devices, Crash(d) PROVE PlansFit'
  <2>1. PlanFits(Idle)
    BY IdleType, PlanFitsBetweenPaths DEF Idle
  <2> QED
    BY <1>3, <2>1 DEF Crash, PlansFit
<1>4. CASE UNCHANGED vars
  BY <1>4 DEF vars, PlansFit
<1> QED
  BY <1>1, <1>2, <1>3, <1>4 DEF Next, FaultStep, StepOf

\* Whatever happens around it, a run is at a call of the branch it chose, and the
\* listing and the entry it chose it by are those it still holds.
THEOREM CallsFitBranches == Spec => []PlansFit
<1>1. Init => PlansFit
  <2>1. PlanFits(Idle)
    BY IdleType, PlanFitsBetweenPaths DEF Idle
  <2> QED
    BY <2>1 DEF Init, PlansFit
<1> QED
  BY <1>1, PlansFitStep, TypeCorrect, PTL DEF Spec
-----------------------------------------------------------------------------
(* What a run does with a call of its path *)

\* A call leaves the listings and the path as they are.  The run then leaves the
\* path, or goes on to the next call of the branch.
LEMMA CallStep ==
  ASSUME TypeOK, PlansFit, NEW r \in Runs, StepOf(r), run[r].pc \in Calls
  PROVE  LET i == run[r]  j == run'[r]
         IN /\ j.listing = i.listing /\ j.listL = i.listL /\ j.listR = i.listR
            /\ j.done = i.done /\ j.path = i.path
            /\ j.pc \notin {"loop", "checkpoint"} => j.next = i.next /\ UNCHANGED stored
            /\ \/ j.pc \in {"loop", "checkpoint"}
               \/ /\ i.pc = "download" /\ j.pc \in {"writeLocal", "copy"}
                  /\ j.dl = Rev(i.path) /\ j.plan = i.plan
                  /\ UNCHANGED <<local, remote, copies>>
               \/ /\ i.pc = "download" /\ j.pc = "read" /\ j.plan = "compare"
                  /\ j.dl = Rev(i.path)
                  /\ UNCHANGED <<local, remote, copies>>
               \/ /\ i.pc = "read" /\ i.plan = "compare" /\ j.pc = "copy"
                  /\ j.plan = "conflict" /\ j.dl = i.dl
                  /\ UNCHANGED <<local, remote, copies>>
               \/ /\ i.pc = "read" /\ i.plan # "compare" /\ j.pc = "upload"
                  /\ j.data = local[Owner[r]][i.path].content /\ j.plan = i.plan
                  /\ UNCHANGED <<local, remote, copies>>
               \/ /\ i.pc = "copy" /\ j.pc = "read" /\ j.plan = "conflict" /\ j.dl = i.dl
                  /\ WritesCopy(r)
               \/ /\ i.pc = "upload" /\ j.pc = "head" /\ j.data = i.data /\ ~EtagInPut
                  /\ UNCHANGED <<local, copies>>
<1> DEFINE i == run[r]
           Same(j) == /\ j.listing = i.listing /\ j.listL = i.listL /\ j.listR = i.listR
                      /\ j.done = i.done /\ j.path = i.path
           Left(j) == Same(j) /\ j.pc \in {"loop", "checkpoint"}
           On(j) == Same(j) /\ j.next = i.next
<1>1. i \in Invocations /\ run \in [Runs -> Invocations] /\ PlanFits(i)
  BY DEF TypeOK, PlansFit
<1>2. \A j : Becomes(r, j) => run'[r] = j
  BY <1>1 DEF Becomes
<1>3. /\ Left(Skipped(i)) /\ (\A e : Left(Finished(i, e)))
      /\ \A n : Left([Skipped(i) EXCEPT !.since = n])
  BY <1>1 DEF Skipped, Finished, Invocations
<1> HIDE DEF Left, Same, On
<1>4. i.pc \in Calls
  OBVIOUS
<1>5. CASE Left(run'[r])
  BY <1>5 DEF Left, Same
<1>6. CASE Download(r)
  <2> DEFINE pc == CASE i.plan = "fetch"   -> "writeLocal"
                     [] i.plan = "compare" -> "read"
                     [] OTHER              -> "copy"
             j == [i EXCEPT !.dl = Rev(i.path), !.pc = pc]
  <2>1. i.pc = "download" /\ UNCHANGED <<local, remote, stored, copies>>
        /\ (run'[r] = Skipped(i) \/ run'[r] = j)
    BY <1>2, <1>6 DEF Download
  <2>2. pc \in {"writeLocal", "copy"} \/ (pc = "read" /\ i.plan = "compare")
    OBVIOUS
  <2> HIDE DEF pc
  <2>3. On(j) /\ j.dl = Rev(i.path) /\ j.plan = i.plan /\ j.pc = pc
    BY <1>1 DEF Invocations, Same, On
  <2> HIDE DEF j
  <2>4. CASE run'[r] = j
    BY <2>1, <2>2, <2>3, <2>4 DEF Same, On
  <2> QED
    BY <1>3, <1>5, <2>1, <2>4
<1>7. CASE Read(r)
  <2> DEFINE c == local[Owner[r]][i.path].content
             j == [i EXCEPT !.plan = "conflict", !.pc = "copy"]
             k == [i EXCEPT !.data = c, !.pc = "upload"]
  <2>1. /\ i.pc = "read" /\ UNCHANGED <<local, remote, stored, copies>>
        /\ \/ run'[r] = Skipped(i)
           \/ run'[r] = Finished(i, Recorded(r, i.dl))
           \/ i.plan = "compare" /\ run'[r] = j
           \/ i.plan # "compare" /\ run'[r] = k
    BY <1>2, <1>7 DEF Read
  <2>2. On(j) /\ j.pc = "copy" /\ j.plan = "conflict" /\ j.dl = i.dl
    BY <1>1 DEF Invocations, Same, On
  <2>3. On(k) /\ k.pc = "upload" /\ k.plan = i.plan /\ k.data = c
    BY <1>1 DEF Invocations, Same, On
  <2> HIDE DEF j, k
  <2>4. CASE i.plan = "compare" /\ run'[r] = j
    BY <2>1, <2>2, <2>4 DEF Same, On
  <2>5. CASE i.plan # "compare" /\ run'[r] = k
    BY <2>1, <2>3, <2>5 DEF Same, On
  <2> QED
    BY <1>3, <1>5, <2>1, <2>4, <2>5
<1>8. CASE Copy(r)
  <2> DEFINE j == [i EXCEPT !.pc = "read"]
  <2>1. i.pc = "copy" /\ run'[r] = j
    BY <1>2, <1>8 DEF Copy, Goto
  <2>2. WritesCopy(r)
    BY <1>8 DEF Copy, WritesCopy
  <2>3. i.plan = "conflict"
    BY <1>1, <2>1 DEF PlanFits
  <2>4. On(j) /\ j.pc = "read" /\ j.plan = i.plan /\ j.dl = i.dl
    BY <1>1 DEF Invocations, Same, On
  <2> HIDE DEF j
  <2> QED
    BY <2>1, <2>2, <2>3, <2>4 DEF Same, On, WritesCopy
<1>9. CASE Upload(r)
  <2> DEFINE j == [i EXCEPT !.pc = "head"]
             e == Recorded(r, remote'[i.path])
  <2>1. /\ i.pc = "upload" /\ UNCHANGED <<local, stored, copies>>
        /\ \/ run'[r] = Skipped(i)
           \/ run'[r] = Finished(i, e)
           \/ ~EtagInPut /\ run'[r] = j
    BY <1>2, <1>9 DEF Upload
  <2>2. On(j) /\ j.pc = "head" /\ j.data = i.data
    BY <1>1 DEF Invocations, Same, On
  <2> HIDE DEF j, e
  <2>3. CASE ~EtagInPut /\ run'[r] = j
    BY <2>1, <2>2, <2>3 DEF Same, On
  <2> QED
    BY <1>3, <1>5, <2>1, <2>3
<1>10. CASE WriteLocal(r) \/ Head(r) \/ DeleteLocal(r) \/ DeleteRemote(r)
  BY <1>2, <1>3, <1>5, <1>10 DEF WriteLocal, Head, DeleteLocal, DeleteRemote
<1>11. CASE Checkpoint(r)
  BY <1>2, <1>3, <1>5, <1>11 DEF Checkpoint
<1>12. CASE CallFails(r) \/ AnswerLost(r)
  BY <1>2, <1>3, <1>4, <1>5, <1>12 DEF CallFails, AnswerLost, Calls
<1>13. ~Start(r) /\ ~StateUnreadable(r)
  BY <1>4 DEF Start, StateUnreadable, Begin, MayStart, Calls
<1>14. ~ListLocal(r) /\ ~ListRemote(r) /\ ~Finish(r) /\ ~(\E p \in Paths : Take(r, p))
  BY <1>4 DEF ListLocal, ListRemote, Listed, Finish, Take, Calls
<1> QED
  BY <1>6, <1>7, <1>8, <1>9, <1>10, <1>11, <1>12, <1>13, <1>14 DEF StepOf, SyncStep

\* Outside the calls a run starts, lists one side, takes a path it had not taken,
\* or ends; it writes nothing but its state.
LEMMA NoCallStep ==
  ASSUME TypeOK, PlansFit, NEW r \in Runs, StepOf(r), run[r].pc \notin Calls
  PROVE  LET i == run[r]  j == run'[r]
         IN /\ UNCHANGED <<local, remote, copies>>
            /\ j.pc # "idle" => UNCHANGED stored
            /\ \/ j.pc = "idle"
               \/ j.pc = "list" /\ j.listing = {"local", "remote"}
               \/ /\ i.pc = "list" /\ j.pc \in {"list", "loop"}
                  /\ j.done = i.done /\ j.path = i.path /\ j.listR = i.listR
                  /\ j.listing = i.listing \ {"local"}
                  /\ j.listL = [p \in Paths |-> Mtime(Owner[r], p)]
               \/ /\ i.pc = "list" /\ j.pc \in {"list", "loop"}
                  /\ j.done = i.done /\ j.path = i.path /\ j.listL = i.listL
                  /\ j.listing = i.listing \ {"remote"}
                  /\ j.listR = [p \in Paths |-> Rev(p)]
               \/ /\ i.pc = "loop" /\ i.listing = {} /\ j.listing = {}
                  /\ j.listL = i.listL /\ j.listR = i.listR
                  /\ j.path \in Paths \ i.done /\ j.done = i.done \cup {j.path}
                  /\ j.pc \in {"download", "read", "deleteLocal", "deleteRemote",
                               "checkpoint", "loop"}
                  /\ j.pc = "read" => j.plan \in {"add", "update"}
<1> DEFINE i == run[r]
<1>1. /\ i \in Invocations /\ run \in [Runs -> Invocations] /\ PlanFits(i)
      /\ i.listR \in [Paths -> Versions] /\ i.listL \in [Paths -> Nat]
      /\ i.next \in [Paths -> Entries]
  BY DEF TypeOK, PlansFit, Invocations
<1>2. \A j : Becomes(r, j) => run'[r] = j
  BY <1>1 DEF Becomes
<1>3. i.pc \in {"idle", "list", "loop"}
  BY <1>1 DEF Invocations
<1>4. CASE Start(r) \/ StateUnreadable(r)
  <2>1. \A state : LET b == [Idle EXCEPT !.pc = "list", !.listing = {"local", "remote"},
                                         !.next = state]
                   IN b.pc = "list" /\ b.listing = {"local", "remote"}
    BY DEF Idle
  <2>2. /\ UNCHANGED <<local, remote, stored, copies>>
        /\ \E state : run'[r] = [Idle EXCEPT !.pc = "list",
                                             !.listing = {"local", "remote"}, !.next = state]
    BY <1>2, <1>4 DEF Start, StateUnreadable, Begin
  <2> QED
    BY <2>1, <2>2
<1>5. CASE ListLocal(r)
  <2> DEFINE l == [p \in Paths |-> Mtime(Owner[r], p)]
             a == AfterListing(i, "local")
             j == [a EXCEPT !.listL = l]
  <2>1. i.pc = "list" /\ run'[r] = j /\ UNCHANGED <<local, remote, stored, copies>>
    BY <1>2, <1>5 DEF ListLocal, Listed
  <2>2. /\ a \in Invocations /\ a.pc \in {"list", "loop"} /\ a.done = i.done
        /\ a.path = i.path /\ a.listR = i.listR /\ a.listing = i.listing \ {"local"}
    BY <1>1, AfterListingType DEF AfterListing, Invocations
  <2> HIDE DEF l, a
  <2>3. /\ j.pc = a.pc /\ j.done = a.done /\ j.path = a.path /\ j.listR = a.listR
        /\ j.listing = a.listing /\ j.listL = l
    BY <2>2 DEF Invocations
  <2> HIDE DEF j
  <2> QED
    BY <2>1, <2>2, <2>3 DEF l
<1>6. CASE ListRemote(r)
  <2> DEFINE l == [p \in Paths |-> Rev(p)]
             a == AfterListing(i, "remote")
             j == [a EXCEPT !.listR = l]
  <2>1. i.pc = "list" /\ run'[r] = j /\ UNCHANGED <<local, remote, stored, copies>>
    BY <1>2, <1>6 DEF ListRemote, Listed
  <2>2. /\ a \in Invocations /\ a.pc \in {"list", "loop"} /\ a.done = i.done
        /\ a.path = i.path /\ a.listL = i.listL /\ a.listing = i.listing \ {"remote"}
    BY <1>1, AfterListingType DEF AfterListing, Invocations
  <2> HIDE DEF l, a
  <2>3. /\ j.pc = a.pc /\ j.done = a.done /\ j.path = a.path /\ j.listL = a.listL
        /\ j.listing = a.listing /\ j.listR = l
    BY <2>2 DEF Invocations
  <2> HIDE DEF j
  <2> QED
    BY <2>1, <2>2, <2>3 DEF l
<1>7. CASE \E p \in Paths : Take(r, p)
  <2> PICK q \in Paths : Take(r, q)
    BY <1>7
  <2> DEFINE plan == Plan(i.listL[q], i.listR[q], i.next[q])
             e == IF plan = "forget" THEN NoEntry ELSE i.next[q]
             j == [i EXCEPT !.done = @ \cup {q}, !.path = q, !.plan = plan,
                            !.pc = FirstCall(plan), !.next[q] = e]
  <2>1. /\ i.pc = "loop" /\ q \notin i.done /\ run'[r] = j
        /\ UNCHANGED <<local, remote, stored, copies>>
    BY <1>2 DEF Take, Remaining
  <2>2. i.listing = {}
    BY <1>1, <2>1 DEF PlanFits
  <2>3. plan \in Plans
    BY <1>1, PlanType
  <2> HIDE DEF e, plan
  <2> DEFINE pc == FirstCall(plan)
  <2>4. /\ pc \in {"download", "read", "deleteLocal", "deleteRemote", "checkpoint", "loop"}
        /\ pc = "read" => plan \in {"add", "update"}
    BY <2>3, FirstCalls
  <2> HIDE DEF pc
  <2>5. /\ j.listing = i.listing /\ j.listL = i.listL /\ j.listR = i.listR /\ j.path = q
        /\ j.done = i.done \cup {q} /\ j.plan = plan /\ j.pc = pc
    BY <1>1 DEF Invocations, pc
  <2> HIDE DEF j
  <2> QED
    BY <2>1, <2>2, <2>4, <2>5
<1>8. CASE Finish(r)
  BY <1>2, <1>8 DEF Finish, Idle
<1>9. CASE CallFails(r)
  BY <1>2, <1>9 DEF CallFails, Idle
<1>10. /\ ~Download(r) /\ ~WriteLocal(r) /\ ~Read(r) /\ ~Copy(r) /\ ~Upload(r)
       /\ ~Head(r) /\ ~DeleteLocal(r) /\ ~DeleteRemote(r) /\ ~Checkpoint(r)
       /\ ~AnswerLost(r)
  BY <1>3 DEF Download, WriteLocal, Read, Copy, Upload, Head, DeleteLocal, DeleteRemote,
              Checkpoint, AnswerLost, Calls
<1> QED
  BY <1>4, <1>5, <1>6, <1>7, <1>8, <1>9, <1>10 DEF StepOf, SyncStep
-----------------------------------------------------------------------------
(* No edit is lost when nobody touches what a run works on *)

\* One run at a time, and no user edits on a device while it syncs.
Quiet == OneAtATime /\ ~EditDuringSync

\* A path whose listing a run still relies on.
InHand(i, p) ==
  \/ p \notin i.done
  \/ p = i.path /\ i.pc \in Calls \ {"checkpoint", "head"}

\* What a run has listed, downloaded and read is still what is there; a conflict
\* is resolved by a copy that exists.
QuietRun(i, d) ==
  LET p == i.path
  IN /\ \A q \in Paths : InHand(i, q) =>
          /\ "remote" \notin i.listing => i.listR[q] = Rev(q)
          /\ "local" \notin i.listing => i.listL[q] = Mtime(d, q)
     /\ i.pc \in {"copy", "writeLocal"} \/ (i.pc = "read" /\ i.plan = "compare") =>
          i.dl = Rev(p)
     /\ i.pc \in {"read", "upload"} /\ i.plan = "conflict" /\ p \notin Binary =>
          remote[p].content \subseteq Kept(p)
     /\ i.pc \in {"upload", "head"} => i.data = local[d][p].content

\* An entry may justify a deletion or an overwriting: the wanted edits of the rev
\* it records are on the device and in the cloud, or in a .conflict file.
Trusted(e, d, p) ==
  e.rev.content \cap wanted[p] \subseteq
    (local[d][p].content \cap remote[p].content) \cup Kept(p)

EntriesTrusted ==
  /\ \A d \in Devices, p \in Paths \ Binary : Trusted(stored[d][p], d, p)
  /\ \A r \in Runs, p \in Paths \ Binary : Trusted(run[r].next[p], Owner[r], p)

\* A file that was never written is absent.
Unwritten ==
  \A d \in Devices, p \in Paths : local[d][p].tick = 0 => local[d][p].content = {}

QuietInv ==
  /\ Unwritten /\ EntriesTrusted /\ NoEditLost
  /\ \A r \in Runs : run[r].pc # "idle" => QuietRun(run[r], Owner[r])

\* The invariants proved above.
Background == TypeOK /\ BaseInv /\ HeadKnows /\ EditsMade /\ PlansFit /\ Alone

LEMMA BackgroundAlways == ASSUME OneAtATime PROVE Spec => []Background
BY TypeCorrect, EntriesFit, HeadKnown, EditsMadeAlways, CallsFitBranches, AloneAlways, PTL
   DEF Background

\* A .conflict file, once written, stays.
LEMMA KeptStays ==
  ASSUME NEW r \in Runs, StepOf(r), NEW p \in Paths
  PROVE  /\ Kept(p) \subseteq Kept(p)'
         /\ WritesCopy(r) /\ p = run[r].path /\ p \notin Binary =>
              run[r].dl.content \subseteq Kept(p)'
<1>1. copies \subseteq copies'
  BY OneWrite DEF WritesLocal, WritesRemote, WritesCopy, WritesState
<1>2. WritesCopy(r) /\ p = run[r].path /\ p \notin Binary =>
        [path |-> p, content |-> run[r].dl.content] \in copies'
  BY DEF WritesCopy
<1> QED
  BY <1>1, <1>2 DEF Kept

\* What the call at hand can rely on: the versions that were listed, downloaded
\* and read are those that are there.
LEMMA QuietCall ==
  ASSUME Background, QuietInv, NEW r \in Runs, run[r].pc \in Calls \ {"checkpoint", "head"}
  PROVE  LET i == run[r]  d == Owner[r]  p == run[r].path
         IN /\ i.listR[p] = Rev(p) /\ i.listL[p] = Mtime(d, p)
            /\ i.listL[p] = 0 => local[d][p].content = {}
            /\ i.next[p] # NoEntry /\ i.listL[p] = i.next[p].mtime =>
                 local[d][p].content = i.next[p].rev.content
<1> DEFINE i == run[r]  d == Owner[r]  p == run[r].path
<1>1. /\ i \in Invocations /\ p \in Paths /\ d \in Devices /\ local[d][p] \in Files
      /\ PlanFits(i) /\ RunFits(i, local[d]) /\ Unwritten /\ QuietRun(i, d)
  BY ConstAssumption DEF Background, TypeOK, Invocations, PlansFit, BaseInv, QuietInv, Calls
<1>2. i.listing = {}
  BY <1>1 DEF PlanFits, Calls
<1>3. i.listR[p] = Rev(p) /\ i.listL[p] = Mtime(d, p)
  BY <1>1, <1>2 DEF QuietRun, InHand
<1>4. i.listL[p] = 0 => local[d][p].content = {}
  BY <1>1, <1>3 DEF Mtime, Unwritten, Files
<1>5. Fits(local[d][p], i.next[p])
  BY <1>1 DEF RunFits
<1>6. i.next[p] # NoEntry /\ i.listL[p] = i.next[p].mtime =>
        local[d][p].content = i.next[p].rev.content
  <2> SUFFICES ASSUME i.next[p] # NoEntry, i.next[p].mtime = Mtime(d, p)
               PROVE  local[d][p].content = i.next[p].rev.content
    BY <1>3
  <2>1. /\ i.next[p].mtime \in 1 .. local[d][p].tick
        /\ i.next[p].mtime = local[d][p].tick =>
             local[d][p].content \in {{}, i.next[p].rev.content}
    BY <1>5 DEF Fits
  <2>2. i.next[p].mtime # 0
    BY <2>1
  <2>3. local[d][p].content # {} /\ i.next[p].mtime = local[d][p].tick
    BY <2>2 DEF Mtime
  <2> QED
    BY <2>1, <2>3
<1> QED
  BY <1>3, <1>4, <1>6

\* What a step of a run takes away of a side, wanted edits aside that a .conflict
\* file has, the other side has.
LEMMA QuietKeeps ==
  ASSUME Background, QuietInv, NEW r \in Runs, StepOf(r),
         NEW d \in Devices, NEW p \in Paths \ Binary
  PROVE  /\ remote[p].content \cap wanted[p] \subseteq remote'[p].content \cup Kept(p)'
         /\ local[d][p].content \cap wanted[p] \subseteq
              local'[d][p].content \cup remote'[p].content \cup Kept(p)'
         /\ local[d][p].content \cap remote[p].content \cap wanted[p] \subseteq
              local'[d][p].content \cup Kept(p)'
<1> DEFINE i == run[r]  o == Owner[r]
<1>1. /\ i \in Invocations /\ i.path \in Paths /\ o \in Devices /\ PlanFits(i)
      /\ local \in [Devices -> [Paths -> Files]] /\ remote \in [Paths -> Versions]
  BY ConstAssumption DEF Background, TypeOK, Invocations, PlansFit
<1>2. Kept(p) \subseteq Kept(p)'
  BY KeptStays
<1>3. CASE UNCHANGED <<local, remote>>
  BY <1>2, <1>3
<1>4. CASE p # i.path
  <2>1. local'[d][p] = local[d][p] /\ remote'[p] = remote[p]
    <3>1. CASE WritesLocal(r)
      BY <1>1, <1>4, <3>1 DEF WritesLocal, WriteFile, DeleteFile
    <3>2. CASE WritesRemote(r)
      BY <1>1, <1>4, <3>2 DEF WritesRemote, Put, DropRemote
    <3> QED
      BY <1>3, <3>1, <3>2, OneWrite DEF WritesCopy, WritesState
  <2> QED
    BY <1>2, <2>1
<1>5. p = i.path => Trusted(i.next[p], o, p)
  BY DEF QuietInv, EntriesTrusted
<1>6. CASE WritesLocal(r) /\ p = i.path
  <2>1. UNCHANGED remote /\ i.pc \in {"writeLocal", "deleteLocal"}
    BY <1>6 DEF WritesLocal
  <2>2. CASE d # o
    <3>1. local'[d][p] = local[d][p]
      BY <1>1, <1>6, <2>2 DEF WritesLocal, WriteFile, DeleteFile
    <3> QED
      BY <1>2, <2>1, <3>1
  <2>3. /\ i.listR[p] = Rev(p) /\ i.listL[p] = Mtime(o, p)
        /\ i.listL[p] = 0 => local[o][p].content = {}
        /\ i.next[p] # NoEntry /\ i.listL[p] = i.next[p].mtime =>
             local[o][p].content = i.next[p].rev.content
    BY <1>6, <2>1, QuietCall DEF Calls
  <2>4. CASE d = o /\ i.pc = "writeLocal"
    <3>1. local'[d][p].content = i.dl.content
      BY <1>1, <1>6, <2>4 DEF WritesLocal, WriteFile
    <3>2. i.dl = Rev(p)
      BY <1>6, <2>4 DEF QuietInv, QuietRun
    <3>3. i.dl.content = remote[p].content
      BY <3>2 DEF Rev, NoVersion
    <3>4. i.listL[p] = 0 \/ (i.next[p] # NoEntry /\ i.listL[p] = i.next[p].mtime)
      BY <1>1, <1>6, <2>4 DEF PlanFits
    <3>5. local[o][p].content = {} \/ local[o][p].content = i.next[p].rev.content
      BY <2>3, <3>4
    <3>6. local[o][p].content \cap wanted[p] \subseteq remote[p].content \cup Kept(p)
      BY <1>5, <1>6, <3>5 DEF Trusted
    <3> QED
      BY <1>2, <2>1, <2>4, <3>1, <3>3, <3>6
  <2>5. CASE d = o /\ i.pc = "deleteLocal"
    <3>1. local'[d][p].content = {}
      BY <1>1, <1>6, <2>5 DEF WritesLocal, DeleteFile, Files
    <3>2. /\ i.listR[p] = NoVersion /\ i.next[p] # NoEntry
          /\ i.listL[p] = i.next[p].mtime
      BY <1>1, <1>6, <2>5 DEF PlanFits
    <3>3. remote[p].content = {}
      BY <2>3, <3>2 DEF Rev, NoVersion
    <3>4. local[o][p].content \cap wanted[p] \subseteq Kept(p)
      BY <1>5, <1>6, <2>3, <3>2, <3>3 DEF Trusted
    <3> QED
      BY <1>2, <2>1, <2>5, <3>3, <3>4
  <2> QED
    BY <2>1, <2>2, <2>4, <2>5
<1>7. CASE WritesRemote(r) /\ p = i.path
  <2>1. UNCHANGED local /\ i.pc \in {"upload", "deleteRemote"}
    BY <1>7 DEF WritesRemote
  <2>2. /\ i.listR[p] = Rev(p) /\ i.listL[p] = Mtime(o, p)
        /\ i.listL[p] = 0 => local[o][p].content = {}
    BY <1>7, <2>1, QuietCall DEF Calls
  <2>3. remote[p].content = Rev(p).content
    BY DEF Rev, NoVersion
  <2>4. remote[p].content \cap wanted[p] \subseteq remote'[p].content \cup Kept(p)
    <3>1. CASE i.pc = "upload"
      <4>1. Accepts(r) /\ remote'[p].content = i.data
        BY <1>1, <1>7, <3>1 DEF WritesRemote, Put
      <4>2. i.data = local[o][p].content
        BY <1>7, <3>1 DEF QuietInv, QuietRun
      <4>3. CASE i.plan = "add"
        BY <1>7, <2>3, <4>1, <4>3 DEF Accepts, NoVersion
      <4>4. CASE i.plan = "update"
        <5>1. i.listR[p] = i.next[p].rev
          BY <1>1, <1>7, <3>1, <4>4 DEF PlanFits
        <5> QED
          BY <1>5, <1>7, <2>2, <2>3, <4>1, <4>2, <5>1 DEF Trusted
      <4>5. CASE i.plan = "conflict"
        BY <1>7, <3>1, <4>5 DEF QuietInv, QuietRun
      <4> QED
        BY <1>1, <3>1, <4>3, <4>4, <4>5 DEF PlanFits
    <3>2. CASE i.pc = "deleteRemote"
      <4>1. i.listL[p] = 0 /\ i.listR[p] = i.next[p].rev
        BY <1>1, <1>7, <3>2 DEF PlanFits
      <4> QED
        BY <1>5, <1>7, <2>2, <2>3, <4>1 DEF Trusted
    <3> QED
      BY <2>1, <3>1, <3>2
  <2>5. local[d][p].content \cap wanted[p] \subseteq local'[d][p].content
    BY <2>1
  <2> QED
    BY <1>2, <2>4, <2>5
<1> QED
  BY <1>3, <1>4, <1>6, <1>7, OneWrite DEF WritesCopy, WritesState
\* The entries stay trusted, and those a step makes are.
LEMMA TrustedStepOf ==
  ASSUME Quiet, Background, QuietInv, NEW r \in Runs, StepOf(r) PROVE EntriesTrusted'
<1> DEFINE i == run[r]  o == Owner[r]
<1>1. /\ i \in Invocations /\ i.path \in Paths /\ o \in Devices
      /\ local \in [Devices -> [Paths -> Files]] /\ remote \in [Paths -> Versions]
      /\ stored \in [Devices -> [Paths -> Entries]] /\ wanted' = wanted
  BY ConstAssumption, StepOfOneRun DEF Background, TypeOK, Invocations, StepOf, users
<1>2. ASSUME NEW d \in Devices, NEW p \in Paths \ Binary, NEW e, Trusted(e, d, p)
      PROVE  Trusted(e, d, p)'
  <2>1. /\ remote[p].content \cap wanted[p] \subseteq remote'[p].content \cup Kept(p)'
        /\ local[d][p].content \cap remote[p].content \cap wanted[p] \subseteq
             local'[d][p].content \cup Kept(p)'
        /\ Kept(p) \subseteq Kept(p)'
    BY QuietKeeps, KeptStays
  <2> QED
    BY <1>1, <1>2, <2>1 DEF Trusted
<1>3. ASSUME NEW d \in Devices, NEW p \in Paths PROVE Trusted(NoEntry, d, p)
  BY DEF Trusted, NoEntry, NoVersion
<1>4. ASSUME NEW p \in Paths \ Binary, NEW e, p = i.path, NewEntry(r, e)
      PROVE  Trusted(e, o, p)'
  <2>1. Rev(p).content = remote[p].content
    BY DEF Rev, NoVersion
  <2>2. i.pc \in {"writeLocal", "upload", "read", "head"}
    BY <1>4 DEF NewEntry
  <2>3. QuietRun(i, o)
    BY <2>2 DEF QuietInv
  <2>4. CASE i.pc = "writeLocal"
    <3>1. UNCHANGED remote
      BY <2>4, OneWrite DEF WritesLocal, WritesRemote, WritesCopy, WritesState
    <3>2. local'[o][p].content = i.dl.content /\ e.rev = i.dl
      BY <1>1, <1>4, <2>4 DEF NewEntry, WriteFile
    <3>3. i.dl = Rev(p)
      BY <1>4, <2>3, <2>4 DEF QuietRun
    <3> QED
      BY <2>1, <3>1, <3>2, <3>3 DEF Trusted
  <2>5. CASE i.pc = "read"
    <3>1. UNCHANGED <<local, remote>>
      BY <2>5, OneWrite DEF WritesLocal, WritesRemote, WritesCopy, WritesState
    <3>2. i.plan = "compare" /\ e.rev = i.dl /\ i.dl.content = local[o][p].content
      BY <1>4, <2>5 DEF NewEntry
    <3>3. i.dl = Rev(p)
      BY <1>4, <2>3, <2>5, <3>2 DEF QuietRun
    <3> QED
      BY <2>1, <3>1, <3>2, <3>3 DEF Trusted
  <2>6. CASE i.pc = "upload"
    <3>1. UNCHANGED local
      BY <2>6, OneWrite DEF WritesLocal, WritesRemote, WritesCopy, WritesState
    <3>2. remote'[p].content = i.data /\ e.rev = remote'[p]
      BY <1>1, <1>4, <2>6 DEF NewEntry, Put
    <3>3. i.data = local[o][p].content
      BY <1>4, <2>3, <2>6 DEF QuietRun
    <3> QED
      BY <3>1, <3>2, <3>3 DEF Trusted
  <2>7. CASE i.pc = "head"
    <3>1. UNCHANGED <<local, remote>>
      BY <2>7, OneWrite DEF WritesLocal, WritesRemote, WritesCopy, WritesState
    <3>2. e.rev = Rev(p)
      BY <1>4, <2>7 DEF NewEntry
    <3>3. i.data = local[o][p].content /\ remote[p].content = i.data
      BY <1>4, <2>3, <2>7 DEF QuietRun, Background, HeadKnows
    <3> QED
      BY <2>1, <3>1, <3>2, <3>3 DEF Trusted
  <2> QED
    BY <2>2, <2>4, <2>5, <2>6, <2>7
<1>5. ASSUME NEW d \in Devices, NEW p \in Paths \ Binary PROVE Trusted(stored[d][p], d, p)'
  <2>1. stored'[d][p] = stored[d][p] \/ (d = o /\ stored'[d][p] = i.next[p])
    <3>1. CASE WritesState(r)
      BY <1>1, <3>1 DEF WritesState
    <3> QED
      BY <3>1, OneWrite DEF WritesLocal, WritesRemote, WritesCopy
  <2>2. Trusted(stored[d][p], d, p) /\ Trusted(i.next[p], o, p)
    BY DEF QuietInv, EntriesTrusted
  <2>3. ASSUME NEW e, Trusted(e, d, p), stored'[d][p] = e PROVE Trusted(stored[d][p], d, p)'
    BY <1>2, <2>3 DEF Trusted
  <2> QED
    BY <2>1, <2>2, <2>3
<1>6. ASSUME NEW q \in Runs, NEW p \in Paths \ Binary
      PROVE  Trusted(run[q].next[p], Owner[q], p)'
  <2>1. Owner[q] \in Devices
    BY ConstAssumption
  <2>2. Trusted(run[q].next[p], Owner[q], p)
    BY DEF QuietInv, EntriesTrusted
  <2>3. ASSUME NEW e, Trusted(e, Owner[q], p), run'[q].next[p] = e
        PROVE  Trusted(run[q].next[p], Owner[q], p)'
    BY <1>2, <2>1, <2>3 DEF Trusted
  <2>4. CASE q # r
    <3>1. run'[q] = run[q]
      BY <2>4, OthersStay DEF StepOf, Background
    <3> QED
      BY <2>2, <2>3, <3>1
  <2>5. CASE q = r
    <3>1. CASE p = i.path /\ NewEntry(r, run'[r].next[p])
      BY <1>4, <2>5, <3>1 DEF Trusted
    <3>2. Trusted(NoEntry, o, p) /\ Trusted(stored[o][p], o, p)
      BY <1>1, <1>3 DEF QuietInv, EntriesTrusted
    <3>3. CASE run'[r].next[p] = i.next[p] \/ run'[r].next[p] \in {NoEntry, stored[o][p]}
      BY <2>2, <2>3, <2>5, <3>2, <3>3
    <3> QED
      BY <3>1, <3>3, EntriesOfStep DEF Background
  <2> QED
    BY <2>4, <2>5
<1> QED
  BY <1>5, <1>6 DEF EntriesTrusted

\* What the run holds goes on to be what is there.
LEMMA QuietRunStepOf ==
  ASSUME Quiet, Background, QuietInv, NEW r \in Runs, StepOf(r), run'[r].pc # "idle"
  PROVE  QuietRun(run[r], Owner[r])'
<1> DEFINE i == run[r]  d == Owner[r]  p == run[r].path
<1> SUFFICES ASSUME NEW j, j = run'[r] PROVE QuietRun(j, d)'
  BY DEF QuietRun, InHand
<1>1. /\ i \in Invocations /\ p \in Paths /\ d \in Devices /\ PlanFits(i)
      /\ local \in [Devices -> [Paths -> Files]] /\ remote \in [Paths -> Versions]
      /\ TypeOK /\ PlansFit
  BY ConstAssumption DEF Background, TypeOK, Invocations, PlansFit
<1>2. \A q : Rev(q)' = IF remote'[q].content = {} THEN NoVersion ELSE remote'[q]
  BY DEF Rev
<1>3. UNCHANGED remote => \A q : Rev(q)' = Rev(q)
  BY DEF Rev
<1>4. UNCHANGED local => \A q : Mtime(d, q)' = Mtime(d, q)
  BY DEF Mtime
<1>5. CASE i.pc \notin Calls
  <2>1. UNCHANGED <<local, remote>>
    BY <1>1, <1>5, NoCallStep
  <2>2. i.pc # "idle" => QuietRun(i, d)
    BY DEF QuietInv
  <2>3. i.pc # "idle" => \A q \in Paths : q \notin i.done =>
          /\ "remote" \notin i.listing => i.listR[q] = Rev(q)'
          /\ "local" \notin i.listing => i.listL[q] = Mtime(d, q)'
    BY <1>3, <1>4, <2>1, <2>2 DEF QuietRun, InHand
  <2>4. /\ j.pc \notin {"copy", "writeLocal", "upload", "head"}
        /\ j.pc = "read" => j.plan \in {"add", "update"}
    BY <1>1, <1>5, NoCallStep
  <2>5. ASSUME NEW q \in Paths, InHand(j, q)
        PROVE  /\ "remote" \notin j.listing => j.listR[q] = Rev(q)'
               /\ "local" \notin j.listing => j.listL[q] = Mtime(d, q)'
    <3>1. CASE j.pc = "list" /\ j.listing = {"local", "remote"}
      BY <3>1
    <3>2. CASE /\ i.pc = "list" /\ j.pc \in {"list", "loop"}
               /\ j.done = i.done /\ j.path = i.path /\ j.listR = i.listR
               /\ j.listing = i.listing \ {"local"}
               /\ j.listL = [x \in Paths |-> Mtime(Owner[r], x)]
      BY <1>4, <2>1, <2>3, <2>5, <3>2 DEF InHand, Calls
    <3>3. CASE /\ i.pc = "list" /\ j.pc \in {"list", "loop"}
               /\ j.done = i.done /\ j.path = i.path /\ j.listL = i.listL
               /\ j.listing = i.listing \ {"remote"}
               /\ j.listR = [x \in Paths |-> Rev(x)]
      BY <1>3, <2>1, <2>3, <2>5, <3>3 DEF InHand, Calls
    <3>4. CASE /\ i.pc = "loop" /\ i.listing = {} /\ j.listing = {}
               /\ j.listL = i.listL /\ j.listR = i.listR
               /\ j.path \in Paths \ i.done /\ j.done = i.done \cup {j.path}
      <4>1. q \notin i.done
        BY <2>5, <3>4 DEF InHand
      <4> QED
        BY <2>3, <3>4, <4>1
    <3> QED
      BY <1>1, <1>5, <3>1, <3>2, <3>3, <3>4, NoCallStep
  <2> QED
    BY <2>4, <2>5 DEF QuietRun
<1>6. CASE i.pc \in Calls
  <2>1. QuietRun(i, d) /\ p \in i.done /\ i.listing = {}
    BY <1>1, <1>6 DEF QuietInv, PlanFits, Calls
  <2>2. /\ j.listing = i.listing /\ j.listL = i.listL /\ j.listR = i.listR
        /\ j.done = i.done /\ j.path = i.path
    BY <1>1, <1>6, CallStep
  <2>3. ASSUME NEW q \in Paths, q # p PROVE Rev(q)' = Rev(q) /\ Mtime(d, q)' = Mtime(d, q)
    <3>1. local'[d][q] = local[d][q]
      <4>1. CASE WritesLocal(r)
        BY <1>1, <2>3, <4>1 DEF WritesLocal, WriteFile, DeleteFile
      <4> QED
        BY <4>1, OneWrite DEF WritesRemote, WritesCopy, WritesState
    <3>2. remote'[q] = remote[q]
      <4>1. CASE WritesRemote(r)
        BY <1>1, <2>3, <4>1 DEF WritesRemote, Put, DropRemote
      <4> QED
        BY <4>1, OneWrite DEF WritesLocal, WritesCopy, WritesState
    <3> QED
      BY <3>1, <3>2 DEF Rev, Mtime
  <2>4. ASSUME NEW q \in Paths, q \notin j.done
        PROVE  j.listR[q] = Rev(q)' /\ j.listL[q] = Mtime(d, q)'
    <3>1. q # p /\ q \notin i.done
      BY <2>1, <2>2, <2>4
    <3>2. i.listR[q] = Rev(q) /\ i.listL[q] = Mtime(d, q)
      BY <2>1, <3>1 DEF QuietRun, InHand
    <3> QED
      BY <2>2, <2>3, <3>1, <3>2
  <2>5. CASE j.pc \in {"loop", "checkpoint"}
    BY <2>4, <2>5 DEF QuietRun, InHand, Calls
  <2>6. i.pc \in {"download", "read", "copy"} /\ UNCHANGED <<local, remote>> =>
          \A q \in Paths : InHand(j, q) => /\ j.listR[q] = Rev(q)'
                                           /\ j.listL[q] = Mtime(d, q)'
    <3> SUFFICES ASSUME i.pc \in {"download", "read", "copy"}, UNCHANGED <<local, remote>>,
                        NEW q \in Paths, InHand(j, q)
                 PROVE  j.listR[q] = Rev(q)' /\ j.listL[q] = Mtime(d, q)'
      OBVIOUS
    <3>1. InHand(i, q)
      BY <2>2 DEF InHand, Calls
    <3> QED
      BY <1>3, <1>4, <2>1, <2>2, <3>1 DEF QuietRun
  <2>7. CASE /\ i.pc = "download" /\ j.pc \in {"writeLocal", "copy"}
             /\ j.dl = Rev(i.path) /\ j.plan = i.plan
             /\ UNCHANGED <<local, remote, copies>>
    <3>1. j.dl = Rev(j.path)'
      BY <1>3, <2>2, <2>7
    <3> QED
      BY <2>6, <2>7, <3>1 DEF QuietRun
  <2>8. CASE /\ i.pc = "download" /\ j.pc = "read" /\ j.plan = "compare"
             /\ j.dl = Rev(i.path) /\ UNCHANGED <<local, remote, copies>>
    <3>1. j.dl = Rev(j.path)'
      BY <1>3, <2>2, <2>8
    <3> QED
      BY <2>6, <2>8, <3>1 DEF QuietRun
  <2>9. CASE /\ i.pc = "read" /\ i.plan = "compare" /\ j.pc = "copy"
             /\ j.plan = "conflict" /\ j.dl = i.dl
             /\ UNCHANGED <<local, remote, copies>>
    <3>1. j.dl = Rev(j.path)'
      BY <1>3, <2>1, <2>2, <2>9 DEF QuietRun
    <3> QED
      BY <2>6, <2>9, <3>1 DEF QuietRun
  <2>10. CASE /\ i.pc = "read" /\ i.plan # "compare" /\ j.pc = "upload"
              /\ j.data = local[Owner[r]][i.path].content /\ j.plan = i.plan
              /\ UNCHANGED <<local, remote, copies>>
    <3>1. j.data = local'[d][j.path].content
      BY <2>2, <2>10
    <3>2. j.plan = "conflict" /\ j.path \notin Binary =>
            remote'[j.path].content \subseteq Kept(j.path)'
      BY <2>1, <2>2, <2>10 DEF QuietRun, Kept
    <3> QED
      BY <2>6, <2>10, <3>1, <3>2 DEF QuietRun
  <2>11. CASE /\ i.pc = "copy" /\ j.pc = "read" /\ j.plan = "conflict" /\ j.dl = i.dl
              /\ WritesCopy(r)
    <3>1. UNCHANGED <<local, remote>>
      BY <2>11 DEF WritesCopy
    <3>2. Rev(p).content = remote[p].content
      BY DEF Rev, NoVersion
    <3>3. i.dl.content = remote[p].content
      BY <2>1, <2>11, <3>2 DEF QuietRun
    <3>4. ASSUME NEW q \in Paths, q = p, q \notin Binary
          PROVE  remote'[q].content \subseteq Kept(q)'
      BY <2>11, <3>1, <3>3, <3>4, KeptStays
    <3> QED
      BY <1>1, <2>2, <2>6, <2>11, <3>1, <3>4 DEF QuietRun
  <2>12. CASE i.pc = "upload" /\ j.pc = "head" /\ j.data = i.data /\ UNCHANGED local
    <3>1. j.data = local'[d][j.path].content
      BY <2>1, <2>2, <2>12 DEF QuietRun
    <3> QED
      BY <2>4, <2>12, <3>1 DEF QuietRun, InHand
  <2> QED
    BY <1>1, <1>6, <2>5, <2>7, <2>8, <2>9, <2>10, <2>11, <2>12, CallStep
<1> QED
  BY <1>5, <1>6
\* Users work on devices that do not sync.
LEMMA QuietUserStep ==
  ASSUME Quiet, Background, QuietInv, UserStep PROVE QuietInv'
<1> PICK d \in Devices, p \in Paths : (\E c \in Contents : Save(d, p, c)) \/ Delete(d, p)
  BY DEF UserStep
<1> DEFINE old == local[d][p].content
<1>1. /\ local \in [Devices -> [Paths -> Files]] /\ wanted \in [Paths -> Contents]
      /\ edits \in Nat /\ EditsMade
  BY ConstAssumption DEF Background, TypeOK
<1>2. ~Busy(d) /\ UNCHANGED <<remote, stored, copies, run>>
  BY DEF Save, Delete, UserMay, Quiet
<1>3. PICK c : /\ local'[d][p].content = c
               /\ local'[d][p].tick = 0 => old = {} /\ c = {}
               /\ \A e \in Devices, q \in Paths :
                    e # d \/ q # p => local'[e][q] = local[e][q]
               /\ c \subseteq old \cup {edits + 1}
               /\ wanted' = [wanted EXCEPT ![p] = (@ \ (old \ c)) \cup (c \ old)]
  <2>1. ASSUME NEW c \in Contents, Save(d, p, c)
        PROVE  /\ local'[d][p].content = c /\ local'[d][p].tick # 0
               /\ \A e \in Devices, q \in Paths :
                    e # d \/ q # p => local'[e][q] = local[e][q]
               /\ c \subseteq old \cup {edits + 1}
               /\ wanted' = [wanted EXCEPT ![p] = (@ \ (old \ c)) \cup (c \ old)]
    <3>1. local' = [local EXCEPT ![d][p] = [tick |-> local[d][p].tick + 1, content |-> c]]
      BY <2>1 DEF Save, WriteFile
    <3>2. local[d][p].tick \in Nat
      BY <1>1 DEF Files
    <3> QED
      BY <1>1, <2>1, <3>1, <3>2 DEF Save
  <2>2. CASE Delete(d, p)
    <3>1. local' = [local EXCEPT ![d][p].content = {}]
      BY <2>2 DEF Delete, DeleteFile
    <3>2. local'[d][p].content = {} /\ local'[d][p].tick = local[d][p].tick
      BY <1>1, <3>1 DEF Files
    <3>3. \A e \in Devices, q \in Paths : e # d \/ q # p => local'[e][q] = local[e][q]
      BY <1>1, <3>1
    <3>4. wanted' = [wanted EXCEPT ![p] = (@ \ (old \ {})) \cup ({} \ old)]
      BY <2>2 DEF Delete
    <3>5. local[d][p].tick = 0 => old = {}
      BY DEF QuietInv, Unwritten
    <3> QED
      BY <3>2, <3>3, <3>4, <3>5
  <2> QED
    BY <2>1, <2>2
<1>4. \A q \in Paths : Kept(q)' = Kept(q)
  BY <1>2 DEF Kept
<1>5. /\ wanted'[p] = (wanted[p] \ (old \ c)) \cup (c \ old)
      /\ \A q \in Paths : q # p => wanted'[q] = wanted[q]
  BY <1>1, <1>3
<1>6. ASSUME NEW e \in Devices, NEW q \in Paths, NEW s, Trusted(s, e, q),
             Made(s.rev.content, edits)
      PROVE  Trusted(s, e, q)'
  <2>1. CASE q # p
    BY <1>2, <1>3, <1>4, <1>5, <1>6, <2>1 DEF Trusted
  <2>2. CASE q = p
    <3>1. edits + 1 \notin s.rev.content
      BY <1>1, <1>6 DEF Made
    <3>2. s.rev.content \cap wanted'[p] \subseteq wanted[p] \ (old \ c)
      BY <1>3, <1>5, <3>1
    <3>3. local[e][p].content \cap wanted'[p] \cap s.rev.content \subseteq
            local'[e][p].content
      BY <1>3, <3>2
    <3> QED
      BY <1>2, <1>4, <1>6, <2>2, <3>2, <3>3 DEF Trusted
  <2> QED
    BY <2>1, <2>2
<1>7. ASSUME NEW e \in Devices, NEW q \in Paths \ Binary
      PROVE  Trusted(stored[e][q], e, q)'
  <2>1. Trusted(stored[e][q], e, q) /\ Made(stored[e][q].rev.content, edits)
    BY <1>1 DEF QuietInv, EntriesTrusted, EditsMade
  <2> QED
    BY <1>2, <1>6, <2>1 DEF Trusted
<1>8. ASSUME NEW r \in Runs, NEW q \in Paths \ Binary
      PROVE  Trusted(run[r].next[q], Owner[r], q)'
  <2>1. Trusted(run[r].next[q], Owner[r], q) /\ Made(run[r].next[q].rev.content, edits)
    BY <1>1 DEF QuietInv, EntriesTrusted, EditsMade, RunMade
  <2> QED
    BY <1>2, <1>6, <2>1, ConstAssumption DEF Trusted
<1>9. Unwritten'
  <2>1. ASSUME NEW e \in Devices, NEW q \in Paths, local'[e][q].tick = 0
        PROVE  local'[e][q].content = {}
    BY <1>3, <2>1 DEF QuietInv, Unwritten
  <2> QED
    BY <2>1 DEF Unwritten
<1>10. NoEditLost'
  <2>1. ASSUME NEW q \in Paths \ Binary, NEW x \in wanted'[q]
        PROVE  \/ x \in remote'[q].content \cup Kept(q)'
               \/ \E e \in Devices : x \in local'[e][q].content
    <3>1. x \in wanted[q] =>
            x \in remote[q].content \cup Kept(q) \/ \E e \in Devices : x \in local[e][q].content
      BY DEF QuietInv, NoEditLost
    <3>2. CASE q # p
      BY <1>2, <1>3, <1>4, <1>5, <2>1, <3>1, <3>2
    <3>3. CASE q = p /\ x \in c
      BY <1>3, <3>3
    <3>4. CASE q = p /\ x \notin c
      <4>1. x \in wanted[p] /\ x \notin old
        BY <1>5, <2>1, <3>4
      <4> QED
        BY <1>2, <1>3, <1>4, <3>1, <3>4, <4>1
    <3> QED
      BY <3>2, <3>3, <3>4
  <2> QED
    BY <2>1 DEF NoEditLost
<1>11. ASSUME NEW r \in Runs, run'[r].pc # "idle" PROVE QuietRun(run[r], Owner[r])'
  <2>1. Owner[r] # d /\ QuietRun(run[r], Owner[r]) /\ Owner[r] \in Devices
    BY <1>2, <1>11, ConstAssumption DEF Busy, QuietInv
  <2>2. run[r].path \in Paths
    BY DEF Background, TypeOK, Invocations
  <2>3. \A q \in Paths : local'[Owner[r]][q] = local[Owner[r]][q]
    BY <1>3, <2>1
  <2>4. \A q \in Paths : Rev(q)' = Rev(q) /\ Mtime(Owner[r], q)' = Mtime(Owner[r], q)
    BY <1>2, <2>3 DEF Rev, Mtime
  <2> SUFFICES ASSUME NEW j, j = run[r], j = run'[r], j.path \in Paths,
                      QuietRun(j, Owner[r])
               PROVE  QuietRun(j, Owner[r])'
    BY <1>2, <2>1, <2>2 DEF QuietRun, InHand
  <2> QED
    BY <1>2, <1>4, <2>3, <2>4 DEF QuietRun
<1> QED
  BY <1>7, <1>8, <1>9, <1>10, <1>11 DEF QuietInv, EntriesTrusted

LEMMA QuietStepOf ==
  ASSUME Quiet, Background, QuietInv, NEW r \in Runs, StepOf(r) PROVE QuietInv'
<1>1. /\ local \in [Devices -> [Paths -> Files]] /\ run \in [Runs -> Invocations]
      /\ wanted' = wanted
  BY StepOfOneRun DEF Background, TypeOK, StepOf, users
<1>2. EntriesTrusted'
  BY TrustedStepOf
<1>3. Unwritten'
  <2>1. ASSUME NEW d \in Devices, NEW p \in Paths, local'[d][p].tick = 0
        PROVE  local'[d][p].content = {}
    <3>1. local[d][p].tick = 0 => local[d][p].content = {}
      BY DEF QuietInv, Unwritten
    <3>2. local[d][p] \in Files
      BY <1>1
    <3>3. CASE WriteFile(Owner[r], run[r].path, run[r].dl.content)
      <4>1. local'[d][p] = local[d][p] \/ local'[d][p].tick = local[d][p].tick + 1
        BY <1>1, <3>3 DEF WriteFile
      <4> QED
        BY <2>1, <3>1, <3>2, <4>1 DEF Files
    <3>4. CASE DeleteFile(Owner[r], run[r].path)
      BY <1>1, <2>1, <3>1, <3>2, <3>4 DEF DeleteFile, Files
    <3>5. CASE UNCHANGED local
      BY <2>1, <3>1, <3>5
    <3> QED
      BY <3>3, <3>4, <3>5, OneWrite DEF WritesLocal, WritesRemote, WritesCopy, WritesState
  <2> QED
    BY <2>1 DEF Unwritten
<1>4. NoEditLost'
  <2>1. ASSUME NEW p \in Paths \ Binary, NEW x \in wanted[p]
        PROVE  \/ x \in remote'[p].content \cup Kept(p)'
               \/ \E d \in Devices : x \in local'[d][p].content
    <3>1. x \in remote[p].content \cup Kept(p) \/ \E d \in Devices : x \in local[d][p].content
      BY DEF QuietInv, NoEditLost
    <3>2. Kept(p) \subseteq Kept(p)'
      BY KeptStays
    <3>3. CASE x \in remote[p].content
      <4>1. Devices # {}
        BY ConstAssumption
      <4>2. remote[p].content \cap wanted[p] \subseteq remote'[p].content \cup Kept(p)'
        BY <4>1, QuietKeeps
      <4> QED
        BY <2>1, <3>3, <4>2
    <3>4. ASSUME NEW d \in Devices, x \in local[d][p].content
          PROVE  x \in local'[d][p].content \cup remote'[p].content \cup Kept(p)'
      <4>1. local[d][p].content \cap wanted[p] \subseteq
              local'[d][p].content \cup remote'[p].content \cup Kept(p)'
        BY QuietKeeps
      <4> QED
        BY <2>1, <3>4, <4>1
    <3> QED
      BY <3>1, <3>2, <3>3, <3>4
  <2> QED
    BY <1>1, <2>1 DEF NoEditLost
<1>5. ASSUME NEW q \in Runs, run'[q].pc # "idle" PROVE QuietRun(run[q], Owner[q])'
  <2>1. CASE q = r
    BY <1>5, <2>1, QuietRunStepOf DEF QuietRun, InHand
  <2>2. CASE q # r
    <3>1. run'[q] = run[q]
      BY <2>2, OthersStay DEF StepOf, Background
    <3>2. run[q].pc = "idle"
      BY <1>5, <2>2, <3>1, StepOfOneRun, StartsAlone DEF StepOf, Background, Alone, Quiet
    <3> QED
      BY <1>5, <3>1, <3>2
  <2> QED
    BY <2>1, <2>2
<1> QED
  BY <1>2, <1>3, <1>4, <1>5 DEF QuietInv

LEMMA QuietStep ==
  ASSUME Quiet, Background, QuietInv, [Next]_vars PROVE QuietInv'
<1>1. ASSUME NEW d \in Devices, Crash(d) PROVE QuietInv'
  <2>1. /\ UNCHANGED <<local, remote, stored, copies, users>>
        /\ \A r \in Runs : run'[r] = Idle \/ run'[r] = run[r]
    BY <1>1 DEF Crash
  <2>2. ASSUME NEW e, NEW o, NEW p PROVE Trusted(e, o, p)' <=> Trusted(e, o, p)
    BY <2>1 DEF Trusted, Kept, users
  <2>3. \A p \in Paths : Idle.next[p] = NoEntry /\ NoEntry.rev.content = {}
    BY DEF Idle, NoState, NoEntry, NoVersion
  <2>4. ASSUME NEW r \in Runs, NEW p \in Paths \ Binary
        PROVE  Trusted(run[r].next[p], Owner[r], p)'
    <3>1. CASE run'[r] = Idle
      BY <2>3, <3>1 DEF Trusted
    <3>2. CASE run'[r] = run[r]
      <4>1. Trusted(run[r].next[p], Owner[r], p)
        BY DEF QuietInv, EntriesTrusted
      <4> QED
        BY <2>1, <3>2, <4>1 DEF Trusted, Kept, users
    <3> QED
      BY <2>1, <3>1, <3>2
  <2>5. EntriesTrusted'
    BY <2>1, <2>4 DEF QuietInv, EntriesTrusted, Trusted, Kept, users
  <2>6. Unwritten' /\ NoEditLost'
    BY <2>1 DEF QuietInv, Unwritten, NoEditLost, Kept, users
  <2>7. ASSUME NEW r \in Runs, run'[r].pc # "idle" PROVE QuietRun(run[r], Owner[r])'
    <3>1. run'[r] = run[r]
      <4>1. Idle.pc = "idle"
        BY DEF Idle
      <4> QED
        BY <2>1, <2>7, <4>1
    <3>2. QuietRun(run[r], Owner[r])
      BY <2>7, <3>1 DEF QuietInv
    <3> QED
      BY <2>1, <3>1, <3>2 DEF QuietRun, InHand, Rev, Mtime, Kept
  <2> QED
    BY <2>5, <2>6, <2>7 DEF QuietInv
<1>2. CASE UNCHANGED vars
  <2>1. UNCHANGED <<local, remote, stored, copies, run, wanted>>
    BY <1>2 DEF vars, users
  <2> QED
    BY <2>1 DEF QuietInv, Unwritten, EntriesTrusted, Trusted, NoEditLost, QuietRun, InHand,
                Rev, Mtime, Kept
<1> QED
  BY <1>1, <1>2, QuietStepOf, QuietUserStep DEF Next, FaultStep, StepOf

\* Every edit that nobody has taken back is on some device, in the cloud or in a
\* .conflict file, for as many devices, files, edits, crashes, errors and lost
\* answers as there are, as long as one run is under way at a time and users do
\* not edit on the device it works for: however the ETags are made, and whether
\* or not a PUT answers with one.
THEOREM EditsAreSafe ==
  ASSUME Quiet PROVE Spec => []NoEditLost
<1>1. Init => QuietInv
  <2>1. ASSUME Init, NEW d, NEW p \in Paths PROVE Trusted(NoEntry, d, p)
    BY DEF Trusted, NoEntry, NoVersion
  <2>2. Init => EntriesTrusted
    <3> SUFFICES ASSUME Init PROVE EntriesTrusted
      OBVIOUS
    <3>1. \A r \in Runs, p \in Paths : run[r].next[p] = NoEntry /\ run[r].pc = "idle"
      BY DEF Init, Idle, NoState
    <3>2. \A d \in Devices, p \in Paths : stored[d][p] = NoEntry
      BY DEF Init, NoState
    <3> QED
      BY <2>1, <3>1, <3>2 DEF EntriesTrusted
  <2>3. Init => Unwritten /\ NoEditLost /\ \A r \in Runs : run[r].pc = "idle"
    BY DEF Init, Unwritten, NoEditLost, Idle
  <2> QED
    BY <2>2, <2>3 DEF QuietInv
<1>2. OneAtATime
  BY DEF Quiet
<1>3. Background /\ QuietInv /\ [Next]_vars => QuietInv'
  BY QuietStep
<1>4. QuietInv => NoEditLost
  BY DEF QuietInv
<1>5. Spec => []Background
  BY <1>2, BackgroundAlways
<1> QED
  BY <1>1, <1>3, <1>4, <1>5, PTL DEF Spec
-----------------------------------------------------------------------------
(* The cloud forgets nothing when every upload has a rev of its own *)

\* Revs that tell every two uploads apart, in the answer to the PUT; devices may
\* sync at the same time, and their users may work meanwhile.
DistinctRevs == FreshRevs /\ EtagInPut /\ OneRunEachDevice

\* A version of p that somebody knows is not newer than the cloud's.
Past(v, p) == v.stamp <= remote[p].stamp

\* If v is still what the cloud holds at p, its wanted edits are among those of c
\* or in a .conflict file.
Covers(c, v, p) == v = remote[p] => v.content \cap wanted[p] \subseteq c \cup Kept(p)

\* A device has the wanted edits of a rev it has recorded and the cloud still holds.
EntryCovered(e, d, p) ==
  /\ Past(e.rev, p)
  /\ p \notin Binary => Covers(local[d][p].content, e.rev, p)

EntriesCovered ==
  /\ \A d \in Devices, p \in Paths : EntryCovered(stored[d][p], d, p)
  /\ \A r \in Runs, p \in Paths : EntryCovered(run[r].next[p], Owner[r], p)

\* The same of what a run is about to do: where it listed no remote file, none of
\* its entries says otherwise; what it is about to write to the device or to the
\* cloud covers the version it may replace.
RaceRun(i, d) ==
  LET p == i.path
  IN /\ \A q \in Paths \ Binary :
          InHand(i, q) /\ "remote" \notin i.listing /\ i.listR[q] = NoVersion =>
            Covers({}, stored[d][q].rev, q) /\ Covers({}, i.next[q].rev, q)
     /\ i.pc \in {"writeLocal", "copy"} \/ (i.pc = "read" /\ i.plan = "compare") =>
          Past(i.dl, p)
     /\ p \notin Binary =>
          /\ i.pc = "writeLocal" =>
               /\ Covers(i.dl.content, stored[d][p].rev, p)
               /\ Covers(i.dl.content, i.next[p].rev, p)
          /\ i.pc = "copy" \/ (i.pc = "read" /\ i.plan = "compare") =>
               Covers(i.dl.content, i.listR[p], p)
          /\ i.pc = "read" /\ i.plan = "conflict" => Covers({}, i.listR[p], p)
          /\ i.pc = "upload" => i.data \cap wanted[p] \subseteq local[d][p].content \cup Kept(p)
          /\ i.pc = "upload" /\ i.plan # "add" => Covers(i.data, i.listR[p], p)
     /\ i.pc # "head"

RaceInv ==
  /\ EntriesCovered
  /\ \A r \in Runs, p \in Paths : Past(run[r].listR[p], p)
  /\ \A r \in Runs : run[r].pc # "idle" => RaceRun(run[r], Owner[r])

\* What a step may do to the cloud's version of a path, to its .conflict files and
\* to the edits that are wanted.
Later(p) ==
  /\ \/ remote'[p] = remote[p]
     \/ remote'[p].stamp > remote[p].stamp
     \/ remote'[p].stamp = remote[p].stamp /\ remote'[p].content = {}
  /\ Kept(p) \subseteq Kept(p)'
  /\ wanted'[p] \subseteq wanted[p] \cup {edits + 1}

LEMMA LaterStepOf ==
  ASSUME FreshRevs, TypeOK, NEW r \in Runs, StepOf(r), NEW p \in Paths PROVE Later(p)
<1>1. remote \in [Paths -> Versions] /\ run[r].path \in Paths /\ wanted' = wanted
  BY StepOfOneRun DEF TypeOK, Invocations, StepOf, users
<1>2. Kept(p) \subseteq Kept(p)'
  BY KeptStays
<1>3. \/ remote'[p] = remote[p]
      \/ remote'[p].stamp > remote[p].stamp
      \/ remote'[p].stamp = remote[p].stamp /\ remote'[p].content = {}
  <2>1. remote[p] \in Versions /\ remote[p].stamp \in Nat
    BY <1>1 DEF Versions
  <2>2. CASE Put(run[r].path, run[r].data)
    <3>1. remote'[p] = remote[p] \/ remote'[p].stamp = remote[p].stamp + 1
      BY <1>1, <2>2 DEF Put
    <3> QED
      BY <2>1, <3>1
  <2>3. CASE DropRemote(run[r].path)
    BY <1>1, <2>1, <2>3 DEF DropRemote, Versions
  <2> QED
    BY <2>2, <2>3, OneWrite DEF WritesLocal, WritesRemote, WritesCopy, WritesState
<1> QED
  BY <1>1, <1>2, <1>3 DEF Later

\* A user adds an edit nobody has, or takes back edits her device then lacks.
LEMMA LaterUserStep ==
  ASSUME TypeOK, UserStep, NEW p \in Paths
  PROVE  /\ Later(p) /\ UNCHANGED <<remote, stored, copies, run>>
         /\ \A d \in Devices :
              local[d][p].content \cap wanted'[p] \subseteq local'[d][p].content
<1> PICK d \in Devices, q \in Paths : (\E c \in Contents : Save(d, q, c)) \/ Delete(d, q)
  BY DEF UserStep
<1>1. local \in [Devices -> [Paths -> Files]] /\ wanted \in [Paths -> Contents]
  BY DEF TypeOK
<1>2. UNCHANGED <<remote, stored, copies, run>>
  BY DEF Save, Delete
<1>3. PICK c : /\ local'[d][q].content = c /\ c \subseteq local[d][q].content \cup {edits + 1}
               /\ \A e \in Devices, x \in Paths : e # d \/ x # q => local'[e][x] = local[e][x]
               /\ wanted' = [wanted EXCEPT ![q] = (@ \ (local[d][q].content \ c))
                                                    \cup (c \ local[d][q].content)]
  <2>1. ASSUME NEW c \in Contents, Save(d, q, c)
        PROVE  /\ local'[d][q].content = c /\ c \subseteq local[d][q].content \cup {edits + 1}
               /\ \A e \in Devices, x \in Paths : e # d \/ x # q => local'[e][x] = local[e][x]
               /\ wanted' = [wanted EXCEPT ![q] = (@ \ (local[d][q].content \ c))
                                                    \cup (c \ local[d][q].content)]
    <3>1. local' = [local EXCEPT ![d][q] = [tick |-> local[d][q].tick + 1, content |-> c]]
      BY <2>1 DEF Save, WriteFile
    <3> QED
      BY <1>1, <2>1, <3>1 DEF Save
  <2>2. CASE Delete(d, q)
    <3>1. local' = [local EXCEPT ![d][q].content = {}]
      BY <2>2 DEF Delete, DeleteFile
    <3>2. local'[d][q].content = {}
      BY <1>1, <3>1 DEF Files
    <3>3. \A e \in Devices, x \in Paths : e # d \/ x # q => local'[e][x] = local[e][x]
      BY <1>1, <3>1
    <3>4. wanted' = [wanted EXCEPT ![q] = (@ \ (local[d][q].content \ {}))
                                            \cup ({} \ local[d][q].content)]
      BY <2>2 DEF Delete
    <3> QED
      BY <3>2, <3>3, <3>4
  <2> QED
    BY <2>1, <2>2
<1>4. wanted'[p] = IF p = q THEN (wanted[q] \ (local[d][q].content \ c))
                                   \cup (c \ local[d][q].content)
                   ELSE wanted[p]
  BY <1>1, <1>3
<1>5. wanted'[p] \subseteq wanted[p] \cup {edits + 1}
  BY <1>3, <1>4
<1>6. ASSUME NEW e \in Devices
      PROVE  local[e][p].content \cap wanted'[p] \subseteq local'[e][p].content
  BY <1>3, <1>4
<1> QED
  BY <1>2, <1>5, <1>6 DEF Later, Kept

\* A version that is past stays so, and what covered it goes on to.
LEMMA PastStays ==
  ASSUME TypeOK, TypeOK', NEW p \in Paths, Later(p), NEW v \in Versions, Past(v, p)
  PROVE  Past(v, p)'
<1>1. v.stamp \in Nat /\ remote[p].stamp \in Nat /\ remote'[p].stamp \in Nat
  BY DEF TypeOK, Versions
<1> QED
  BY <1>1 DEF Past, Later

LEMMA CoversStays ==
  ASSUME TypeOK, TypeOK', NEW p \in Paths, Later(p), NEW v \in Versions, Past(v, p),
         Made(v.content, edits), NEW b, NEW c, b \cap wanted'[p] \subseteq c, Covers(b, v, p)
  PROVE  Covers(c, v, p)'
<1>1. v.stamp \in Nat /\ remote[p].stamp \in Nat /\ remote'[p].stamp \in Nat /\ edits \in Nat
  BY ConstAssumption DEF TypeOK, Versions
<1> SUFFICES ASSUME v = remote'[p], NEW x \in v.content, x \in wanted'[p]
             PROVE  x \in c \cup Kept(p)'
  BY DEF Covers
<1>2. remote'[p] = remote[p]
  BY <1>1 DEF Past, Later
<1>3. x \in wanted[p]
  BY <1>1 DEF Made, Later
<1> QED
  BY <1>2, <1>3 DEF Covers, Later

\* An entry stays covered while the device keeps its file, wanted edits at least.
LEMMA EntryStays ==
  ASSUME TypeOK, TypeOK', NEW p \in Paths, Later(p), NEW d \in Devices,
         local[d][p].content \cap wanted'[p] \subseteq local'[d][p].content,
         NEW e \in Entries, Made(e.rev.content, edits), EntryCovered(e, d, p)
  PROVE  EntryCovered(e, d, p)'
<1>1. e.rev \in Versions
  BY DEF Entries
<1>2. Past(e.rev, p)'
  BY <1>1, PastStays DEF EntryCovered
<1>3. p \notin Binary => Covers(local[d][p].content, e.rev, p)'
  <2> SUFFICES ASSUME p \notin Binary, NEW c, c = local'[d][p].content
               PROVE  Covers(c, e.rev, p)'
    BY DEF Covers
  <2>1. Covers(local[d][p].content, e.rev, p)
    BY DEF EntryCovered
  <2>2. ASSUME NEW b, b = local[d][p].content PROVE Covers(c, e.rev, p)'
    BY <1>1, <2>1, <2>2, CoversStays DEF EntryCovered
  <2> QED
    BY <2>2
<1> QED
  BY <1>2, <1>3 DEF EntryCovered

\* A run that does not move is not disturbed: users and other devices put new
\* versions in place of those it knows.
LEMMA RaceRunStays ==
  ASSUME TypeOK, TypeOK', EditsMade, RaceInv, NEW r \in Runs, run[r].pc # "idle",
         run'[r] = run[r], stored'[Owner[r]] = stored[Owner[r]],
         \A p \in Paths : Later(p),
         \A p \in Paths :
           local[Owner[r]][p].content \cap wanted'[p] \subseteq local'[Owner[r]][p].content
  PROVE  RaceRun(run[r], Owner[r])'
<1> DEFINE d == Owner[r]
<1> SUFFICES ASSUME NEW i, i = run[r], i = run'[r] PROVE RaceRun(i, d)'
  BY DEF RaceRun, InHand, Covers, Past
<1>1. /\ i \in Invocations /\ i.path \in Paths /\ d \in Devices /\ i.dl \in Versions
      /\ \A p \in Paths : /\ i.listR[p] \in Versions /\ i.next[p] \in Entries
                          /\ i.next[p].rev \in Versions /\ stored[d][p].rev \in Versions
      /\ edits \in Nat /\ i.data \in Contents
  BY ConstAssumption DEF TypeOK, Invocations, Entries
<1>2. RunMade(i, edits) /\ \A p \in Paths : Made(stored[d][p].rev.content, edits)
  BY <1>1 DEF EditsMade
<1>3. RaceRun(i, d) /\ \A p \in Paths : Past(i.listR[p], p)
  BY DEF RaceInv
<1>4. \A p \in Paths : Past(stored[d][p].rev, p) /\ Past(i.next[p].rev, p)
  BY <1>1 DEF RaceInv, EntriesCovered, EntryCovered
<1>5. ASSUME NEW p \in Paths, NEW v \in Versions, Past(v, p), Made(v.content, edits),
             NEW c, Covers(c, v, p)
      PROVE  Covers(c, v, p)'
  BY <1>5, CoversStays
<1>6. ASSUME NEW p \in Paths \ Binary, InHand(i, p), "remote" \notin i.listing,
             i.listR[p] = NoVersion
      PROVE  Covers({}, stored[d][p].rev, p)' /\ Covers({}, i.next[p].rev, p)'
  <2>1. Covers({}, stored[d][p].rev, p) /\ Covers({}, i.next[p].rev, p)
    BY <1>3, <1>6 DEF RaceRun
  <2>2. Covers({}, i.next[p].rev, p)'
    BY <1>1, <1>2, <1>4, <1>5, <2>1 DEF RunMade
  <2>3. ASSUME NEW v, v = stored[d][p].rev PROVE Covers({}, v, p)'
    BY <1>1, <1>2, <1>4, <1>5, <2>1, <2>3
  <2> QED
    BY <2>2, <2>3 DEF Covers
<1>7. i.pc \in {"writeLocal", "copy"} \/ (i.pc = "read" /\ i.plan = "compare") =>
        Past(i.dl, i.path)'
  BY <1>1, <1>3, PastStays DEF RaceRun
<1>8. ASSUME i.path \notin Binary, i.pc = "writeLocal"
      PROVE  /\ Covers(i.dl.content, stored[d][i.path].rev, i.path)'
             /\ Covers(i.dl.content, i.next[i.path].rev, i.path)'
  <2>1. /\ Covers(i.dl.content, stored[d][i.path].rev, i.path)
        /\ Covers(i.dl.content, i.next[i.path].rev, i.path)
    BY <1>3, <1>8 DEF RaceRun
  <2>2. Covers(i.dl.content, i.next[i.path].rev, i.path)'
    BY <1>1, <1>2, <1>4, <1>5, <2>1 DEF RunMade
  <2>3. ASSUME NEW v, v = stored[d][i.path].rev PROVE Covers(i.dl.content, v, i.path)'
    BY <1>1, <1>2, <1>4, <1>5, <2>1, <2>3
  <2> QED
    BY <2>2, <2>3 DEF Covers
<1>9. ASSUME NEW c, Covers(c, i.listR[i.path], i.path)
      PROVE  Covers(c, i.listR[i.path], i.path)'
  BY <1>1, <1>2, <1>3, <1>5, <1>9 DEF RunMade
<1>10. ASSUME i.path \notin Binary, i.pc = "upload"
       PROVE  i.data \cap wanted'[i.path] \subseteq local'[d][i.path].content \cup Kept(i.path)'
  <2>1. i.data \cap wanted[i.path] \subseteq local[d][i.path].content \cup Kept(i.path)
    BY <1>3, <1>10 DEF RaceRun
  <2>2. i.data \cap wanted'[i.path] \subseteq wanted[i.path]
    BY <1>1, <1>2 DEF RunMade, Made, Later
  <2>3. local[d][i.path].content \cap wanted'[i.path] \subseteq local'[d][i.path].content
        /\ Kept(i.path) \subseteq Kept(i.path)'
    BY <1>1 DEF Later
  <2> QED
    BY <2>1, <2>2, <2>3
<1> QED
  BY <1>3, <1>6, <1>7, <1>8, <1>9, <1>10 DEF RaceRun

\* The facts a step of a run relies on.
RaceFacts == DistinctRevs /\ TypeOK /\ TypeOK' /\ EditsMade /\ PlansFit /\ RaceInv

\* Whoever looks at the cloud sees a version it covers.
LEMMA CoversSeen ==
  ASSUME NEW p, NEW v PROVE Covers(Rev(p).content, v, p)
BY DEF Covers, Rev, NoVersion

\* What a run writes to the device covers what the device has recorded.
LEMMA EntryCoveredStepOf ==
  ASSUME RaceFacts, NEW r \in Runs, StepOf(r), NEW p \in Paths, NEW d \in Devices,
         NEW e \in Entries, Made(e.rev.content, edits), EntryCovered(e, d, p),
         d = Owner[r] => e \in {stored[d][p], run[r].next[p]}
  PROVE  EntryCovered(e, d, p)'
<1> DEFINE i == run[r]
<1>1. /\ i \in Invocations /\ i.path \in Paths /\ PlanFits(i) /\ TypeOK /\ TypeOK'
      /\ local \in [Devices -> [Paths -> Files]] /\ e.rev \in Versions
  BY DEF RaceFacts, TypeOK, Invocations, PlansFit, Entries
<1>2. Later(p)
  BY <1>1, LaterStepOf DEF RaceFacts, DistinctRevs
<1>3. CASE local'[d][p] = local[d][p]
  BY <1>1, <1>2, <1>3, EntryStays
<1>4. CASE d = Owner[r] /\ p = i.path /\ WritesLocal(r)
  <2>1. i.pc \in {"writeLocal", "deleteLocal"} /\ RaceRun(i, d)
    BY <1>4 DEF WritesLocal, RaceFacts, RaceInv
  <2>2. PICK c : c = local'[d][p].content
    OBVIOUS
  <2>3. p \notin Binary => Covers(c, e.rev, p)
    <3>1. CASE i.pc = "writeLocal"
      <4>1. c = i.dl.content
        BY <1>1, <1>4, <2>2, <3>1 DEF WritesLocal, WriteFile
      <4> QED
        BY <1>4, <2>1, <3>1, <4>1 DEF RaceRun
    <3>2. CASE i.pc = "deleteLocal"
      <4>1. c = {}
        BY <1>1, <1>4, <2>2, <3>2 DEF WritesLocal, DeleteFile, Files
      <4>2. i.listR[p] = NoVersion /\ i.listing = {}
        BY <1>1, <1>4, <3>2 DEF PlanFits
      <4>3. InHand(i, p)
        BY <1>4, <3>2 DEF InHand, Calls
      <4> QED
        BY <1>4, <2>1, <4>1, <4>2, <4>3 DEF RaceRun
    <3> QED
      BY <2>1, <3>1, <3>2
  <2>4. Past(e.rev, p) /\ Past(e.rev, p)'
    BY <1>1, <1>2, PastStays DEF EntryCovered
  <2>5. p \notin Binary => Covers(c, e.rev, p)'
    BY <1>1, <1>2, <2>3, <2>4, CoversStays
  <2> QED
    BY <2>2, <2>4, <2>5 DEF EntryCovered, Covers
<1>5. ~(d = Owner[r] /\ p = i.path /\ WritesLocal(r)) => local'[d][p] = local[d][p]
  <2>1. WritesLocal(r) /\ (d # Owner[r] \/ p # i.path) => local'[d][p] = local[d][p]
    BY <1>1 DEF WritesLocal, WriteFile, DeleteFile
  <2> QED
    BY <2>1, OneWrite DEF WritesRemote, WritesCopy, WritesState
<1> QED
  BY <1>3, <1>4, <1>5

\* The entry a run makes is covered by the file it is about.
LEMMA NewEntryCovered ==
  ASSUME RaceFacts, NEW r \in Runs, StepOf(r), NEW e, NewEntry(r, e),
         NEW p \in Paths, p = run[r].path
  PROVE  EntryCovered(e, Owner[r], p)'
<1> DEFINE i == run[r]  o == Owner[r]
<1>1. /\ i \in Invocations /\ o \in Devices /\ TypeOK /\ TypeOK' /\ i.dl \in Versions
      /\ local \in [Devices -> [Paths -> Files]] /\ remote \in [Paths -> Versions]
      /\ remote' \in [Paths -> Versions] /\ wanted' = wanted
  BY ConstAssumption, StepOfOneRun DEF RaceFacts, TypeOK, Invocations, StepOf, users
<1>2. i.pc \in {"writeLocal", "upload", "read"} /\ RaceRun(i, o)
  BY DEF NewEntry, RaceFacts, RaceInv, RaceRun
<1>3. Later(p) /\ Kept(p) \subseteq Kept(p)'
  BY <1>1, LaterStepOf DEF RaceFacts, DistinctRevs, Later
<1>4. CASE i.pc = "writeLocal"
  <2>1. local'[o][p].content = i.dl.content /\ e.rev = i.dl
    BY <1>1, <1>4 DEF NewEntry, WriteFile
  <2>2. Past(i.dl, p)
    BY <1>2, <1>4 DEF RaceRun
  <2>3. ASSUME NEW v, v = i.dl PROVE Past(v, p)'
    BY <1>1, <1>3, <2>2, <2>3, PastStays
  <2> QED
    BY <2>1, <2>3 DEF EntryCovered, Covers
<1>5. CASE i.pc = "read"
  <2>1. i.plan = "compare" /\ e.rev = i.dl /\ i.dl.content = local[o][p].content
    BY <1>5 DEF NewEntry
  <2>2. Past(i.dl, p)
    BY <1>2, <1>5, <2>1 DEF RaceRun
  <2>3. UNCHANGED <<local, remote>>
    BY <1>5, OneWrite DEF WritesLocal, WritesRemote, WritesCopy, WritesState
  <2> QED
    BY <2>1, <2>2, <2>3 DEF EntryCovered, Covers, Past
<1>6. CASE i.pc = "upload"
  <2>1. remote'[p].content = i.data /\ e.rev = remote'[p]
    BY <1>1, <1>6 DEF NewEntry, Put
  <2>2. UNCHANGED local
    BY <1>6, OneWrite DEF WritesLocal, WritesRemote, WritesCopy, WritesState
  <2>3. Past(e.rev, p)'
    <3>1. remote'[p].stamp \in Nat
      BY <1>1 DEF Versions
    <3> QED
      BY <2>1, <3>1 DEF Past
  <2>4. p \notin Binary => i.data \cap wanted[p] \subseteq local[o][p].content \cup Kept(p)
    BY <1>2, <1>6 DEF RaceRun
  <2> QED
    BY <1>1, <1>3, <2>1, <2>2, <2>3, <2>4 DEF EntryCovered, Covers
<1> QED
  BY <1>2, <1>4, <1>5, <1>6

LEMMA EntriesCoveredStepOf ==
  ASSUME RaceFacts, NEW r \in Runs, StepOf(r) PROVE EntriesCovered'
<1> DEFINE i == run[r]  o == Owner[r]
<1>1. /\ o \in Devices /\ stored \in [Devices -> [Paths -> Entries]]
      /\ \A q \in Runs : run[q].next \in [Paths -> Entries] /\ Owner[q] \in Devices
      /\ TypeOK /\ NoEntry \in Entries
  BY ConstAssumption DEF RaceFacts, TypeOK, Invocations, NoEntry, NoVersion, Entries,
                         Versions, Contents
<1>2. ASSUME NEW d \in Devices, NEW p \in Paths
      PROVE  Made(stored[d][p].rev.content, edits) /\ EntryCovered(stored[d][p], d, p)
  BY DEF RaceFacts, EditsMade, RaceInv, EntriesCovered
<1>3. ASSUME NEW q \in Runs, NEW p \in Paths
      PROVE  /\ Made(run[q].next[p].rev.content, edits)
             /\ EntryCovered(run[q].next[p], Owner[q], p)
  BY DEF RaceFacts, EditsMade, RunMade, RaceInv, EntriesCovered
<1>4. ASSUME NEW d \in Devices, NEW p \in Paths PROVE EntryCovered(stored[d][p], d, p)'
  <2>1. stored'[d][p] = stored[d][p] \/ (d = o /\ stored'[d][p] = i.next[p])
    <3>1. CASE WritesState(r)
      BY <1>1, <3>1 DEF WritesState
    <3> QED
      BY <3>1, OneWrite DEF WritesLocal, WritesRemote, WritesCopy
  <2>2. ASSUME NEW e, e = stored'[d][p] PROVE EntryCovered(e, d, p)'
    BY <1>1, <1>2, <1>3, <2>1, <2>2, EntryCoveredStepOf
  <2> QED
    BY <2>2 DEF EntryCovered, Past, Covers
<1>5. ASSUME NEW q \in Runs, NEW p \in Paths
      PROVE  EntryCovered(run[q].next[p], Owner[q], p)'
  <2> SUFFICES ASSUME NEW e, e = run'[q].next[p] PROVE EntryCovered(e, Owner[q], p)'
    BY DEF EntryCovered, Past, Covers
  <2>1. CASE q # r
    <3>1. run'[q] = run[q]
      BY <1>1, <2>1, OthersStay DEF StepOf
    <3>2. Owner[q] # Owner[r]
      BY <2>1 DEF RaceFacts, DistinctRevs, OneRunEachDevice
    <3> QED
      BY <1>1, <1>3, <3>1, <3>2, EntryCoveredStepOf
  <2>2. CASE q = r /\ e \in {i.next[p], stored[o][p]}
    BY <1>1, <1>2, <1>3, <2>2, EntryCoveredStepOf
  <2>3. CASE e = NoEntry
    <3>1. remote'[p].stamp \in Nat
      BY DEF RaceFacts, TypeOK, Versions
    <3> QED
      BY <2>3, <3>1 DEF EntryCovered, Past, Covers, NoEntry, NoVersion
  <2>4. CASE q = r /\ p = i.path /\ NewEntry(r, e)
    BY <2>4, NewEntryCovered
  <2> QED
    BY <1>1, <2>1, <2>2, <2>3, <2>4, EntriesOfStep
<1> QED
  BY <1>4, <1>5 DEF EntriesCovered

\* What a run holds after its own step.
LEMMA RaceRunStepOf ==
  ASSUME RaceFacts, NEW r \in Runs, StepOf(r), run'[r].pc # "idle"
  PROVE  RaceRun(run[r], Owner[r])'
<1> DEFINE i == run[r]  o == Owner[r]
<1> SUFFICES ASSUME NEW j, j = run'[r], NEW t, t = stored'[o] PROVE RaceRun(j, o)'
  BY DEF RaceRun, InHand, Covers, Past
<1>1. /\ i \in Invocations /\ i.path \in Paths /\ o \in Devices /\ TypeOK /\ TypeOK'
      /\ j \in Invocations /\ j.pc # "idle" /\ PlanFits(i) /\ PlansFit /\ wanted' = wanted
      /\ \A p \in Paths : /\ i.listR[p] \in Versions /\ i.next[p] \in Entries
                          /\ i.next[p].rev \in Versions /\ stored[o][p].rev \in Versions
                          /\ stored[o][p] \in Entries /\ Rev(p) \in Versions
      /\ RunMade(i, edits) /\ EtagInPut
  <2>1. TypeOK /\ TypeOK' /\ PlansFit /\ EditsMade /\ EtagInPut
    BY DEF RaceFacts, DistinctRevs
  <2>2. i \in Invocations /\ o \in Devices /\ stored \in [Devices -> [Paths -> Entries]]
        /\ j \in Invocations
    BY <2>1, ConstAssumption DEF TypeOK
  <2>3. wanted' = wanted
    BY StepOfOneRun DEF StepOf, users
  <2>4. i.path \in Paths /\ i.listR \in [Paths -> Versions] /\ i.next \in [Paths -> Entries]
    BY <2>2 DEF Invocations
  <2>5. \A p \in Paths : /\ i.next[p].rev \in Versions /\ stored[o][p].rev \in Versions
                        /\ stored[o][p] \in Entries
    BY <2>2, <2>4 DEF Entries
  <2>6. \A p \in Paths : Rev(p) \in Versions
    BY <2>1, ListingType
  <2>7. PlanFits(i) /\ RunMade(i, edits)
    BY <2>1 DEF PlansFit, EditsMade
  <2> QED
    BY <2>1, <2>2, <2>3, <2>4, <2>5, <2>6, <2>7
<1>2. i.pc # "idle" => RaceRun(i, o)
  BY DEF RaceFacts, RaceInv
<1>3. \A p \in Paths : /\ Past(stored[o][p].rev, p) /\ Past(i.next[p].rev, p)
                       /\ Past(i.listR[p], p) /\ Made(stored[o][p].rev.content, edits)
  BY <1>1 DEF RaceFacts, RaceInv, EntriesCovered, EntryCovered, EditsMade
<1>4. \A p \in Paths : Later(p) /\ Kept(p) \subseteq Kept(p)'
  BY <1>1, LaterStepOf DEF RaceFacts, DistinctRevs, Later
<1>5. ASSUME NEW p \in Paths, NEW v \in Versions, Past(v, p), Made(v.content, edits),
             NEW c, Covers(c, v, p)
      PROVE  Covers(c, v, p)'
  BY <1>1, <1>4, <1>5, CoversStays
<1>6. /\ \A p : Made(Rev(p).content, edits) \/ p \notin Paths
      /\ \A p \in Paths : Past(Rev(p), p)
  <2>1. \A p \in Paths : remote[p].stamp \in Nat
    BY <1>1 DEF TypeOK, Versions
  <2> QED
    BY <2>1 DEF RaceFacts, EditsMade, Rev, Past, Made, NoVersion
<1>7. ASSUME NEW p \in Paths \ Binary, Covers({}, stored[o][p].rev, p),
             Covers({}, i.next[p].rev, p),
             t[p] \in {stored[o][p], i.next[p]},
             j.next[p] \in {stored[o][p], i.next[p], NoEntry}
      PROVE  Covers({}, stored[o][p].rev, p)' /\ Covers({}, j.next[p].rev, p)'
  <2>1. ASSUME NEW e \in {stored[o][p], i.next[p]} PROVE Covers({}, e.rev, p)'
    BY <1>1, <1>3, <1>5, <1>7, <2>1 DEF RunMade
  <2>2. Covers({}, NoEntry.rev, p)'
    BY DEF Covers, NoEntry, NoVersion
  <2>3. Covers({}, t[p].rev, p)'
    BY <1>7, <2>1
  <2>4. Covers({}, j.next[p].rev, p)'
    BY <1>7, <2>1, <2>2
  <2> QED
    BY <2>3, <2>4 DEF Covers
<1>8. CASE i.pc \notin Calls
  <2>1. /\ UNCHANGED <<local, remote, copies>> /\ t = stored[o]
        /\ j.pc \notin {"writeLocal", "copy", "upload", "head"}
        /\ j.pc = "read" => j.plan \in {"add", "update"}
    BY <1>1, <1>8, NoCallStep
  <2>2. ASSUME NEW p \in Paths PROVE j.next[p] \in {stored[o][p], i.next[p], NoEntry}
    BY <1>1, <1>8, EntriesOfStep DEF NewEntry, Calls
  <2>3. ASSUME NEW p \in Paths \ Binary, InHand(j, p), "remote" \notin j.listing,
               j.listR[p] = NoVersion
        PROVE  Covers({}, stored[o][p].rev, p) /\ Covers({}, i.next[p].rev, p)
    <3>1. CASE /\ i.pc = "list" /\ j.pc \in {"list", "loop"}
               /\ j.done = i.done /\ j.path = i.path /\ j.listR = i.listR
               /\ j.listing = i.listing \ {"local"}
      <4>1. InHand(i, p)
        BY <2>3, <3>1 DEF InHand, Calls
      <4> QED
        BY <1>2, <2>3, <3>1, <4>1 DEF RaceRun
    <3>2. CASE j.listR = [x \in Paths |-> Rev(x)]
      <4>1. Rev(p) = NoVersion
        BY <2>3, <3>2
      <4>2. NoVersion.content = {}
        BY DEF NoVersion
      <4> QED
        BY <4>1, <4>2, CoversSeen
    <3>3. CASE /\ i.pc = "loop" /\ i.listing = {} /\ j.listing = {} /\ j.listR = i.listR
               /\ j.path \in Paths \ i.done /\ j.done = i.done \cup {j.path}
      <4>1. InHand(i, p)
        BY <2>3, <3>3 DEF InHand
      <4> QED
        BY <1>2, <2>3, <3>3, <4>1 DEF RaceRun
    <3> QED
      BY <1>1, <1>8, <2>3, <3>1, <3>2, <3>3, NoCallStep
  <2>4. ASSUME NEW p \in Paths \ Binary, InHand(j, p), "remote" \notin j.listing,
               j.listR[p] = NoVersion
        PROVE  Covers({}, stored[o][p].rev, p)' /\ Covers({}, j.next[p].rev, p)'
    BY <1>7, <2>1, <2>2, <2>3, <2>4
  <2> QED
    BY <2>1, <2>4 DEF RaceRun
<1>9. CASE i.pc \in Calls
  <2>1. /\ RaceRun(i, o) /\ i.path \in i.done /\ i.listing = {}
        /\ j.listing = i.listing /\ j.listR = i.listR /\ j.done = i.done /\ j.path = i.path
        /\ j.pc \notin {"loop", "checkpoint"} => j.next = i.next /\ t = stored[o]
    BY <1>1, <1>2, <1>9, CallStep DEF PlanFits, Calls
  <2>2. ASSUME NEW p \in Paths PROVE t[p] \in {stored[o][p], i.next[p]}
    <3>1. CASE WritesState(r)
      BY <1>1, <3>1 DEF WritesState, TypeOK
    <3> QED
      BY <3>1, OneWrite DEF WritesLocal, WritesRemote, WritesCopy
  <2>3. ASSUME NEW p \in Paths \ Binary, InHand(j, p), j.listR[p] = NoVersion
        PROVE  Covers({}, stored[o][p].rev, p)' /\ Covers({}, j.next[p].rev, p)'
    <3>1. InHand(i, p)
      BY <1>9, <2>1, <2>3, CallStep, <1>1 DEF InHand, Calls
    <3>2. Covers({}, stored[o][p].rev, p) /\ Covers({}, i.next[p].rev, p)
      BY <2>1, <2>3, <3>1 DEF RaceRun
    <3>3. j.next[p] \in {stored[o][p], i.next[p], NoEntry}
      <4>1. CASE p = i.path
        <5>1. j.pc \notin {"loop", "checkpoint"}
          BY <2>1, <2>3, <4>1 DEF InHand, Calls
        <5> QED
          BY <2>1, <5>1
      <4>2. CASE p # i.path
        BY <1>1, <4>2, EntriesOfStep
      <4> QED
        BY <4>1, <4>2
    <3> QED
      BY <1>7, <2>2, <3>2, <3>3
  <2>4. CASE j.pc \in {"loop", "checkpoint"}
    BY <2>3, <2>4 DEF RaceRun
  <2>5. ASSUME NEW c, NEW v \in {stored[o][i.path].rev, i.next[i.path].rev, i.listR[i.path]},
               Covers(c, v, i.path), NEW p, p = i.path
        PROVE  Covers(c, v, p)'
    BY <1>1, <1>3, <1>5, <2>5 DEF RunMade
  <2>6. CASE /\ i.pc = "download" /\ j.pc \in {"writeLocal", "copy", "read"}
             /\ j.dl = Rev(i.path)
             /\ UNCHANGED <<local, remote, copies>>
             /\ j.pc = "read" => j.plan = "compare"
    <3>1. Past(j.dl, j.path)'
      BY <1>1, <1>6, <2>1, <2>6 DEF Past
    <3>2. /\ Covers(j.dl.content, t[j.path].rev, j.path)'
          /\ Covers(j.dl.content, j.next[j.path].rev, j.path)'
          /\ Covers(j.dl.content, j.listR[j.path], j.path)'
      BY <1>1, <2>1, <2>2, <2>5, <2>6, CoversSeen
    <3>3. Covers(j.dl.content, stored[o][j.path].rev, j.path)'
      BY <3>2 DEF Covers
    <3> QED
      BY <2>3, <2>6, <3>1, <3>2, <3>3 DEF RaceRun
  <2>7. CASE /\ i.pc = "read" /\ i.plan = "compare" /\ j.pc = "copy" /\ j.dl = i.dl
             /\ UNCHANGED <<local, remote, copies>>
    <3>1. Past(j.dl, j.path)'
      BY <2>1, <2>7 DEF RaceRun, Past
    <3>2. j.path \notin Binary => Covers(j.dl.content, j.listR[j.path], j.path)'
      BY <1>1, <2>1, <2>5, <2>7 DEF RaceRun
    <3> QED
      BY <2>3, <2>7, <3>1, <3>2 DEF RaceRun
  <2>8. CASE /\ i.pc = "read" /\ i.plan # "compare" /\ j.pc = "upload"
             /\ j.data = local[o][i.path].content /\ j.plan = i.plan
             /\ UNCHANGED <<local, remote, copies>>
    <3>1. j.data \cap wanted'[j.path] \subseteq local'[o][j.path].content
      BY <2>1, <2>8
    <3>2. ASSUME i.plan # "add", i.path \notin Binary
          PROVE  Covers(j.data, i.listR[i.path], i.path)
      <4>1. CASE i.plan = "update"
        <5>1. i.listR[i.path] = i.next[i.path].rev
          BY <1>1, <2>8, <4>1 DEF PlanFits
        <5>2. EntryCovered(i.next[i.path], o, i.path)
          BY <1>1 DEF RaceFacts, RaceInv, EntriesCovered
        <5> QED
          BY <2>8, <3>2, <5>1, <5>2 DEF EntryCovered
      <4>2. CASE i.plan = "conflict"
        <5>1. Covers({}, i.listR[i.path], i.path)
          BY <2>1, <2>8, <3>2, <4>2 DEF RaceRun
        <5> QED
          BY <5>1 DEF Covers
      <4> QED
        BY <1>1, <2>8, <3>2, <4>1, <4>2 DEF PlanFits
    <3>3. j.plan # "add" /\ j.path \notin Binary => Covers(j.data, j.listR[j.path], j.path)'
      BY <1>1, <2>1, <2>5, <2>8, <3>2
    <3> QED
      BY <2>3, <2>8, <3>1, <3>3 DEF RaceRun
  <2>9. CASE /\ i.pc = "copy" /\ j.pc = "read" /\ j.plan = "conflict" /\ j.dl = i.dl
             /\ WritesCopy(r)
    <3>1. ASSUME NEW p \in Paths \ Binary, p = i.path PROVE Covers({}, i.listR[p], p)'
      <4>1. i.dl.content \subseteq Kept(p)'
        BY <2>9, <3>1, KeptStays
      <4>2. Covers(i.dl.content, i.listR[p], p)
        BY <2>1, <2>9, <3>1 DEF RaceRun
      <4>3. ASSUME NEW c, c = i.dl.content, NEW v, v = i.listR[p] PROVE Covers(c, v, p)'
        BY <1>1, <1>3, <1>5, <4>2, <4>3 DEF RunMade
      <4>4. ASSUME NEW c, c = i.dl.content, NEW v, v = i.listR[p] PROVE Covers({}, v, p)'
        BY <4>1, <4>3, <4>4 DEF Covers
      <4> QED
        BY <2>1, <3>1, <4>4 DEF Covers
    <3>2. j.path \notin Binary => Covers({}, j.listR[j.path], j.path)'
      <4>1. ASSUME NEW p \in Paths \ Binary, p = i.path, NEW v, v = i.listR[p]
            PROVE  Covers({}, v, p)'
        BY <2>1, <3>1, <4>1, <2>9 DEF Covers
      <4> QED
        BY <1>1, <2>1, <4>1
    <3> QED
      BY <2>3, <2>9, <3>2 DEF RaceRun
  <2> QED
    BY <1>1, <1>9, <2>4, <2>6, <2>7, <2>8, <2>9, CallStep
<1> QED
  BY <1>8, <1>9

LEMMA RaceStepOf ==
  ASSUME RaceFacts, NEW r \in Runs, StepOf(r) PROVE RaceInv'
<1>1. TypeOK /\ TypeOK' /\ EditsMade /\ RaceInv /\ run \in [Runs -> Invocations]
      /\ \A q \in Runs : Owner[q] \in Devices
  BY ConstAssumption DEF RaceFacts, TypeOK
<1>2. EntriesCovered'
  BY EntriesCoveredStepOf
<1>3. \A p \in Paths : Later(p)
  BY <1>1, LaterStepOf DEF RaceFacts, DistinctRevs
<1>4. \A q \in Runs \ {r} : run'[q] = run[q]
  BY <1>1, OthersStay DEF StepOf
<1>5. ASSUME NEW q \in Runs, NEW p \in Paths PROVE Past(run[q].listR[p], p)'
  <2>1. \A x \in Paths : remote[x].stamp \in Nat /\ remote'[x].stamp \in Nat
    BY <1>1 DEF TypeOK, Versions
  <2>2. \A v \in {NoVersion, Rev(p), run[q].listR[p]} : v \in Versions /\ Past(v, p)
    <3>1. Rev(p) \in Versions
      BY <1>1, ListingType
    <3>2. NoVersion \in Versions
      BY DEF NoVersion, Versions, Contents
    <3>3. run[q].listR[p] \in Versions /\ Past(run[q].listR[p], p)
      BY <1>1 DEF RaceInv, Invocations
    <3>4. Past(NoVersion, p) /\ Past(Rev(p), p)
      BY <2>1 DEF Past, Rev, NoVersion
    <3> QED
      BY <3>1, <3>2, <3>3, <3>4
  <2>3. ASSUME NEW v \in {NoVersion, Rev(p), run[q].listR[p]} PROVE Past(v, p)'
    BY <1>1, <1>3, <2>2, PastStays
  <2>4. run'[q].listR[p] \in {NoVersion, Rev(p), run[q].listR[p]}
    BY <1>1, <1>4, HandsOfStep
  <2> QED
    BY <2>3, <2>4 DEF Past
<1>6. ASSUME NEW q \in Runs, run'[q].pc # "idle" PROVE RaceRun(run[q], Owner[q])'
  <2>1. CASE q = r
    BY <1>6, <2>1, RaceRunStepOf DEF RaceRun, InHand, Covers, Past
  <2>2. CASE q # r
    <3>1. Owner[q] # Owner[r]
      BY <2>2 DEF RaceFacts, DistinctRevs, OneRunEachDevice
    <3>2. \A p \in Paths : local'[Owner[q]][p] = local[Owner[q]][p]
      <4>1. CASE WritesLocal(r)
        BY <1>1, <3>1, <4>1 DEF TypeOK, WritesLocal, WriteFile, DeleteFile
      <4> QED
        BY <4>1, OneWrite DEF WritesRemote, WritesCopy, WritesState
    <3>3. stored'[Owner[q]] = stored[Owner[q]]
      <4>1. CASE WritesState(r)
        BY <1>1, <3>1, <4>1 DEF TypeOK, WritesState
      <4> QED
        BY <4>1, OneWrite DEF WritesLocal, WritesRemote, WritesCopy
    <3>4. \A p \in Paths :
            local[Owner[q]][p].content \cap wanted'[p] \subseteq local'[Owner[q]][p].content
      BY <3>2
    <3>5. run'[q] = run[q] /\ run[q].pc # "idle"
      BY <1>4, <1>6, <2>2
    <3> QED
      BY <1>1, <1>3, <3>3, <3>4, <3>5, RaceRunStays
  <2> QED
    BY <2>1, <2>2
<1> QED
  BY <1>2, <1>5, <1>6 DEF RaceInv

LEMMA RaceUserStep ==
  ASSUME RaceFacts, UserStep PROVE RaceInv'
<1>1. TypeOK /\ TypeOK' /\ EditsMade /\ RaceInv
      /\ \A q \in Runs : Owner[q] \in Devices
  BY ConstAssumption DEF RaceFacts
<1>2. \A p \in Paths : Later(p)
  BY <1>1, LaterUserStep
<1>3. \A d \in Devices, p \in Paths :
        local[d][p].content \cap wanted'[p] \subseteq local'[d][p].content
  BY <1>1, LaterUserStep
<1>4. UNCHANGED <<remote, stored, run>>
  BY <1>1 DEF UserStep, Save, Delete
<1>5. ASSUME NEW d \in Devices, NEW p \in Paths PROVE EntryCovered(stored[d][p], d, p)'
  <2>1. stored[d][p] \in Entries /\ Made(stored[d][p].rev.content, edits)
        /\ EntryCovered(stored[d][p], d, p)
    BY <1>1 DEF TypeOK, EditsMade, RaceInv, EntriesCovered
  <2>2. ASSUME NEW e, e = stored[d][p] PROVE EntryCovered(e, d, p)'
    BY <1>1, <1>2, <1>3, <2>1, <2>2, EntryStays
  <2> QED
    BY <1>4, <2>2 DEF EntryCovered, Past, Covers
<1>6. ASSUME NEW r \in Runs, NEW p \in Paths
      PROVE  EntryCovered(run[r].next[p], Owner[r], p)'
  <2>1. run[r].next[p] \in Entries /\ Made(run[r].next[p].rev.content, edits)
        /\ EntryCovered(run[r].next[p], Owner[r], p)
    BY <1>1 DEF TypeOK, Invocations, EditsMade, RunMade, RaceInv, EntriesCovered
  <2>2. ASSUME NEW e, e = run[r].next[p] PROVE EntryCovered(e, Owner[r], p)'
    BY <1>1, <1>2, <1>3, <2>1, <2>2, EntryStays
  <2> QED
    BY <1>4, <2>2 DEF EntryCovered, Past, Covers
<1>7. ASSUME NEW r \in Runs, NEW p \in Paths PROVE Past(run[r].listR[p], p)'
  BY <1>1, <1>4 DEF RaceInv, Past
<1>8. ASSUME NEW r \in Runs, run'[r].pc # "idle" PROVE RaceRun(run[r], Owner[r])'
  BY <1>1, <1>2, <1>3, <1>4, <1>8, RaceRunStays
<1> QED
  BY <1>5, <1>6, <1>7, <1>8 DEF RaceInv, EntriesCovered

LEMMA RaceFaultStep ==
  ASSUME RaceFacts, NEW d \in Devices, Crash(d) PROVE RaceInv'
<1>1. /\ UNCHANGED <<local, remote, stored, copies, wanted>>
      /\ \A r \in Runs : run'[r] = Idle \/ run'[r] = run[r]
  BY DEF Crash, users
<1>2. \A p \in Paths : /\ Idle.next[p] = NoEntry /\ NoEntry.rev = NoVersion
                       /\ NoVersion.content = {} /\ NoVersion.stamp = 0
                       /\ Idle.listR[p] = NoVersion /\ remote[p].stamp \in Nat
  BY DEF Idle, NoState, NoEntry, NoVersion, RaceFacts, TypeOK, Versions
<1>3. Idle.pc = "idle"
  BY DEF Idle
<1>4. ASSUME NEW e \in Devices, NEW p \in Paths PROVE EntryCovered(stored[e][p], e, p)'
  <2>1. EntryCovered(stored[e][p], e, p)
    BY DEF RaceFacts, RaceInv, EntriesCovered
  <2> QED
    BY <1>1, <2>1 DEF EntryCovered, Past, Covers, Kept
<1>5. ASSUME NEW r \in Runs, NEW p \in Paths
      PROVE  EntryCovered(run[r].next[p], Owner[r], p)'
  <2>1. CASE run'[r] = Idle
    BY <1>1, <1>2, <2>1 DEF EntryCovered, Past, Covers
  <2>2. CASE run'[r] = run[r]
    <3>1. EntryCovered(run[r].next[p], Owner[r], p)
      BY DEF RaceFacts, RaceInv, EntriesCovered
    <3> QED
      BY <1>1, <2>2, <3>1 DEF EntryCovered, Past, Covers, Kept
  <2> QED
    BY <1>1, <2>1, <2>2
<1>6. ASSUME NEW r \in Runs, NEW p \in Paths PROVE Past(run[r].listR[p], p)'
  BY <1>1, <1>2 DEF RaceFacts, RaceInv, Past
<1>7. ASSUME NEW r \in Runs, run'[r].pc # "idle" PROVE RaceRun(run[r], Owner[r])'
  <2>1. run'[r] = run[r]
    BY <1>1, <1>3, <1>7
  <2>2. RaceRun(run[r], Owner[r])
    BY <1>7, <2>1 DEF RaceFacts, RaceInv
  <2> QED
    BY <1>1, <2>1, <2>2 DEF RaceRun, InHand, Covers, Past, Kept
<1> QED
  BY <1>4, <1>5, <1>6, <1>7 DEF RaceInv, EntriesCovered

LEMMA RaceStep ==
  DistinctRevs /\ TypeOK /\ TypeOK' /\ EditsMade /\ PlansFit /\ RaceInv /\ [Next]_vars
    => RaceInv'
<1> SUFFICES ASSUME RaceFacts, [Next]_vars PROVE RaceInv'
  BY DEF RaceFacts
<1>1. CASE UNCHANGED vars
  <2>1. UNCHANGED <<local, remote, stored, copies, run, wanted>>
    BY <1>1 DEF vars, users
  <2> QED
    BY <2>1 DEF RaceFacts, RaceInv, EntriesCovered, EntryCovered, RaceRun, InHand, Covers,
                Past, Kept
<1> QED
  BY <1>1, RaceStepOf, RaceUserStep, RaceFaultStep DEF Next, FaultStep, StepOf

\* An accepted upload has what was wanted of the version it replaces.
LEMMA UploadCovers ==
  ASSUME TypeOK, PlansFit, RaceInv, [Next]_vars, NEW p \in Paths \ Binary,
         remote'[p].content # {}
  PROVE  remote[p].content \cap wanted[p] \subseteq remote'[p].content \cup Kept(p)
<1>1. remote \in [Paths -> Versions]
  BY DEF TypeOK
<1>2. CASE remote'[p] = remote[p]
  BY <1>2
<1>3. ASSUME NEW r \in Runs, StepOf(r), remote'[p] # remote[p]
      PROVE  remote[p].content \cap wanted[p] \subseteq remote'[p].content \cup Kept(p)
  <2> DEFINE i == run[r]
  <2>1. i \in Invocations /\ i.path \in Paths /\ PlanFits(i)
    BY DEF TypeOK, Invocations, PlansFit
  <2>2. WritesRemote(r)
    BY <1>3, OneWrite DEF WritesLocal, WritesCopy, WritesState
  <2>3. p = i.path
    BY <1>1, <1>3, <2>1, <2>2 DEF WritesRemote, Put, DropRemote
  <2>4. ~DropRemote(i.path)
    BY <1>1, <2>1, <2>3 DEF DropRemote, Versions
  <2>5. i.pc = "upload" /\ Accepts(r) /\ remote'[p].content = i.data
    BY <1>1, <2>1, <2>2, <2>3, <2>4 DEF WritesRemote, Put
  <2>6. RaceRun(i, Owner[r])
    BY <2>5 DEF RaceInv
  <2>7. CASE remote[p].content = {}
    BY <2>7
  <2>8. CASE remote[p].content # {}
    <3>1. Rev(p) = remote[p] /\ remote[p] # NoVersion
      BY <2>8 DEF Rev, NoVersion
    <3>2. i.plan # "add" /\ i.listR[p] = remote[p]
      BY <2>3, <2>5, <3>1 DEF Accepts
    <3>3. Covers(i.data, i.listR[p], p)
      BY <2>3, <2>5, <2>6, <3>2 DEF RaceRun
    <3> QED
      BY <2>5, <3>2, <3>3 DEF Covers
  <2> QED
    BY <2>7, <2>8
<1>4. CASE UserStep
  BY <1>2, <1>4 DEF UserStep, Save, Delete
<1>5. ASSUME NEW d \in Devices, Crash(d) PROVE remote'[p] = remote[p]
  BY <1>5 DEF Crash
<1>6. CASE UNCHANGED vars
  BY <1>2, <1>6 DEF vars
<1> QED
  BY <1>2, <1>3, <1>4, <1>5, <1>6 DEF Next, FaultStep, StepOf

\* An upload never makes the cloud forget an edit that nobody has taken back, unless
\* a .conflict file has it: for any number of devices syncing at the same time, with
\* users at work on them meanwhile, and whatever crashes, fails or goes unanswered,
\* where each upload has a rev of its own and each device makes one run at a time.
THEOREM CloudKeepsEdits ==
  ASSUME DistinctRevs PROVE Spec => RemoteKeepsEdits
<1>1. Init => RaceInv
  <2> SUFFICES ASSUME Init PROVE RaceInv
    OBVIOUS
  <2>1. \A r \in Runs, p \in Paths : /\ run[r].next[p] = NoEntry /\ run[r].pc = "idle"
                                     /\ run[r].listR[p] = NoVersion
    BY DEF Init, Idle, NoState
  <2>2. \A d \in Devices, p \in Paths : stored[d][p] = NoEntry
    BY DEF Init, NoState
  <2>3. \A p \in Paths : remote[p] = NoVersion
    BY DEF Init
  <2>4. \A d \in Devices, p \in Paths : EntryCovered(NoEntry, d, p)
    BY <2>3 DEF EntryCovered, Past, Covers, NoEntry, NoVersion
  <2>5. \A p \in Paths : Past(NoVersion, p)
    BY <2>3 DEF Past, NoVersion
  <2>6. \A r \in Runs : Owner[r] \in Devices
    BY ConstAssumption
  <2>7. EntriesCovered
    BY <2>1, <2>2, <2>4, <2>6 DEF EntriesCovered
  <2>8. ASSUME NEW r \in Runs, run[r].pc # "idle" PROVE RaceRun(run[r], Owner[r])
    BY <2>8 DEF Init, Idle
  <2> QED
    BY <2>1, <2>5, <2>7, <2>8 DEF RaceInv
<1>2. TypeOK /\ TypeOK' /\ EditsMade /\ PlansFit /\ RaceInv /\ [Next]_vars => RaceInv'
  BY RaceStep
<1> DEFINE Keeps == \A p \in Paths \ Binary :
                     remote'[p].content # {} =>
                       remote[p].content \cap wanted[p] \subseteq remote'[p].content \cup Kept(p)
<1>3. TypeOK /\ PlansFit /\ RaceInv /\ [Next]_vars => [Keeps]_vars
  BY UploadCovers
<1>4. Spec => []RaceInv
  BY <1>1, <1>2, TypeCorrect, EditsMadeAlways, CallsFitBranches, PTL DEF Spec
<1>5. Spec => [][Keeps]_vars
  BY <1>3, <1>4, TypeCorrect, CallsFitBranches, PTL DEF Spec
<1> QED
  BY <1>5 DEF RemoteKeepsEdits
=============================================================================
