---------------------------- MODULE TriggerProofs ----------------------------
(***************************************************************************)
(* Proofs about what makes a device sync.                                  *)
(*                                                                         *)
(* PushSocket, for any number of sockets, activations, accounts, commands  *)
(* and lost connections: the module's socket is a live one of the stored   *)
(* account (SocketIsCurrent), and where there is WebSocket only an         *)
(* activation that throws gives the channel up (NeverStranded).            *)
(*                                                                         *)
(* SyncTriggers, for any providers, triggers, commands and failed runs:    *)
(* the lock of a provider is held exactly while one automatic run of it is *)
(* under way (LockIsARun).                                                 *)
(***************************************************************************)
EXTENDS PushSocket, SyncTriggers, FiniteSetTheorems, TLAPS

-----------------------------------------------------------------------------
(* PushSocket: the socket and what reopens it *)

WSType == {Closed} \cup [state : {"live", "closing"}, account : Accounts]

\* The three invariants hold together: closing the module's socket is well
\* typed because that socket is live.
Inv == TypeOK /\ SocketIsCurrent /\ NeverStranded

-----------------------------------------------------------------------------

\* What the socket is while the invariant holds.
LEMMA SocketLive ==
  ASSUME TypeOK, SocketIsCurrent, socket # None
  PROVE  /\ socket \in Sockets
         /\ ws[socket] \in [state : {"live"}, account : Accounts]
         /\ ws[socket].account = creds \/ notices > 0
<1>1. socket \in Sockets /\ ws[socket].state = "live" /\ ws[socket] \in WSType
  BY DEF TypeOK, SocketIsCurrent, Live, WSType
<1>2. ws[socket] # Closed
  BY <1>1 DEF Closed
<1> QED
  BY <1>1, <1>2 DEF WSType, SocketIsCurrent

\* disconnect() leaves no socket, and what it closes stays well formed.
LEMMA DisconnectFacts ==
  ASSUME TypeOK, SocketIsCurrent, Disconnect
  PROVE  /\ ws' \in [Sockets -> WSType]
         /\ socket' = None /\ timer' = FALSE /\ debounce' = FALSE
<1>1. CASE socket = None
  BY <1>1 DEF Disconnect, TypeOK, WSType
<1>2. CASE socket # None
  <2>1. [ws[socket] EXCEPT !.state = "closing"] \in WSType
    BY <1>2, SocketLive DEF WSType
  <2> QED
    BY <1>2, <2>1 DEF Disconnect, TypeOK, WSType
<1> QED
  BY <1>1, <1>2

LEMMA InvInit == Init => Inv
<1> SUFFICES ASSUME Init PROVE Inv
  OBVIOUS
<1>1. TypeOK
  <2>1. call \in [Calls -> {"idle", "enabled", "credentials"}]
    BY DEF Init
  <2>2. ws \in [Sockets -> {Closed} \cup [state : {"live", "closing"}, account : Accounts]]
    BY DEF Init
  <2>3. commands \in 0 .. MaxCommands /\ drops \in 0 .. MaxDrops
    BY PushAssumption DEF Init
  <2> QED
    BY <2>1, <2>2, <2>3 DEF Init, TypeOK
<1>2. SocketIsCurrent
  BY DEF Init, SocketIsCurrent
<1>3. NeverStranded
  BY DEF Init, NeverStranded
<1> QED
  BY <1>1, <1>2, <1>3 DEF Inv

\* The commands of the user.
LEMMA InvCommands ==
  ASSUME Inv,
         \/ \E a \in Accounts \cup {None} : StoreCredentials(a)
         \/ \E k \in Calls : NotifyCredentialsChanged(k) \/ InitPushTrigger(k)
         \/ Toggle
  PROVE  Inv'
<1> USE DEF Inv
<1>1. CASE \E a \in Accounts \cup {None} : StoreCredentials(a)
  <2>1. TypeOK'
    BY <1>1, PushAssumption DEF config, StoreCredentials, Command, TypeOK
  <2>2. notices' > 0
    BY <1>1 DEF config, StoreCredentials, TypeOK
  <2>3. SocketIsCurrent'
    BY <1>1, <2>2 DEF config, StoreCredentials, SocketIsCurrent, Live
  <2>4. NeverStranded'
    BY <2>2 DEF NeverStranded
  <2> QED
    BY <2>1, <2>3, <2>4
<1>2. CASE \E k \in Calls : NotifyCredentialsChanged(k)
  <2> PICK k \in Calls : NotifyCredentialsChanged(k)
    BY <1>2
  <2>1. Disconnect /\ Begin(k)
    BY DEF NotifyCredentialsChanged
  <2>2. TypeOK'
    <3>1. notices' \in Nat
      BY DEF config, NotifyCredentialsChanged, TypeOK
    <3>2. call' \in [Calls -> {"idle", "enabled", "credentials"}]
      BY <2>1 DEF Begin, TypeOK
    <3>3. threw' = FALSE
      BY <2>1 DEF Begin
    <3> QED
      BY <2>1, <3>1, <3>2, <3>3, DisconnectFacts
      DEF config, NotifyCredentialsChanged, TypeOK, WSType
  <2>3. SocketIsCurrent'
    BY <2>1, DisconnectFacts DEF SocketIsCurrent
  <2>4. call'[k] # "idle"
    BY <2>1 DEF Begin, TypeOK
  <2>5. NeverStranded'
    BY <2>4 DEF NeverStranded
  <2> QED
    BY <2>2, <2>3, <2>5
<1>3. CASE \E k \in Calls : InitPushTrigger(k)
  <2> PICK k \in Calls : InitPushTrigger(k)
    BY <1>3
  <2>1. TypeOK'
    <3>1. commands' \in 0 .. MaxCommands
      BY PushAssumption DEF InitPushTrigger, Command, TypeOK
    <3>2. call' \in [Calls -> {"idle", "enabled", "credentials"}] /\ threw' = FALSE
      BY DEF InitPushTrigger, Begin, TypeOK
    <3> QED
      BY <3>1, <3>2 DEF config, InitPushTrigger, TypeOK
  <2>2. SocketIsCurrent'
    BY DEF config, InitPushTrigger, SocketIsCurrent, Live
  <2>3. call'[k] # "idle"
    BY DEF config, InitPushTrigger, Begin, TypeOK
  <2>4. NeverStranded'
    BY <2>3 DEF NeverStranded
  <2> QED
    BY <2>1, <2>2, <2>4
<1>4. CASE Toggle
  <2>1. TypeOK'
    BY <1>4, PushAssumption DEF Toggle, Command, TypeOK
  <2>2. SocketIsCurrent'
    BY <1>4 DEF Toggle, SocketIsCurrent, Live
  <2>3. NeverStranded'
    BY <1>4 DEF Toggle, NeverStranded
  <2> QED
    BY <2>1, <2>2, <2>3
<1> QED
  BY <1>1, <1>2, <1>3, <1>4

\* syncConnectionWithConfig, connect and the timer that calls them.
LEMMA InvCalls ==
  ASSUME Inv, NEW k \in Calls,
         CallStep(k) \/ ReconnectTimerFires(k) \/ SyscallFails(k)
  PROVE  Inv'
<1> USE DEF Inv
<1>1. CASE Enabled(k) /\ ~enabled
  <2>1. Disconnect
    BY <1>1 DEF Enabled
  <2>2. TypeOK'
    BY <1>1, <2>1, DisconnectFacts DEF config, Enabled, Goto, TypeOK, WSType
  <2>3. SocketIsCurrent'
    BY <2>1, DisconnectFacts DEF SocketIsCurrent
  <2>4. NeverStranded'
    BY <1>1 DEF config, Enabled, NeverStranded
  <2> QED
    BY <2>2, <2>3, <2>4
<1>2. CASE Enabled(k) /\ enabled
  <2>1. TypeOK'
    BY <1>2 DEF config, Enabled, Goto, TypeOK
  <2>2. SocketIsCurrent'
    BY <1>2 DEF config, Enabled, SocketIsCurrent, Live
  <2>3. socket' = None /\ webSocket' => call'[k] = "credentials"
    BY <1>2 DEF config, Enabled, Goto, TypeOK
  <2>4. NeverStranded'
    BY <2>3 DEF NeverStranded
  <2> QED
    BY <2>1, <2>2, <2>4
<1>3. CASE Connect(k) /\ creds = None
  <2>1. TypeOK' /\ timer'
    BY <1>3, PushAssumption DEF config, Connect, Goto, TypeOK
  <2>2. SocketIsCurrent'
    BY <1>3, PushAssumption DEF config, Connect, SocketIsCurrent, Live
  <2>3. NeverStranded'
    BY <2>1 DEF NeverStranded
  <2> QED
    BY <2>1, <2>2, <2>3
<1>4. CASE Connect(k) /\ creds \in Accounts \ Unusable
  <2> PICK s \in Sockets :
         /\ ws' = [ws EXCEPT ![s] = [state |-> "live", account |-> creds]]
         /\ socket' = s
    BY <1>4, PushAssumption DEF Connect
  <2>1. TypeOK'
    BY <1>4 DEF config, Connect, Goto, TypeOK
  <2>2. ws'[s] = [state |-> "live", account |-> creds]
    BY DEF TypeOK
  <2>3. creds' = creds
    BY <1>4 DEF Connect
  <2>4. SocketIsCurrent'
    BY <2>2, <2>3 DEF SocketIsCurrent, Live
  <2>5. NeverStranded'
    BY PushAssumption DEF NeverStranded
  <2> QED
    BY <2>1, <2>4, <2>5
<1>6. CASE Connect(k) /\ creds \in Unusable
  <2>1. TypeOK' /\ threw' = TRUE
    BY <1>6, PushAssumption DEF config, Connect, Goto, TypeOK
  <2>2. SocketIsCurrent'
    BY <1>6, PushAssumption DEF config, Connect, SocketIsCurrent, Live
  <2>3. NeverStranded'
    BY <2>1 DEF NeverStranded
  <2> QED
    BY <2>1, <2>2, <2>3
<1>7. CASE SyscallFails(k)
  <2>1. TypeOK' /\ threw' = TRUE
    BY <1>7, PushAssumption DEF config, SyscallFails, Goto, TypeOK
  <2>2. SocketIsCurrent'
    BY <1>7 DEF config, SyscallFails, SocketIsCurrent, Live
  <2>3. NeverStranded'
    BY <2>1 DEF NeverStranded
  <2> QED
    BY <2>1, <2>2, <2>3
<1>5. CASE ReconnectTimerFires(k)
  <2>1. TypeOK'
    BY <1>5 DEF config, ReconnectTimerFires, Begin, TypeOK
  <2>2. SocketIsCurrent'
    BY <1>5 DEF config, ReconnectTimerFires, SocketIsCurrent, Live
  <2>3. call'[k] # "idle"
    BY <1>5 DEF config, ReconnectTimerFires, Begin, TypeOK
  <2>4. NeverStranded'
    BY <2>3 DEF NeverStranded
  <2> QED
    BY <2>1, <2>2, <2>4
<1> QED
  BY <1>1, <1>2, <1>3, <1>4, <1>5, <1>6, <1>7 DEF CallStep, Connect

\* What the network does, and the debounce of its messages.
LEMMA InvEvents ==
  ASSUME Inv,
         \/ \E s \in Sockets : CloseDone(s) \/ Drop(s) \/ OnMessage(s)
         \/ DebounceFires
  PROVE  Inv'
<1> USE DEF Inv
<1>1. ASSUME NEW s \in Sockets, CloseDone(s) \/ Drop(s) PROVE Inv'
  <2>1. OnClose(s) /\ drops' \in 0 .. MaxDrops
    BY <1>1, PushAssumption DEF config, CloseDone, Drop, TypeOK
  <2>2. TypeOK'
    BY <2>1 DEF config, OnClose, TypeOK
  <2>3. socket' # None => socket' = socket /\ ws'[socket] = ws[socket]
    BY <2>1 DEF config, OnClose, TypeOK
  <2>4. SocketIsCurrent'
    BY <2>1, <2>3 DEF config, OnClose, SocketIsCurrent, Live
  <2>5. NeverStranded'
    BY <2>1 DEF config, OnClose, NeverStranded
  <2> QED
    BY <2>2, <2>4, <2>5
<1>2. ASSUME (\E s \in Sockets : OnMessage(s)) \/ DebounceFires PROVE Inv'
  <2>1. TypeOK'
    BY <1>2 DEF config, OnMessage, DebounceFires, TypeOK
  <2>2. SocketIsCurrent'
    BY <1>2 DEF config, OnMessage, DebounceFires, SocketIsCurrent, Live
  <2>3. NeverStranded'
    BY <1>2 DEF config, OnMessage, DebounceFires, NeverStranded
  <2> QED
    BY <2>1, <2>2, <2>3
<1> QED
  BY <1>1, <1>2

LEMMA InvStutter == ASSUME Inv, UNCHANGED vars PROVE Inv'
BY DEF Inv, vars, config, TypeOK, SocketIsCurrent, Live, NeverStranded

LEMMA InvStep == Inv /\ [Next]_vars => Inv'
BY InvCommands, InvCalls, InvEvents, InvStutter DEF Next

\* The module's socket is always a live one of the stored account, or of the
\* account a command is about to drop it for; so a login or a logout never
\* leaves the device listening with credentials it no longer has.
THEOREM SocketIsAlwaysCurrent == Spec => []SocketIsCurrent
<1>1. Inv => SocketIsCurrent
  BY DEF Inv
<1> QED
  BY InvInit, InvStep, <1>1, PTL DEF Spec

\* Where there is WebSocket and push stays enabled, the device always has a
\* socket, or a timer or code that will open one, unless its last activation has
\* thrown: no order of closes, timers, logins and answers of the configuration
\* makes it give the channel up in any other way.
THEOREM ChannelNeverStranded == Spec => []NeverStranded
<1>1. Inv => NeverStranded
  BY DEF Inv
<1> QED
  BY InvInit, InvStep, <1>1, PTL DEF Spec

\* The module's variables keep their shapes whatever order activations,
\* commands and socket events come in.
THEOREM ChannelTypes == Spec => []TypeOK
<1>1. Inv => TypeOK
  BY DEF Inv
<1> QED
  BY InvInit, InvStep, <1>1, PTL DEF Spec
-----------------------------------------------------------------------------
(* SyncTriggers: the provider locks *)

\* A provider is locked by one run, or by none and has no automatic run.
LockInv ==
  \A p \in Providers :
    \/ lock[p] = TRUE /\ \E i \in Slots : AutoRuns(p) = {i}
    \/ lock[p] = FALSE /\ AutoRuns(p) = {}

\* Versions count the changes so far, and a run lists no later one.
TriggerInv ==
  /\ TriggerTypeOK /\ LockInv
  /\ \A p \in Providers : version[p] <= changes
  /\ \A p \in Providers, i \in Slots : run[p][i].listed <= MaxChanges

\* What the four triggers have in common: the first await of a run that took the
\* lock, of every provider that was not locked.
LEMMA RunAllKeeps ==
  ASSUME TriggerInv, RunAllConfiguredSyncs
  PROVE  /\ lock' \in [Providers -> BOOLEAN]
         /\ run' \in [Providers -> [Slots -> Runs]]
         /\ LockInv'
         /\ \A p \in Providers, i \in Slots : run'[p][i].listed <= MaxChanges
<1> DEFINE starting == {p \in Providers : ~lock[p]}
           new == [pc |-> "start", auto |-> TRUE, listed |-> 0]
           slot(p) == CHOOSE i \in FreeSlot(p) : TRUE
<1>1. /\ lock \in [Providers -> BOOLEAN] /\ run \in [Providers -> [Slots -> Runs]]
      /\ MaxChanges \in Nat
  BY TriggerAssumption DEF TriggerInv, TriggerTypeOK
<1>2. /\ lock' = [p \in Providers |-> TRUE]
      /\ \A p \in starting : slot(p) \in FreeSlot(p)
      /\ run' = [p \in Providers |->
                   IF p \notin starting THEN run[p]
                   ELSE [run[p] EXCEPT ![slot(p)] = new]]
  BY DEF RunAllConfiguredSyncs
<1>3. new \in Runs /\ new.auto = TRUE /\ new.listed <= MaxChanges
  BY <1>1 DEF Runs
<1> HIDE DEF new, slot, starting
<1>4. ASSUME NEW p \in Providers
      PROVE  /\ run'[p] \in [Slots -> Runs]
             /\ \E i \in Slots : {k \in Slots : run'[p][k].auto} = {i}
             /\ \A i \in Slots : run'[p][i].listed <= MaxChanges
  <2>1. \A i \in Slots : run[p][i].listed <= MaxChanges /\ run[p] \in [Slots -> Runs]
    BY <1>1 DEF TriggerInv
  <2>2. CASE p \notin starting
    <3>1. lock[p] = TRUE
      BY <1>1, <2>2 DEF starting
    <3>2. \E i \in Slots : AutoRuns(p) = {i}
      BY <3>1 DEF TriggerInv, LockInv
    <3> QED
      BY <1>1, <1>2, <2>1, <2>2, <3>2 DEF AutoRuns
  <2>3. CASE p \in starting
    <3>1. lock[p] = FALSE
      BY <1>1, <2>3 DEF starting
    <3>2. AutoRuns(p) = {}
      BY <3>1 DEF TriggerInv, LockInv
    <3>3. slot(p) \in Slots /\ run'[p] = [run[p] EXCEPT ![slot(p)] = new]
      BY <1>2, <2>3 DEF FreeSlot
    <3>4. run'[p] \in [Slots -> Runs] /\ run'[p][slot(p)] = new
          /\ \A i \in Slots : i # slot(p) => run'[p][i] = run[p][i]
      BY <1>1, <1>3, <3>3
    <3>5. {k \in Slots : run'[p][k].auto} = {slot(p)}
      BY <1>3, <3>2, <3>3, <3>4 DEF AutoRuns
    <3>6. \A i \in Slots : run'[p][i].listed <= MaxChanges
      BY <1>3, <2>1, <3>4
    <3> QED
      BY <3>3, <3>4, <3>5, <3>6
  <2> QED
    BY <2>2, <2>3
<1>5. run' \in [Providers -> [Slots -> Runs]]
  BY <1>2, <1>4
<1>6. LockInv'
  <2>1. \A p \in Providers : lock'[p] = TRUE
    BY <1>2
  <2> QED
    BY <1>4, <2>1 DEF LockInv, AutoRuns
<1> QED
  BY <1>2, <1>4, <1>5, <1>6

\* A run that leaves frees its slot, and the lock if it was the one that held it.
LEMMA LeaveKeeps ==
  ASSUME TriggerInv, NEW p \in Providers, NEW i \in Slots, Leave(p, i)
  PROVE  /\ lock' \in [Providers -> BOOLEAN]
         /\ run' \in [Providers -> [Slots -> Runs]]
         /\ LockInv'
         /\ \A q \in Providers, k \in Slots : run'[q][k].listed <= MaxChanges
<1>1. /\ lock \in [Providers -> BOOLEAN] /\ run \in [Providers -> [Slots -> Runs]]
      /\ MaxChanges \in Nat /\ run[p][i].auto \in BOOLEAN
  BY TriggerAssumption DEF TriggerInv, TriggerTypeOK, Runs
<1>2. Free \in Runs /\ Free.auto = FALSE /\ Free.listed <= MaxChanges
  BY <1>1 DEF Free, Runs
<1>3. /\ run' \in [Providers -> [Slots -> Runs]] /\ run'[p][i] = Free
      /\ \A k \in Slots : k # i => run'[p][k] = run[p][k]
      /\ \A q \in Providers : q # p => run'[q] = run[q]
  BY <1>1, <1>2 DEF Leave
<1>4. /\ lock'[p] = (lock[p] /\ ~run[p][i].auto) /\ lock' \in [Providers -> BOOLEAN]
      /\ \A q \in Providers : q # p => lock'[q] = lock[q]
  BY <1>1 DEF Leave
<1>5. {k \in Slots : run'[p][k].auto} = AutoRuns(p) \ {i}
  BY <1>2, <1>3 DEF AutoRuns
<1>6. ASSUME NEW q \in Providers
      PROVE  \/ lock'[q] = TRUE /\ \E k \in Slots : {x \in Slots : run'[q][x].auto} = {k}
             \/ lock'[q] = FALSE /\ {x \in Slots : run'[q][x].auto} = {}
  <2>1. \/ lock[q] = TRUE /\ \E k \in Slots : AutoRuns(q) = {k}
        \/ lock[q] = FALSE /\ AutoRuns(q) = {}
    BY DEF TriggerInv, LockInv
  <2>2. CASE q # p
    BY <1>3, <1>4, <2>1, <2>2 DEF AutoRuns
  <2>3. CASE q = p /\ run[p][i].auto = TRUE
    <3>1. i \in AutoRuns(p)
      BY <2>3 DEF AutoRuns
    <3>2. lock'[p] = FALSE
      BY <1>1, <1>4, <2>3
    <3> QED
      BY <1>5, <2>1, <2>3, <3>1, <3>2
  <2>4. CASE q = p /\ run[p][i].auto = FALSE
    <3>1. i \notin AutoRuns(p)
      BY <2>4 DEF AutoRuns
    <3>2. lock'[p] = lock[p]
      BY <1>1, <1>4, <2>4
    <3> QED
      BY <1>5, <2>1, <2>4, <3>1, <3>2
  <2> QED
    BY <1>1, <2>2, <2>3, <2>4
<1>7. \A q \in Providers, k \in Slots : run'[q][k].listed <= MaxChanges
  BY <1>2, <1>3 DEF TriggerInv
<1> QED
  BY <1>3, <1>4, <1>6, <1>7 DEF LockInv, AutoRuns

\* A command starts a run that is not automatic, and a listing stays what it was.
LEMMA CommandKeeps ==
  ASSUME TriggerInv, NEW p \in Providers, NEW i \in Slots,
         \/ run[p][i] = Free
            /\ run' = [run EXCEPT ![p][i] = [pc |-> "start", auto |-> FALSE, listed |-> 0]]
         \/ run' = [run EXCEPT ![p][i] = [@ EXCEPT !.pc = "listed", !.listed = version[p]]],
         lock' = lock
  PROVE  /\ run' \in [Providers -> [Slots -> Runs]]
         /\ LockInv'
         /\ \A q \in Providers, k \in Slots : run'[q][k].listed <= MaxChanges
<1>1. /\ run \in [Providers -> [Slots -> Runs]] /\ MaxChanges \in Nat /\ run[p][i] \in Runs
      /\ version[p] \in 0 .. MaxChanges
  BY TriggerAssumption DEF TriggerInv, TriggerTypeOK
<1>2. PICK j \in Runs : /\ run' = [run EXCEPT ![p][i] = j]
                        /\ j.auto = run[p][i].auto /\ j.listed <= MaxChanges
  <2>1. CASE /\ run[p][i] = Free
             /\ run' = [run EXCEPT ![p][i] = [pc |-> "start", auto |-> FALSE, listed |-> 0]]
    <3> DEFINE j == [pc |-> "start", auto |-> FALSE, listed |-> 0]
    <3>1. j \in Runs /\ j.auto = run[p][i].auto /\ j.listed <= MaxChanges
      BY <1>1, <2>1 DEF Runs, Free
    <3> QED
      BY <2>1, <3>1
  <2>2. CASE run' = [run EXCEPT ![p][i] = [@ EXCEPT !.pc = "listed", !.listed = version[p]]]
    <3> DEFINE f == run[p][i]  v == version[p]
               j == [f EXCEPT !.pc = "listed", !.listed = v]
    <3>3. f \in Runs /\ v \in Nat /\ v <= MaxChanges
      BY <1>1
    <3> HIDE DEF f, v
    <3>4. j \in Runs /\ j.auto = f.auto /\ j.listed = v
      BY <3>3 DEF Runs
    <3>1. j \in Runs /\ j.auto = run[p][i].auto /\ j.listed <= MaxChanges
      BY <3>3, <3>4 DEF f
    <3>2. run' = [run EXCEPT ![p][i] = j]
      BY <1>1, <2>2 DEF f, v
    <3> QED
      BY <3>1, <3>2
  <2> QED
    BY <2>1, <2>2
<1>3. /\ run' \in [Providers -> [Slots -> Runs]] /\ run'[p][i] = j
      /\ \A k \in Slots : k # i => run'[p][k] = run[p][k]
      /\ \A q \in Providers : q # p => run'[q] = run[q]
  BY <1>1, <1>2
<1>4. \A q \in Providers : {x \in Slots : run'[q][x].auto} = AutoRuns(q)
  BY <1>2, <1>3 DEF AutoRuns
<1>5. \A q \in Providers, k \in Slots : run'[q][k].listed <= MaxChanges
  BY <1>2, <1>3 DEF TriggerInv
<1> QED
  BY <1>3, <1>4, <1>5 DEF TriggerInv, LockInv, AutoRuns

LEMMA TriggerStart == TriggerInit => TriggerInv
<1> SUFFICES ASSUME TriggerInit PROVE TriggerInv
  OBVIOUS
<1>1. Free \in Runs /\ Free.auto = FALSE /\ Free.listed = 0
  BY DEF Free, Runs
<1>2. TriggerTypeOK
  <2>1. \A n \in {MaxChanges, MaxResumes, MaxCommandRuns, MaxTrouble} : 0 \in 0 .. n
    BY TriggerAssumption
  <2>2. /\ version \in [Providers -> 0 .. MaxChanges]
        /\ seen \in [Providers -> 0 .. MaxChanges]
        /\ changes \in 0 .. MaxChanges /\ resumes \in 0 .. MaxResumes
        /\ commandRuns \in 0 .. MaxCommandRuns /\ trouble \in 0 .. MaxTrouble
    BY <2>1 DEF TriggerInit
  <2>3. lock \in [Providers -> BOOLEAN] /\ run \in [Providers -> [Slots -> Runs]]
    BY <1>1 DEF TriggerInit
  <2>4. {saveTimer, pushTimer, due, sent, connected} \subseteq BOOLEAN
    BY DEF TriggerInit
  <2> QED
    BY <2>2, <2>3, <2>4 DEF TriggerTypeOK
<1>3. LockInv
  BY <1>1 DEF TriggerInit, LockInv, AutoRuns
<1>4. MaxChanges \in Nat
  BY TriggerAssumption
<1> QED
  BY <1>1, <1>2, <1>3, <1>4 DEF TriggerInit, TriggerInv

LEMMA TriggerStep == TriggerInv /\ [TriggerNext]_triggerVars => TriggerInv'
<1> SUFFICES ASSUME TriggerInv, [TriggerNext]_triggerVars PROVE TriggerInv'
  OBVIOUS
<1> USE TriggerAssumption
<1>1. TriggerTypeOK /\ LockInv
  BY DEF TriggerInv
<1>2. CASE IntervalFires
  BY <1>1, <1>2, RunAllKeeps
     DEF IntervalFires, TriggerInv, TriggerTypeOK, timers, server, counts
<1>3. CASE ActivityResumed
  BY <1>1, <1>3, RunAllKeeps DEF ActivityResumed, TriggerInv, TriggerTypeOK, timers, server
<1>4. CASE SaveTimerFires
  BY <1>1, <1>4, RunAllKeeps
     DEF SaveTimerFires, TriggerInv, TriggerTypeOK, server, counts
<1>5. CASE PushTimerFires
  BY <1>1, <1>5, RunAllKeeps
     DEF PushTimerFires, TriggerInv, TriggerTypeOK, server, counts
<1>6. ASSUME NEW p \in Providers, CommandSync(p) PROVE TriggerInv'
  <2>1. PICK i \in Slots :
          /\ run[p][i] = Free
          /\ run' = [run EXCEPT ![p][i] = [pc |-> "start", auto |-> FALSE, listed |-> 0]]
    BY <1>6 DEF CommandSync, FreeSlot
  <2>2. lock' = lock
    BY <1>6 DEF CommandSync
  <2>3. /\ run' \in [Providers -> [Slots -> Runs]] /\ LockInv'
        /\ \A q \in Providers, k \in Slots : run'[q][k].listed <= MaxChanges
    BY <2>1, <2>2, CommandKeeps
  <2> QED
    BY <1>1, <1>6, <2>3 DEF CommandSync, TriggerInv, TriggerTypeOK, timers, server
<1>7. ASSUME NEW p \in Providers, NEW i \in Slots, List(p, i) PROVE TriggerInv'
  <2>1. /\ run' = [run EXCEPT ![p][i] = [@ EXCEPT !.pc = "listed", !.listed = version[p]]]
        /\ lock' = lock
    BY <1>7 DEF List
  <2>2. /\ run' \in [Providers -> [Slots -> Runs]] /\ LockInv'
        /\ \A q \in Providers, k \in Slots : run'[q][k].listed <= MaxChanges
    BY <2>1, CommandKeeps
  <2> QED
    BY <1>1, <1>7, <2>2 DEF List, TriggerInv, TriggerTypeOK, timers, server, counts
<1>8. ASSUME NEW p \in Providers, NEW i \in Slots, Finish(p, i) PROVE TriggerInv'
  <2>1. /\ lock' \in [Providers -> BOOLEAN] /\ run' \in [Providers -> [Slots -> Runs]]
        /\ LockInv'
        /\ \A q \in Providers, k \in Slots : run'[q][k].listed <= MaxChanges
    BY <1>8, LeaveKeeps DEF Finish
  <2>2. /\ {saveTimer', pushTimer', due', sent', connected'} \subseteq BOOLEAN
        /\ UNCHANGED <<version, changes, resumes, commandRuns, trouble>>
    BY <1>1, <1>8 DEF Finish, TriggerTypeOK, counts
  <2>3. seen' \in [Providers -> 0 .. MaxChanges]
    <3>1. run[p][i].listed \in 0 .. MaxChanges
      BY <1>1 DEF TriggerInv, TriggerTypeOK, Runs
    <3>2. seen' = [seen EXCEPT ![p] = IF run[p][i].listed > seen[p]
                                      THEN run[p][i].listed ELSE seen[p]]
      BY <1>8 DEF Finish
    <3> QED
      BY <1>1, <3>1, <3>2 DEF TriggerTypeOK
  <2> QED
    BY <1>1, <2>1, <2>2, <2>3 DEF TriggerInv, TriggerTypeOK
<1>9. ASSUME NEW p \in Providers, NEW i \in Slots, Fail(p, i) PROVE TriggerInv'
  <2>1. /\ lock' \in [Providers -> BOOLEAN] /\ run' \in [Providers -> [Slots -> Runs]]
        /\ LockInv'
        /\ \A q \in Providers, k \in Slots : run'[q][k].listed <= MaxChanges
    BY <1>9, LeaveKeeps DEF Fail
  <2> QED
    BY <1>1, <1>9, <2>1 DEF Fail, Trouble, TriggerInv, TriggerTypeOK, timers, server
<1>10. CASE PageSaved \/ \E p \in Providers : RemoteChange(p)
  <2>1. version' \in [Providers -> 0 .. MaxChanges] /\ changes' \in 0 .. MaxChanges
        /\ \A p \in Providers : version'[p] <= changes'
    <3>1. changes' = changes + 1 /\ changes' \in 0 .. MaxChanges
      BY <1>1, <1>10 DEF PageSaved, RemoteChange, Change, TriggerTypeOK
    <3>2. /\ version' \in [Providers -> Nat]
          /\ \A p \in Providers : version'[p] \in {version[p], version[p] + 1}
      BY <1>1, <1>10 DEF PageSaved, RemoteChange, TriggerTypeOK
    <3>3. \A p \in Providers : version[p] <= changes /\ version[p] \in Nat
      BY <1>1 DEF TriggerInv, TriggerTypeOK
    <3>4. changes \in Nat /\ MaxChanges \in Nat
      BY <1>1 DEF TriggerTypeOK
    <3>5. \A p \in Providers : version'[p] <= changes'
      BY <3>1, <3>2, <3>3, <3>4
    <3>6. \A p \in Providers : version'[p] \in 0 .. MaxChanges
      BY <3>1, <3>2, <3>4, <3>5
    <3> QED
      BY <3>1, <3>2, <3>5, <3>6
  <2>2. /\ UNCHANGED <<seen, lock, run, resumes, commandRuns, trouble>>
        /\ {saveTimer', pushTimer', due', sent', connected'} \subseteq BOOLEAN
    BY <1>1, <1>10 DEF PageSaved, RemoteChange, TriggerTypeOK, timers, server
  <2> QED
    BY <1>1, <2>1, <2>2 DEF TriggerInv, TriggerTypeOK, LockInv, AutoRuns
<1>11. CASE Broadcast \/ OnChanged \/ Disconnected \/ Reconnected
  <2>1. /\ UNCHANGED <<version, seen, lock, run, changes, resumes, commandRuns>>
        /\ {saveTimer', pushTimer', due', sent', connected'} \subseteq BOOLEAN
        /\ trouble' \in 0 .. MaxTrouble
    <3>1. CASE Broadcast
      BY <1>1, <3>1 DEF Broadcast, TriggerTypeOK, timers, counts
    <3>2. CASE OnChanged
      BY <1>1, <3>2 DEF OnChanged, TriggerTypeOK, counts
    <3>3. CASE Disconnected
      <4>1. trouble' \in 0 .. MaxTrouble
        BY <1>1, <3>3 DEF Disconnected, Trouble, TriggerTypeOK
      <4>2. /\ UNCHANGED <<version, seen, lock, run, changes, resumes, commandRuns>>
            /\ UNCHANGED <<saveTimer, pushTimer, due>>
            /\ connected' = FALSE /\ sent' = FALSE
        BY <3>3 DEF Disconnected, timers
      <4> QED
        BY <1>1, <4>1, <4>2 DEF TriggerTypeOK
    <3>4. CASE Reconnected
      BY <1>1, <3>4 DEF Reconnected, TriggerTypeOK, timers, counts
    <3> QED
      BY <1>11, <3>1, <3>2, <3>3, <3>4
  <2> QED
    BY <1>1, <2>1 DEF TriggerInv, TriggerTypeOK, LockInv, AutoRuns
<1>12. CASE UNCHANGED triggerVars
  BY <1>1, <1>12 DEF triggerVars, TriggerInv, TriggerTypeOK, LockInv, AutoRuns, timers,
                     server, counts
<1> QED
  BY <1>2, <1>3, <1>4, <1>5, <1>6, <1>7, <1>8, <1>9, <1>10, <1>11, <1>12
     DEF TriggerNext, RunStep

\* Every variable of SyncTriggers keeps its type: no run syncs a change that has not
\* been made.
THEOREM TriggerTypes == TriggerSpec => []TriggerTypeOK
<1>1. TriggerInv => TriggerTypeOK
  BY DEF TriggerInv
<1> QED
  BY <1>1, TriggerStart, TriggerStep, PTL DEF TriggerSpec

\* The lock of a provider is held exactly while one automatic run of it is under
\* way, for any providers, any number of runs, commands, failures and changes: what
\* PlugSync assumes when each device makes one run at a time.
THEOREM LockIsAlwaysARun == TriggerSpec => []LockIsARun
<1>1. TriggerInv => LockIsARun
  <2> SUFFICES ASSUME TriggerInv, NEW p \in Providers
               PROVE  Cardinality(AutoRuns(p)) = IF lock[p] THEN 1 ELSE 0
    BY DEF LockIsARun
  <2>1. CASE lock[p] = TRUE /\ \E i \in Slots : AutoRuns(p) = {i}
    BY <2>1, FS_Singleton
  <2>2. CASE lock[p] = FALSE /\ AutoRuns(p) = {}
    BY <2>2, FS_EmptySet
  <2> QED
    BY <2>1, <2>2 DEF TriggerInv, LockInv
<1> QED
  BY <1>1, TriggerStart, TriggerStep, PTL DEF TriggerSpec
==============================================================================
