----------------------------- MODULE PushSocket -----------------------------
(***************************************************************************)
(* The realtime channel of one device (src/plugs/sync/push_trigger.ts):    *)
(* module variables socket, reconnectTimer and pushDebounceTimer, and the  *)
(* activations of syncConnectionWithConfig, which await the configuration  *)
(* and the credentials before they open a WebSocket.  The plug runs in one *)
(* thread: a step lasts from one await to the next.  An activation ends    *)
(* with neither socket nor timer where there is no WebSocket, and where it *)
(* throws.                                                                 *)
(***************************************************************************)
EXTENDS Naturals, FiniteSets

CONSTANTS
  Sockets,       \* WebSocket objects, reused when closed
  Calls,         \* bound: activations of syncConnectionWithConfig at one time
  Accounts,      \* credentials that may be stored
  Unusable,      \* those with which buildPushUrl or new WebSocket throws: btoa
                 \* takes Latin-1 only, chess.webdav.url may be no URL
  None,          \* no socket; no credentials
  MaxCommands,   \* bound: logins, logouts, reloads of the init hook, toggles
  MaxDrops       \* bound: connections lost and syscalls that fail

ASSUME PushAssumption ==
  /\ None \notin Sockets \cup Accounts
  /\ Unusable \subseteq Accounts
  /\ {MaxCommands, MaxDrops} \subseteq Nat

VARIABLES
  webSocket,  \* the environment has WebSocket; it does not change
  enabled,    \* chess.webdav.enableRealtimePush
  toggled,    \* the user changed it since the app was loaded
  creds,      \* the credentials in clientStore
  notices,    \* commands that changed creds and have not called notify yet
  ws,         \* ws[s]: the WebSocket s
  socket,     \* the module's socket
  timer,      \* reconnectTimer is set
  debounce,   \* pushDebounceTimer is set
  call,       \* call[k]: what an activation awaits
  threw,      \* history: an activation has thrown and none has begun since
  commands, drops

config == <<webSocket, enabled, toggled>>
vars == <<config, creds, notices, ws, socket, timer, debounce, call, threw,
          commands, drops>>

Closed == [state |-> "closed", account |-> None]

Init ==
  /\ webSocket \in BOOLEAN
  /\ enabled \in BOOLEAN
  /\ toggled = FALSE
  /\ creds \in Accounts \cup {None}
  /\ notices = 0
  /\ ws = [s \in Sockets |-> Closed]
  /\ socket = None
  /\ timer = FALSE
  /\ debounce = FALSE
  /\ \E k \in Calls : call = [c \in Calls |-> IF c = k THEN "enabled" ELSE "idle"]
  /\ threw = FALSE
  /\ commands = 0
  /\ drops = 0

\* syncConnectionWithConfig begins with the question whether push is enabled.
Begin(k) ==
  /\ call[k] = "idle"
  /\ call' = [call EXCEPT ![k] = "enabled"]
  /\ threw' = FALSE

Goto(k, pc) == call' = [call EXCEPT ![k] = pc]

\* Mutant: the closed socket is not forgotten.
DisconnectKeepsSocket ==
  /\ timer' = FALSE
  /\ debounce' = FALSE
  /\ ws' = IF socket = None THEN ws ELSE [ws EXCEPT ![socket].state = "closing"]
  /\ UNCHANGED socket

\* disconnect(): its socket is told to close and closes some time later.
Disconnect ==
  /\ timer' = FALSE
  /\ debounce' = FALSE
  /\ ws' = IF socket = None THEN ws ELSE [ws EXCEPT ![socket].state = "closing"]
  /\ socket' = None

Command == commands < MaxCommands /\ commands' = commands + 1

-----------------------------------------------------------------------------
(* Commands *)

\* Login or logout stores the credentials and then tells the user.
StoreCredentials(a) ==
  /\ Command
  /\ a # creds
  /\ creds' = a
  /\ notices' = notices + 1
  /\ UNCHANGED <<config, ws, socket, timer, debounce, call, threw, drops>>

NotifyCredentialsChanged(k) ==
  /\ notices > 0
  /\ notices' = notices - 1
  /\ Disconnect
  /\ Begin(k)
  /\ UNCHANGED <<config, creds, commands, drops>>

\* The init hook runs again in the same worker.
InitPushTrigger(k) ==
  /\ Command
  /\ Begin(k)
  /\ UNCHANGED <<config, creds, notices, ws, socket, timer, debounce, drops>>

Toggle ==
  /\ Command
  /\ enabled' = ~enabled
  /\ toggled' = TRUE
  /\ UNCHANGED <<webSocket, creds, notices, ws, socket, timer, debounce, call,
                 threw, drops>>

-----------------------------------------------------------------------------
(* syncConnectionWithConfig and connect *)

Enabled(k) ==
  /\ call[k] = "enabled"
  /\ \/ ~enabled /\ Disconnect /\ Goto(k, "idle")
     \/ /\ enabled
        /\ Goto(k, IF socket = None /\ webSocket THEN "credentials" ELSE "idle")
        /\ UNCHANGED <<ws, socket, timer, debounce>>
  /\ UNCHANGED <<config, creds, notices, threw, commands, drops>>

\* Mutant: a socket is opened without credentials.
ConnectAnyway(k) ==
  /\ call[k] = "credentials"
  /\ Goto(k, "idle")
  /\ \E s \in Sockets :
       /\ ws[s] = Closed
       /\ ws' = [ws EXCEPT ![s] = [state |-> "live", account |-> creds]]
       /\ socket' = s
  /\ UNCHANGED <<config, creds, notices, timer, debounce, threw, commands, drops>>

\* The credentials arrive: clientStore answers in the order it is asked, so
\* they are the stored ones.  With Unusable ones the activation throws.
Connect(k) ==
  /\ call[k] = "credentials"
  /\ Goto(k, "idle")
  /\ \/ /\ creds = None
        /\ timer' = TRUE
        /\ UNCHANGED <<ws, socket, threw>>
     \/ /\ creds \in Unusable
        /\ threw' = TRUE
        /\ UNCHANGED <<ws, socket, timer>>
     \/ /\ creds \in Accounts \ Unusable
        /\ \E s \in Sockets :
             /\ ws[s] = Closed
             /\ ws' = [ws EXCEPT ![s] = [state |-> "live", account |-> creds]]
             /\ socket' = s
        /\ UNCHANGED <<timer, threw>>
  /\ UNCHANGED <<config, creds, notices, debounce, commands, drops>>

\* The configuration or the store does not answer but fails, and the
\* activation with it.
SyscallFails(k) ==
  /\ call[k] # "idle"
  /\ drops < MaxDrops
  /\ drops' = drops + 1
  /\ Goto(k, "idle")
  /\ threw' = TRUE
  /\ UNCHANGED <<config, creds, notices, ws, socket, timer, debounce, commands>>

ReconnectTimerFires(k) ==
  /\ timer
  /\ timer' = FALSE
  /\ Begin(k)
  /\ UNCHANGED <<config, creds, notices, ws, socket, debounce, commands, drops>>

-----------------------------------------------------------------------------
(* Socket events *)

\* Mutants: no reconnection is scheduled; the closed socket is not forgotten.
OnCloseNoTimer(s) ==
  /\ ws' = [ws EXCEPT ![s] = Closed]
  /\ socket' = IF socket = s THEN None ELSE socket
  /\ UNCHANGED <<config, creds, notices, timer, debounce, call, threw, commands>>

OnCloseKeepsSocket(s) ==
  /\ ws' = [ws EXCEPT ![s] = Closed]
  /\ timer' = TRUE
  /\ UNCHANGED <<config, creds, notices, socket, debounce, call, threw, commands>>

OnClose(s) ==
  /\ ws' = [ws EXCEPT ![s] = Closed]
  /\ socket' = IF socket = s THEN None ELSE socket
  /\ timer' = TRUE
  /\ UNCHANGED <<config, creds, notices, debounce, call, threw, commands>>

CloseDone(s) == ws[s].state = "closing" /\ OnClose(s) /\ UNCHANGED drops

\* The network drops a connection, or the attempt to open it fails.
Drop(s) ==
  /\ ws[s].state = "live"
  /\ drops < MaxDrops
  /\ drops' = drops + 1
  /\ OnClose(s)

OnMessage(s) ==
  /\ ws[s].state = "live"
  /\ debounce' = TRUE
  /\ UNCHANGED <<config, creds, notices, ws, socket, timer, call, threw,
                 commands, drops>>

DebounceFires ==
  /\ debounce
  /\ debounce' = FALSE
  /\ UNCHANGED <<config, creds, notices, ws, socket, timer, call, threw,
                 commands, drops>>

-----------------------------------------------------------------------------

CallStep(k) == Enabled(k) \/ Connect(k)

Next ==
  \/ \E a \in Accounts \cup {None} : StoreCredentials(a)
  \/ \E k \in Calls : \/ NotifyCredentialsChanged(k) \/ InitPushTrigger(k)
                      \/ CallStep(k) \/ ReconnectTimerFires(k)
                      \/ SyscallFails(k)
  \/ Toggle
  \/ \E s \in Sockets : CloseDone(s) \/ Drop(s) \/ OnMessage(s)
  \/ DebounceFires

Spec == Init /\ [][Next]_vars

\* Syscalls are answered or fail, commands go on to their next statement, timers fire
\* and a closing socket closes.
Fairness ==
  /\ \A k \in Calls : WF_vars(CallStep(k))
  /\ WF_vars(\E k \in Calls : NotifyCredentialsChanged(k))
  /\ WF_vars(\E k \in Calls : ReconnectTimerFires(k))
  /\ \A s \in Sockets : WF_vars(CloseDone(s))

FairSpec == Spec /\ Fairness

-----------------------------------------------------------------------------
(* Properties *)

Live == {s \in Sockets : ws[s].state = "live"}

TypeOK ==
  /\ {webSocket, enabled, toggled, timer, debounce, threw} \subseteq BOOLEAN
  /\ creds \in Accounts \cup {None}
  /\ notices \in Nat
  /\ ws \in [Sockets -> {Closed} \cup [state : {"live", "closing"}, account : Accounts]]
  /\ socket \in Sockets \cup {None}
  /\ call \in [Calls -> {"idle", "enabled", "credentials"}]
  /\ commands \in 0 .. MaxCommands
  /\ drops \in 0 .. MaxDrops

\* The module's socket is a live one of the stored account, unless a command
\* that changed the account is about to close it (lines 64-67 and 69-81).
SocketIsCurrent ==
  socket # None => /\ socket \in Live
                   /\ ws[socket].account = creds \/ notices > 0

\* Where there is WebSocket, only an activation that throws gives the channel
\* up: while push is enabled there is a socket, a timer that will open one,
\* code on its way to do either -- or the last activation has thrown, and
\* nothing will try again before the credentials change or the init hook runs.
NeverStranded ==
  enabled /\ ~toggled /\ webSocket =>
    \/ socket # None \/ timer \/ notices > 0
    \/ \E k \in Calls : call[k] # "idle"
    \/ threw

\* Once the user and the network leave it alone, a logged-in device with push
\* enabled and WebSocket has its channel and keeps it, unless the last
\* activation threw.
Reconnects ==
  <>[](enabled /\ ~toggled /\ webSocket /\ creds # None /\ ~threw => socket \in Live)

\* "there is a connection already (or one is being opened) -- open no other"
\* (line 89).
AtMostOneSocket == Cardinality(Live) <= 1
=============================================================================
