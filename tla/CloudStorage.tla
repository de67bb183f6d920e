---------------------------- MODULE CloudStorage ----------------------------
(***************************************************************************)
(* The request handler and file store of ChessNote Cloud                   *)
(* (src/cloud-server/src/server.ts, storage.ts): plain files, no lock.     *)
(* Every await on the file system is a point where other requests go on.   *)
(* writeFileEntry reads the file to compare ETags, then opens it, which    *)
(* truncates it, then writes the body over whatever is there.              *)
(*                                                                         *)
(* A content is a sequence of blocks and, its ETag being its SHA-1, stands *)
(* for its own ETag.  Signals to other devices are coalesced (push.ts).    *)
(***************************************************************************)
EXTENDS Sequences, Naturals, FiniteSets

CONSTANTS
  Clients, Files, In, NoFile,   \* as in CloudFolder
  Folders,      \* collections directly under the user's root
  Blocks,       \* what contents are made of
  Bodies,       \* contents that clients send
  Serial        \* files whose requests arrive one after the other

ASSUME CloudAssumption ==
  /\ In \in [Files -> SUBSET Folders]
  /\ Bodies \subseteq Seq(Blocks) \ {<< >>} /\ Bodies # {}
  /\ NoFile \notin Seq(Blocks)
  /\ Serial \subseteq Files

VARIABLES
  disk,       \* disk[f]: the content of the file f, or NoFile
  folders,    \* the directories made so far
  conn,       \* conn[c]: the request being handled for c
  pending,    \* a coalesced broadcast is due (pendingBroadcastByUser)
  unsaid      \* the disk changed and no device was told since

vars == <<disk, folders, conn, pending, unsaid>>

Modes == [tag : {"add", "overwrite"}, etag : {NoFile}]
         \cup [tag : {"update"}, etag : Bodies]

Requests ==
  [op : {"GET", "DELETE"}, file : Files]
  \cup [op : {"PUT"}, file : Files, mode : Modes, body : Bodies]
  \cup [op : {"MKCOL"}, folder : Folders]

Idle == [pc |-> "idle"]

\* pc: handle (parsed, before its first await on the disk), read, open and
\* write (the two halves of fs.writeFile), stat, answer.  fd: the file opened is
\* still the one of that name.
Handling(pc, r) == [pc |-> pc, request |-> r]
Writing(pc, r, fd) == [pc |-> pc, request |-> r, fd |-> fd]
Answer(r, a) == [pc |-> "answer", request |-> r, answer |-> a]

Init ==
  /\ disk = [f \in Files |-> NoFile]
  /\ folders = {}
  /\ conn = [c \in Clients |-> Idle]
  /\ pending = FALSE
  /\ unsaid = FALSE

Becomes(c, q) == conn' = [conn EXCEPT ![c] = q]

\* broadcastChanged: a broadcast already due covers this change too.
Broadcast == pending' = TRUE

Busy(f) == \E c \in Clients :
             conn[c] # Idle /\ conn[c].request.op # "MKCOL" /\ conn[c].request.file = f

Receive(c, r) ==
  /\ conn[c] = Idle
  /\ r.op # "MKCOL" /\ r.file \in Serial => ~Busy(r.file)
  /\ Becomes(c, Handling("handle", r))
  /\ UNCHANGED <<disk, folders, pending, unsaid>>

At(c, pc, op) == conn[c].pc = pc /\ conn[c].request.op = op

\* readFileEntry reads the file and asks for its stat at the same time: both
\* have to find it.
GetRead(c) ==
  /\ At(c, "handle", "GET")
  /\ LET r == conn[c].request
     IN Becomes(c, IF disk[r.file] = NoFile THEN Answer(r, <<404>>)
                   ELSE [pc |-> "read", request |-> r, data |-> disk[r.file]])
  /\ UNCHANGED <<disk, folders, pending, unsaid>>

GetStat(c) ==
  /\ At(c, "read", "GET")
  /\ LET r == conn[c].request
     IN Becomes(c, Answer(r, IF disk[r.file] = NoFile THEN <<404>>
                             ELSE <<200, conn[c].data>>))
  /\ UNCHANGED <<disk, folders, pending, unsaid>>

\* Mutant: If-None-Match is ignored.
MetIgnoresAdd(mode, cur) == mode.tag = "update" => cur = mode.etag

\* writeFileEntry reads the file: the precondition of mode is met or not.
Met(mode, cur) ==
  /\ mode.tag = "add"    => cur = NoFile
  /\ mode.tag = "update" => cur = mode.etag

\* Mutant: a failed precondition leaves the request unanswered.
CheckForgets(c) ==
  /\ At(c, "handle", "PUT")
  /\ LET r == conn[c].request
     IN Becomes(c, Handling(IF Met(r.mode, disk[r.file]) THEN "open" ELSE "failed", r))
  /\ UNCHANGED <<disk, folders, pending, unsaid>>

Check(c) ==
  /\ At(c, "handle", "PUT")
  /\ LET r == conn[c].request
     IN Becomes(c, IF Met(r.mode, disk[r.file]) THEN Handling("open", r)
                   ELSE Answer(r, <<412>>))
  /\ UNCHANGED <<disk, folders, pending, unsaid>>

\* fs.writeFile opens the file, which truncates or creates it.
Open(c) ==
  /\ At(c, "open", "PUT")
  /\ LET r == conn[c].request
     IN \/ /\ In[r.file] \subseteq folders
           /\ disk' = [disk EXCEPT ![r.file] = << >>]
           /\ unsaid' = TRUE
           /\ Becomes(c, Writing("write", r, TRUE))
        \/ /\ ~(In[r.file] \subseteq folders)
           /\ Becomes(c, Answer(r, <<409>>))
           /\ UNCHANGED <<disk, unsaid>>
  /\ UNCHANGED <<folders, pending>>

\* The body goes over the first blocks of what the file holds by now, or into
\* a file that has lost its name.
Overlay(body, cur) ==
  [n \in 1 .. (IF Len(cur) > Len(body) THEN Len(cur) ELSE Len(body)) |->
     IF n <= Len(body) THEN body[n] ELSE cur[n]]

Write(c) ==
  /\ At(c, "write", "PUT")
  /\ LET r == conn[c].request
     IN /\ disk' = IF conn[c].fd
                   THEN [disk EXCEPT ![r.file] = Overlay(r.body, @)] ELSE disk
        /\ unsaid' = (unsaid \/ conn[c].fd)
        /\ Becomes(c, Handling("stat", r))
  /\ UNCHANGED <<folders, pending>>

Written(mode) == IF mode.tag = "add" THEN <<201>> ELSE <<204>>

\* Mutant: only a new file is announced.
StatAnnouncesAdds(c) ==
  /\ At(c, "stat", "PUT")
  /\ LET r == conn[c].request
     IN /\ Becomes(c, Answer(r, IF disk[r.file] = NoFile THEN <<500>>
                                ELSE Written(r.mode)))
        /\ pending' = (pending \/ (disk[r.file] # NoFile /\ r.mode.tag = "add"))
  /\ UNCHANGED <<disk, folders, unsaid>>

\* stat, then the answer with the ETag of the body; 500 if the file is gone.
Stat(c) ==
  /\ At(c, "stat", "PUT")
  /\ LET r == conn[c].request
     IN \/ /\ disk[r.file] # NoFile
           /\ Broadcast
           /\ Becomes(c, Answer(r, Written(r.mode)))
        \/ /\ disk[r.file] = NoFile
           /\ Becomes(c, Answer(r, <<500>>))
           /\ UNCHANGED pending
  /\ UNCHANGED <<disk, folders, unsaid>>

\* rm takes the name away; a request that has the file open keeps the file.
Remove(c) ==
  /\ At(c, "handle", "DELETE")
  /\ LET r == conn[c].request
     IN \/ /\ disk[r.file] # NoFile
           /\ disk' = [disk EXCEPT ![r.file] = NoFile]
           /\ unsaid' = TRUE
           /\ Broadcast
           /\ conn' = [d \in Clients |->
                CASE d = c -> Answer(r, <<204>>)
                  [] d # c /\ conn[d].pc = "write" /\ conn[d].request.file = r.file ->
                       Writing("write", conn[d].request, FALSE)
                  [] OTHER -> conn[d]]
        \/ /\ disk[r.file] = NoFile
           /\ Becomes(c, Answer(r, <<404>>))
           /\ UNCHANGED <<disk, pending, unsaid>>
  /\ UNCHANGED folders

\* makeCollection
MakeCollection(c) ==
  /\ At(c, "handle", "MKCOL")
  /\ LET r == conn[c].request
     IN /\ folders' = folders \cup {r.folder}
        /\ Becomes(c, Answer(r, IF r.folder \in folders THEN <<405>> ELSE <<201>>))
  /\ UNCHANGED <<disk, pending, unsaid>>

Return(c) ==
  /\ conn[c].pc = "answer"
  /\ Becomes(c, Idle)
  /\ UNCHANGED <<disk, folders, pending, unsaid>>

\* The timer of broadcastChanged: "changed" goes to every open connection.
Tell ==
  /\ pending
  /\ pending' = FALSE
  /\ unsaid' = FALSE
  /\ UNCHANGED <<disk, folders, conn>>

Step(c) == \/ GetRead(c) \/ GetStat(c) \/ Check(c) \/ Open(c) \/ Write(c) \/ Stat(c)
           \/ Remove(c) \/ MakeCollection(c) \/ Return(c)

Next == \/ \E c \in Clients : (\E r \in Requests : Receive(c, r)) \/ Step(c)
        \/ Tell

Spec == Init /\ [][Next]_vars
-----------------------------------------------------------------------------
(* Properties *)

TypeOK ==
  /\ \A f \in Files : disk[f] = NoFile \/ disk[f] \in Seq(Blocks)
  /\ folders \subseteq Folders
  /\ \A c \in Clients :
       /\ conn[c].pc \in {"idle", "handle", "read", "open", "write", "stat", "answer"}
       /\ conn[c].pc # "idle" => conn[c].request \in Requests
  /\ {pending, unsaid} \subseteq BOOLEAN

\* No device stays ignorant of a change: a request that changed the disk is
\* still being handled, or a broadcast is due (broadcastChanged comes after
\* the change, lines 172 and 194, and coalescing never drops the last one).
NoSilentChange ==
  unsaid => pending \/ \E c \in Clients : conn[c].pc \in {"write", "stat"}

\* For a file whose requests arrive one after the other, whatever happens to the
\* others, the server is the folder that CloudFolder promises: a write takes
\* effect when it truncates.  Requests on the other files are not seen.
Writers(f) == {c \in Clients : conn[c].pc = "write" /\ conn[c].request.file = f}

AbstractFile(f) ==
  IF Writers(f) = {} THEN disk[f]
  ELSE conn[CHOOSE c \in Writers(f) : TRUE].request.body

Unseen(q) == q = Idle \/ (q.request.op # "MKCOL" /\ q.request.file \notin Serial)

AbstractReq(q) ==
  CASE Unseen(q) -> [state |-> "idle"]
    [] ~Unseen(q) /\ q.pc \in {"handle", "read", "open"} ->
         [state |-> "waiting", request |-> q.request]
    [] ~Unseen(q) /\ q.pc \in {"write", "stat"} ->
         [state |-> "answered", request |-> q.request, answer |-> Written(q.request.mode)]
    [] ~Unseen(q) /\ q.pc = "answer" ->
         [state |-> "answered", request |-> q.request, answer |-> q.answer]

Folder == INSTANCE CloudFolder
            WITH Files <- Serial,
                 files <- [f \in Serial |-> AbstractFile(f)],
                 req   <- [c \in Clients |-> AbstractReq(conn[c])]

Linearizable == Folder!Spec

\* "add: an error if the file exists (If-None-Match: *); update: an error if the
\* current ETag differs (If-Match)" (storage.ts 108-109): a write never replaces
\* anything but what its precondition names.
PreconditionHolds ==
  [][\A c \in Clients :
       conn[c].pc = "open" /\ conn'[c].pc = "write" =>
         Met(conn[c].request.mode, disk[conn[c].request.file])]_vars
=============================================================================
