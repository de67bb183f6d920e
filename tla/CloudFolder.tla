----------------------------- MODULE CloudFolder -----------------------------
(***************************************************************************)
(* What a client of ChessNote Cloud relies on: a folder of files in which  *)
(* every request takes effect at one instant between its arrival and its   *)
(* answer, a conditional write included.  This is the cloud that PlugSync  *)
(* assumes (its operators Accepts and Put); CloudStorage is the server.    *)
(***************************************************************************)
CONSTANTS
  Clients,    \* connections that send requests, one at a time each
  Files,      \* names of files
  Folders,    \* the collections that MKCOL may create
  In,         \* the collections a file's path goes through, a set of folders
  Bodies,     \* contents that clients send; a content is its own ETag
  NoFile      \* not a content

VARIABLES
  files,      \* files[f]: the content of f, or NoFile
  folders,    \* the collections created so far
  req         \* req[c]: the request of client c and how far it is

fvars == <<files, folders, req>>

Modes == [tag : {"add", "overwrite"}, etag : {NoFile}]
         \cup [tag : {"update"}, etag : Bodies]

Requests ==
  [op : {"GET", "DELETE"}, file : Files]
  \cup [op : {"PUT"}, file : Files, mode : Modes, body : Bodies]
  \cup [op : {"MKCOL"}, folder : Folders]

\* If-None-Match: * and If-Match, when the file holds cur.
Met(mode, cur) ==
  /\ mode.tag = "add"    => cur = NoFile
  /\ mode.tag = "update" => cur = mode.etag

Written(mode) == IF mode.tag = "add" THEN <<201>> ELSE <<204>>

Idle           == [state |-> "idle"]
Waiting(r)     == [state |-> "waiting", request |-> r]
Answered(r, a) == [state |-> "answered", request |-> r, answer |-> a]

Init ==
  /\ files = [f \in Files |-> NoFile]
  /\ folders = {}
  /\ req = [c \in Clients |-> Idle]

Becomes(c, q) == req' = [req EXCEPT ![c] = q]

Invoke(c, r) ==
  /\ req[c] = Idle
  /\ Becomes(c, Waiting(r))
  /\ UNCHANGED <<files, folders>>

\* The request of c takes effect.
Get(c, r) ==
  /\ r.op = "GET"
  /\ Becomes(c, Answered(r, IF files[r.file] = NoFile THEN <<404>> ELSE <<200, files[r.file]>>))
  /\ UNCHANGED <<files, folders>>

Put(c, r) ==
  /\ r.op = "PUT"
  /\ \/ /\ Met(r.mode, files[r.file]) /\ In[r.file] \subseteq folders
        /\ files' = [files EXCEPT ![r.file] = r.body]
        /\ Becomes(c, Answered(r, Written(r.mode)))
     \/ /\ ~Met(r.mode, files[r.file])
        /\ Becomes(c, Answered(r, <<412>>))
        /\ UNCHANGED files
     \/ /\ Met(r.mode, files[r.file]) /\ ~(In[r.file] \subseteq folders)
        /\ Becomes(c, Answered(r, <<409>>))
        /\ UNCHANGED files
  /\ UNCHANGED folders

Delete(c, r) ==
  /\ r.op = "DELETE"
  /\ files' = [files EXCEPT ![r.file] = NoFile]
  /\ Becomes(c, Answered(r, IF files[r.file] = NoFile THEN <<404>> ELSE <<204>>))
  /\ UNCHANGED folders

MakeCollection(c, r) ==
  /\ r.op = "MKCOL"
  /\ folders' = folders \cup {r.folder}
  /\ Becomes(c, Answered(r, IF r.folder \in folders THEN <<405>> ELSE <<201>>))
  /\ UNCHANGED files

Effect(c) ==
  /\ req[c].state = "waiting"
  /\ LET r == req[c].request
     IN Get(c, r) \/ Put(c, r) \/ Delete(c, r) \/ MakeCollection(c, r)

Return(c) ==
  /\ req[c].state = "answered"
  /\ Becomes(c, Idle)
  /\ UNCHANGED <<files, folders>>

Next == \E c \in Clients :
          (\E r \in Requests : Invoke(c, r)) \/ Effect(c) \/ Return(c)

Spec == Init /\ [][Next]_fvars
=============================================================================
