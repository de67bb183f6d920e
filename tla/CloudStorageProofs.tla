------------------------- MODULE CloudStorageProofs -------------------------
(***************************************************************************)
(* What holds of ChessNote Cloud's files for any connections, files and    *)
(* contents.                                                               *)
(***************************************************************************)
EXTENDS CloudStorage, SequenceTheorems, TLAPS

LEMMA RequestFacts ==
  \A r \in Requests :
    /\ r.op \in {"GET", "DELETE", "PUT", "MKCOL"}
    /\ r.op # "MKCOL" => r.file \in Files
    /\ r.op = "PUT" => r.mode \in Modes /\ r.body \in Bodies
    /\ r.op = "MKCOL" => r.folder \in Folders
  BY DEF Requests

LEMMA ContentFacts ==
  /\ \A b \in Bodies : b \in Seq(Blocks) /\ b # NoFile
  /\ << >> \in Seq(Blocks) /\ << >> # NoFile
  <1>1. << >> \in Seq(Blocks)
    OBVIOUS
  <1>2. Bodies \subseteq Seq(Blocks) /\ NoFile \notin Seq(Blocks)
    BY CloudAssumption
  <1> QED BY <1>1, <1>2

\* What a write leaves is a content again, and in an empty file the body.
LEMMA OverlayFacts ==
  ASSUME NEW body \in Seq(Blocks), NEW cur \in Seq(Blocks)
  PROVE  /\ Overlay(body, cur) \in Seq(Blocks)
         /\ Overlay(body, << >>) = body
  <1> DEFINE m == IF Len(cur) > Len(body) THEN Len(cur) ELSE Len(body)
  <1>1. /\ Len(body) \in Nat /\ Len(cur) \in Nat /\ m \in Nat
        /\ \A n \in 1 .. Len(body) : body[n] \in Blocks
        /\ \A n \in 1 .. Len(cur) : cur[n] \in Blocks
    OBVIOUS
  <1>2. \A n \in 1 .. m : (IF n <= Len(body) THEN body[n] ELSE cur[n]) \in Blocks
    BY <1>1
  <1>3. Overlay(body, cur) \in [1 .. m -> Blocks]
    BY <1>2 DEF Overlay
  <1>4. Overlay(body, cur) \in Seq(Blocks)
    <2>1. m \in Nat /\ Overlay(body, cur) \in [1 .. m -> Blocks]
      BY <1>1, <1>3
    <2> HIDE DEF m
    <2>2. [1 .. m -> Blocks] \in {[1 .. n -> Blocks] : n \in Nat}
      BY <2>1
    <2> QED BY <2>1, <2>2, SeqDef
  <1>5. Overlay(body, << >>) = [n \in 1 .. Len(body) |-> body[n]]
    BY <1>1 DEF Overlay
  <1>6. body = [n \in 1 .. Len(body) |-> body[n]]
    OBVIOUS
  <1> QED BY <1>4, <1>5, <1>6

-----------------------------------------------------------------------------
(* Types                                                                   *)

ConnOK(q) ==
  /\ q.pc \in {"idle", "handle", "read", "open", "write", "stat", "answer"}
  /\ q.pc = "idle" => q = Idle
  /\ q.pc # "idle" => q.request \in Requests
  /\ q.pc \in {"open", "write", "stat"} => q.request.op = "PUT"
  /\ q.pc = "read" => q.request.op = "GET" /\ q.data \in Seq(Blocks)
  /\ q.pc = "write" => q.fd \in BOOLEAN

ConnsOK ==
  /\ conn = [c \in Clients |-> conn[c]]
  /\ \A c \in Clients : ConnOK(conn[c])

\* A request writes into the file of that name only while there is one.
OpenFilesExist ==
  \A c \in Clients : conn[c].pc = "write" /\ conn[c].fd =>
    disk[conn[c].request.file] # NoFile

Typed ==
  /\ disk \in [Files -> Seq(Blocks) \cup {NoFile}]
  /\ folders \subseteq Folders
  /\ ConnsOK
  /\ OpenFilesExist
  /\ pending \in BOOLEAN /\ unsaid \in BOOLEAN

LEMMA ShapesOK ==
  /\ ConnOK(Idle)
  /\ \A r \in Requests :
       /\ ConnOK(Handling("handle", r))
       /\ \A a : ConnOK(Answer(r, a))
       /\ r.op = "PUT" =>
            /\ ConnOK(Handling("open", r)) /\ ConnOK(Handling("stat", r))
            /\ \A fd \in BOOLEAN : ConnOK(Writing("write", r, fd))
       /\ r.op = "GET" => \A d \in Seq(Blocks) :
            ConnOK([pc |-> "read", request |-> r, data |-> d])
  BY DEF ConnOK, Idle, Handling, Writing, Answer

LEMMA BecomesOK ==
  ASSUME ConnsOK, NEW c \in Clients, NEW q, Becomes(c, q)
  PROVE  /\ conn'[c] = q
         /\ \A d \in Clients \ {c} : conn'[d] = conn[d]
         /\ ConnOK(q) => ConnsOK'
  BY DEF ConnsOK, Becomes

\* The connection that takes a step is at its place with its kind of request.
LEMMA AtOK ==
  ASSUME Typed, NEW c \in Clients, NEW pc, NEW op, At(c, pc, op), pc # "idle"
  PROVE  /\ conn[c].pc = pc /\ conn[c].request.op = op
         /\ conn[c].request \in Requests
         /\ op # "MKCOL" => /\ conn[c].request.file \in Files
                            /\ disk[conn[c].request.file] \in Seq(Blocks) \cup {NoFile}
         /\ op = "PUT" => conn[c].request.body \in Bodies
  BY RequestFacts DEF At, Typed, ConnsOK, ConnOK

\* A step that opens no file and takes no name away.
LEMMA FilesStay ==
  ASSUME Typed, NEW c \in Clients, NEW q, Becomes(c, q), ConnOK(q), q.pc # "write",
         \A f \in Files : disk[f] # NoFile => disk'[f] # NoFile
  PROVE  ConnsOK' /\ OpenFilesExist'
  <1>1. /\ ConnsOK' /\ conn'[c] = q
        /\ \A d \in Clients \ {c} : conn'[d] = conn[d]
    BY BecomesOK DEF Typed
  <1>2. \A d \in Clients : conn[d].pc = "write" => conn[d].request.file \in Files
    BY RequestFacts DEF Typed, ConnsOK, ConnOK
  <1> QED BY <1>1, <1>2 DEF OpenFilesExist, Typed

LEMMA StepTypes ==
  ASSUME Typed, NEW c \in Clients, Step(c)
  PROVE  Typed'
  <1> DEFINE r == conn[c].request
  <1>1. CASE GetRead(c) \/ GetStat(c) \/ Check(c) \/ MakeCollection(c) \/ Return(c)
    <2>1. \/ conn[c].pc = "answer"
          \/ r \in Requests /\ (r.op # "MKCOL" => disk[r.file] \in Seq(Blocks) \cup {NoFile})
      BY <1>1, AtOK DEF GetRead, GetStat, Check, MakeCollection, Return
    <2>2. \E q : Becomes(c, q) /\ ConnOK(q) /\ q.pc # "write"
      <3>1. CASE GetRead(c)
        BY <2>1, <3>1, ShapesOK DEF GetRead, At, Answer
      <3>2. CASE GetStat(c)
        BY <2>1, <3>2, ShapesOK DEF GetStat, At, Answer
      <3>3. CASE Check(c)
        <4>1. r \in Requests /\ r.op = "PUT"
          BY <3>3, AtOK DEF Check
        <4>2. \/ Becomes(c, Handling("open", r))
              \/ Becomes(c, Answer(r, <<412>>))
          BY <3>3 DEF Check
        <4>3. ConnOK(Handling("open", r)) /\ Handling("open", r).pc # "write"
          BY <4>1, ShapesOK DEF Handling
        <4>4. ConnOK(Answer(r, <<412>>)) /\ Answer(r, <<412>>).pc # "write"
          BY <4>1, ShapesOK DEF Answer
        <4> QED BY <4>2, <4>3, <4>4
      <3>4. CASE MakeCollection(c)
        BY <2>1, <3>4, ShapesOK DEF MakeCollection, At, Answer
      <3>5. CASE Return(c)
        BY <3>5, ShapesOK DEF Return, Idle
      <3> QED BY <1>1, <3>1, <3>2, <3>3, <3>4, <3>5
    <2>3. UNCHANGED <<disk, pending, unsaid>> /\ folders' \subseteq Folders
      <3>1. MakeCollection(c) => r.folder \in Folders
        BY <2>1, RequestFacts DEF MakeCollection, At
      <3> QED BY <1>1, <3>1
              DEF GetRead, GetStat, Check, MakeCollection, Return, Typed
    <2> QED BY <2>2, <2>3, FilesStay DEF Typed
  <1>2. CASE Open(c)
    <2>1. /\ r.op = "PUT" /\ r \in Requests /\ r.file \in Files
          /\ UNCHANGED <<folders, pending>>
      BY <1>2, AtOK DEF Open
    <2>2. CASE In[r.file] \subseteq folders
      <3>1. /\ disk' = [disk EXCEPT ![r.file] = << >>] /\ unsaid' = TRUE
            /\ Becomes(c, Writing("write", r, TRUE))
        BY <1>2, <2>2 DEF Open
      <3>2. /\ ConnsOK' /\ conn'[c] = Writing("write", r, TRUE)
            /\ \A d \in Clients \ {c} : conn'[d] = conn[d]
        BY <2>1, <3>1, BecomesOK, ShapesOK DEF Typed
      <3>3. /\ disk' \in [Files -> Seq(Blocks) \cup {NoFile}]
            /\ disk'[r.file] # NoFile
            /\ \A f \in Files : disk[f] # NoFile => disk'[f] # NoFile
        BY <2>1, <3>1, ContentFacts DEF Typed
      <3>4. \A d \in Clients : conn[d].pc = "write" => conn[d].request.file \in Files
        BY RequestFacts DEF Typed, ConnsOK, ConnOK
      <3>5. OpenFilesExist'
        BY <3>2, <3>3, <3>4 DEF OpenFilesExist, Typed, Writing
      <3> QED BY <2>1, <3>1, <3>2, <3>3, <3>5 DEF Typed
    <2>3. CASE ~(In[r.file] \subseteq folders)
      <3>1. Becomes(c, Answer(r, <<409>>)) /\ UNCHANGED <<disk, unsaid>>
        BY <1>2, <2>3 DEF Open
      <3> QED BY <2>1, <3>1, FilesStay, ShapesOK DEF Typed, Answer
    <2> QED BY <2>2, <2>3
  <1>3. CASE Write(c)
    <2>1. r.op = "PUT" /\ r \in Requests /\ r.body \in Seq(Blocks) /\ r.file \in Files
      BY <1>3, AtOK, ContentFacts DEF Write
    <2>2. conn[c].fd \in BOOLEAN
      BY <1>3 DEF Write, At, Typed, ConnsOK, ConnOK
    <2>3. conn[c].fd => disk[r.file] \in Seq(Blocks)
      BY <1>3, <2>1 DEF Write, At, Typed, OpenFilesExist
    <2>4. \/ /\ conn[c].fd
             /\ disk' = [disk EXCEPT ![r.file] = Overlay(r.body, disk[r.file])]
             /\ Overlay(r.body, disk[r.file]) \in Seq(Blocks)
          \/ ~conn[c].fd /\ disk' = disk
      BY <1>3, <2>1, <2>3, OverlayFacts DEF Write
    <2>5. Becomes(c, Handling("stat", r)) /\ ConnOK(Handling("stat", r))
      BY <1>3, <2>1, ShapesOK DEF Write
    <2>6. disk' \in [Files -> Seq(Blocks) \cup {NoFile}]
          /\ \A f \in Files : disk[f] # NoFile => disk'[f] # NoFile
      BY <2>1, <2>4, CloudAssumption DEF Typed
    <2>7. folders' \subseteq Folders /\ pending' \in BOOLEAN /\ unsaid' \in BOOLEAN
      BY <1>3, <2>2 DEF Write, Typed
    <2> QED BY <2>5, <2>6, <2>7, FilesStay DEF Typed, Handling
  <1>4. CASE Stat(c)
    <2>1. r.op = "PUT" /\ r \in Requests
      BY <1>4, AtOK DEF Stat
    <2>2. pending' \in {pending, TRUE} /\ UNCHANGED <<disk, folders, unsaid>>
      BY <1>4 DEF Stat, Broadcast
    <2>3. \/ Becomes(c, Answer(r, Written(r.mode)))
          \/ Becomes(c, Answer(r, <<500>>))
      BY <1>4 DEF Stat
    <2>4. \A a : ConnOK(Answer(r, a)) /\ Answer(r, a).pc = "answer"
      BY <2>1, ShapesOK DEF Answer
    <2>5. ConnsOK' /\ OpenFilesExist'
      BY <2>2, <2>3, <2>4, FilesStay
    <2> QED BY <2>2, <2>5 DEF Typed
  <1>5. CASE Remove(c)
    <2>1. r \in Requests /\ r.file \in Files
      BY <1>5, AtOK DEF Remove
    <2>2. CASE disk[r.file] # NoFile
      <3>1. /\ disk' = [disk EXCEPT ![r.file] = NoFile] /\ UNCHANGED folders
            /\ unsaid' = TRUE /\ pending' = TRUE
            /\ conn' = [d \in Clients |->
                 CASE d = c -> Answer(r, <<204>>)
                   [] d # c /\ conn[d].pc = "write" /\ conn[d].request.file = r.file ->
                        Writing("write", conn[d].request, FALSE)
                   [] OTHER -> conn[d]]
        BY <1>5, <2>2 DEF Remove, Broadcast
      <3>2. conn'[c] = Answer(r, <<204>>)
        BY <3>1
      <3>3. ASSUME NEW d \in Clients, d # c,
                   conn[d].pc = "write", conn[d].request.file = r.file
            PROVE  conn'[d] = Writing("write", conn[d].request, FALSE)
        BY <3>1, <3>3
      <3>4. ASSUME NEW d \in Clients, d # c,
                   ~(conn[d].pc = "write" /\ conn[d].request.file = r.file)
            PROVE  conn'[d] = conn[d]
        BY <3>1, <3>4
      <3>5. ASSUME NEW d \in Clients PROVE ConnOK(conn'[d])
        <4>1. ConnOK(conn[d])
          BY DEF Typed, ConnsOK
        <4>2. conn[d].pc = "write" => conn[d].request \in Requests /\ conn[d].request.op = "PUT"
          BY <4>1 DEF ConnOK
        <4>3. CASE d = c
          BY <2>1, <3>2, <4>3, ShapesOK
        <4>4. CASE d # c /\ conn[d].pc = "write" /\ conn[d].request.file = r.file
          <5>1. conn'[d] = Writing("write", conn[d].request, FALSE)
            BY <3>3, <4>4
          <5> QED BY <4>2, <4>4, <5>1, ShapesOK
        <4>5. CASE d # c /\ ~(conn[d].pc = "write" /\ conn[d].request.file = r.file)
          BY <3>4, <4>1, <4>5
        <4> QED BY <4>3, <4>4, <4>5
      <3>6. ConnsOK'
        BY <3>1, <3>5 DEF ConnsOK
      <3>7. OpenFilesExist'
        <4> SUFFICES ASSUME NEW d \in Clients, conn'[d].pc = "write", conn'[d].fd
                     PROVE  disk'[conn'[d].request.file] # NoFile
          BY DEF OpenFilesExist
        <4>a. d # c
          BY <3>2 DEF Answer
        <4>b. ~(conn[d].pc = "write" /\ conn[d].request.file = r.file)
          <5> SUFFICES ASSUME conn[d].pc = "write", conn[d].request.file = r.file PROVE FALSE
            OBVIOUS
          <5>1. conn'[d] = Writing("write", conn[d].request, FALSE)
            BY <3>3, <4>a
          <5>2. conn'[d].fd = FALSE
            BY <5>1 DEF Writing
          <5> QED BY <5>2
        <4>c. conn'[d] = conn[d]
          BY <3>4, <4>a, <4>b
        <4>1. conn'[d] = conn[d] /\ conn[d].pc = "write" /\ conn[d].request.file # r.file
          BY <4>b, <4>c
        <4>2. conn[d].request.file \in Files
          BY <4>1, RequestFacts DEF Typed, ConnsOK, ConnOK
        <4> QED BY <3>1, <4>1, <4>2 DEF Typed, OpenFilesExist
      <3>8. disk' \in [Files -> Seq(Blocks) \cup {NoFile}]
        BY <2>1, <3>1 DEF Typed
      <3> QED BY <3>1, <3>6, <3>7, <3>8 DEF Typed
    <2>3. CASE disk[r.file] = NoFile
      <3>1. /\ Becomes(c, Answer(r, <<404>>))
            /\ UNCHANGED <<disk, pending, unsaid, folders>>
        BY <1>5, <2>3 DEF Remove
      <3> QED BY <2>1, <3>1, FilesStay, ShapesOK DEF Typed, Answer
    <2> QED BY <2>2, <2>3
  <1> QED BY <1>1, <1>2, <1>3, <1>4, <1>5 DEF Step

LEMMA AlwaysTyped == Spec => []Typed
  <1>1. Init => Typed
    <2> SUFFICES ASSUME Init PROVE Typed
      OBVIOUS
    <2>1. \A c \in Clients : conn[c] = Idle
      BY DEF Init
    <2>2. ConnsOK
      BY <2>1, ShapesOK DEF Init, ConnsOK
    <2>3. OpenFilesExist
      BY <2>1 DEF OpenFilesExist, Idle
    <2> QED BY <2>2, <2>3 DEF Init, Typed
  <1>2. Typed /\ [Next]_vars => Typed'
    <2> SUFFICES ASSUME Typed, [Next]_vars PROVE Typed'
      OBVIOUS
    <2>1. CASE UNCHANGED vars
      BY <2>1 DEF vars, Typed, ConnsOK, OpenFilesExist
    <2>2. ASSUME NEW c \in Clients, NEW r \in Requests, Receive(c, r) PROVE Typed'
      BY <2>2, FilesStay, ShapesOK DEF Receive, Typed, Handling
    <2>3. CASE Tell
      BY <2>3 DEF Tell, Typed, ConnsOK, OpenFilesExist
    <2> QED BY <2>1, <2>2, <2>3, StepTypes DEF Next
  <1> QED BY <1>1, <1>2, PTL DEF Spec

\* Files hold contents and every connection that is busy has a request, for any
\* number of connections, files and collections.
THEOREM CloudTypes == Spec => []TypeOK
  <1>1. Typed => TypeOK
    BY DEF Typed, TypeOK, ConnsOK, ConnOK
  <1> QED BY <1>1, AlwaysTyped, PTL

-----------------------------------------------------------------------------
(* No change goes untold                                                   *)

\* The connection that will announce a change, and finds the file when it asks
\* for its stat.
Announcer(c) ==
  conn[c].pc \in {"write", "stat"} /\ disk[conn[c].request.file] # NoFile

\* NoSilentChange as it is kept: a delete leaves no announcer for its file, and
\* announces itself.
Announced == unsaid => pending \/ \E c \in Clients : Announcer(c)

LEMMA AnnouncedSteps ==
  ASSUME Typed, Announced, [Next]_vars
  PROVE  Announced'
  <1>1. CASE UNCHANGED vars
    BY <1>1 DEF vars, Announced, Announcer
  <1>2. CASE Tell
    BY <1>2 DEF Tell, Announced
  <1>3. ASSUME NEW c \in Clients, NEW q, Becomes(c, q), UNCHANGED unsaid,
               ~Announcer(c), pending => pending',
               \A f \in Files : disk[f] # NoFile => disk'[f] # NoFile
        PROVE  Announced'
    <2> SUFFICES ASSUME unsaid, ~pending', NEW d \in Clients, Announcer(d)
                 PROVE  Announcer(d)'
      BY <1>3 DEF Announced
    <2>1. conn'[d] = conn[d]
      BY <1>3, BecomesOK DEF Typed
    <2>2. conn[d].request.file \in Files
      BY RequestFacts DEF Announcer, Typed, ConnsOK, ConnOK
    <2> QED BY <1>3, <2>1, <2>2 DEF Announcer
  <1>4. ASSUME NEW c \in Clients, NEW r \in Requests, Receive(c, r) PROVE Announced'
    <2>1. Becomes(c, Handling("handle", r)) /\ UNCHANGED <<disk, pending, unsaid>>
      BY <1>4 DEF Receive
    <2>2. ~Announcer(c)
      BY <1>4 DEF Receive, Idle, Announcer
    <2> QED BY <1>3, <2>1, <2>2
  <1>5. ASSUME NEW c \in Clients, Step(c) PROVE Announced'
    <2> DEFINE r == conn[c].request
    <2>1. CASE GetRead(c) \/ GetStat(c) \/ Check(c) \/ MakeCollection(c) \/ Return(c)
      <3>1. UNCHANGED <<disk, pending, unsaid>> /\ \E q : Becomes(c, q)
        BY <2>1 DEF GetRead, GetStat, Check, MakeCollection, Return
      <3>2. ~Announcer(c)
        BY <2>1 DEF GetRead, GetStat, Check, MakeCollection, Return, At, Announcer
      <3> QED BY <1>3, <3>1, <3>2
    <2>2. CASE Open(c)
      <3>1. r.op = "PUT" /\ r \in Requests /\ r.file \in Files
        BY <2>2, AtOK DEF Open
      <3>2. CASE In[r.file] \subseteq folders
        <4>1. /\ disk' = [disk EXCEPT ![r.file] = << >>]
              /\ Becomes(c, Writing("write", r, TRUE))
          BY <2>2, <3>2 DEF Open
        <4>2. conn'[c] = Writing("write", r, TRUE)
          BY <4>1, BecomesOK DEF Typed
        <4>3. conn'[c].pc = "write" /\ conn'[c].request = r
          BY <4>2 DEF Writing
        <4>4. disk'[r.file] # NoFile
          BY <3>1, <4>1, ContentFacts DEF Typed
        <4> QED BY <4>3, <4>4 DEF Announced, Announcer
      <3>3. CASE ~(In[r.file] \subseteq folders)
        <4>1. /\ Becomes(c, Answer(r, <<409>>))
              /\ UNCHANGED <<disk, unsaid, pending>>
          BY <2>2, <3>3 DEF Open
        <4>2. ~Announcer(c)
          BY <2>2 DEF Open, At, Announcer
        <4> QED BY <1>3, <4>1, <4>2
      <3> QED BY <3>2, <3>3
    <2>3. CASE Write(c)
      <3>1. r.op = "PUT" /\ r \in Requests /\ r.body \in Seq(Blocks) /\ r.file \in Files
        BY <2>3, AtOK, ContentFacts DEF Write
      <3>2. Becomes(c, Handling("stat", r)) /\ UNCHANGED pending
        BY <2>3 DEF Write
      <3>3. /\ conn'[c] = Handling("stat", r)
            /\ \A d \in Clients \ {c} : conn'[d] = conn[d]
        BY <3>2, BecomesOK DEF Typed
      <3>4. conn'[c].pc = "stat" /\ conn'[c].request = r
        BY <3>3 DEF Handling
      <3>5. conn[c].fd \in BOOLEAN /\ conn[c].pc = "write"
        BY <2>3 DEF Write, At, Typed, ConnsOK, ConnOK
      <3>6. CASE conn[c].fd
        <4>1. disk' = [disk EXCEPT ![r.file] = Overlay(r.body, disk[r.file])]
          BY <2>3, <3>6 DEF Write
        <4>2. disk[r.file] \in Seq(Blocks)
          BY <3>1, <3>5, <3>6 DEF Typed, OpenFilesExist
        <4>3. Overlay(r.body, disk[r.file]) \in Seq(Blocks)
          BY <3>1, <4>2, OverlayFacts
        <4>4. disk'[r.file] # NoFile
          BY <3>1, <4>1, <4>3, CloudAssumption DEF Typed
        <4> QED BY <3>4, <4>4 DEF Announced, Announcer
      <3>7. CASE ~conn[c].fd
        <4>1. UNCHANGED <<disk, unsaid>>
          <5>1. conn[c].fd = FALSE /\ unsaid \in BOOLEAN
            BY <3>5, <3>7 DEF Typed
          <5>2. unsaid' = (unsaid \/ conn[c].fd)
            BY <2>3 DEF Write
          <5>3. disk' = disk
            BY <2>3, <5>1 DEF Write
          <5> QED BY <5>1, <5>2, <5>3
        <4> SUFFICES ASSUME unsaid, ~pending, NEW d \in Clients, Announcer(d)
                     PROVE  Announcer(d)'
          BY <3>2, <4>1 DEF Announced
        <4>2. CASE d = c
          BY <3>4, <4>1, <4>2 DEF Announcer
        <4>3. CASE d # c
          BY <3>3, <4>1, <4>3 DEF Announcer
        <4> QED BY <4>2, <4>3
      <3> QED BY <3>5, <3>6, <3>7
    <2>4. CASE Stat(c)
      <3>1. CASE disk[r.file] # NoFile
        BY <2>4, <3>1 DEF Stat, Broadcast, Announced
      <3>2. CASE disk[r.file] = NoFile
        <4>1. Becomes(c, Answer(r, <<500>>)) /\ UNCHANGED <<disk, pending, unsaid>>
          BY <2>4, <3>2 DEF Stat
        <4>2. ~Announcer(c)
          BY <3>2 DEF Announcer
        <4> QED BY <1>3, <4>1, <4>2
      <3> QED BY <3>1, <3>2
    <2>5. CASE Remove(c)
      <3>1. CASE disk[r.file] # NoFile
        BY <2>5, <3>1 DEF Remove, Broadcast, Announced
      <3>2. CASE disk[r.file] = NoFile
        <4>1. Becomes(c, Answer(r, <<404>>)) /\ UNCHANGED <<disk, pending, unsaid>>
          BY <2>5, <3>2 DEF Remove
        <4>2. ~Announcer(c)
          BY <2>5 DEF Remove, At, Announcer
        <4> QED BY <1>3, <4>1, <4>2
      <3> QED BY <3>1, <3>2
    <2> QED BY <1>5, <2>1, <2>2, <2>3, <2>4, <2>5 DEF Step
  <1> QED BY <1>1, <1>2, <1>4, <1>5 DEF Next

\* The disk never differs from what the devices were told of without a broadcast
\* due or a request under way that will ask for one, however the requests of any
\* number of connections interleave, overwrite and delete each other's files.
THEOREM ChangesAreTold == Spec => []NoSilentChange
  <1>1. Init => Announced
    BY DEF Init, Announced
  <1>2. Typed /\ Announced /\ [Next]_vars => Announced'
    BY AnnouncedSteps
  <1>3. Announced => NoSilentChange
    BY DEF Announced, Announcer, NoSilentChange
  <1> QED BY <1>1, <1>2, <1>3, AlwaysTyped, PTL DEF Spec

-----------------------------------------------------------------------------
(* The server is the folder its clients rely on, for files served serially *)

Serves(c, f) ==
  conn[c].pc # "idle" /\ conn[c].request.op # "MKCOL" /\ conn[c].request.file = f

OneAtATime ==
  \A f \in Serial : \A c, d \in Clients : Serves(c, f) /\ Serves(d, f) => c = d

\* What a connection has read or done of its file is what the file holds.
Agrees(q, cur) ==
  /\ q.pc = "read"  => q.data = cur /\ cur # NoFile
  /\ q.pc = "open"  => Met(q.request.mode, cur)
  /\ q.pc = "write" => q.fd = TRUE /\ cur = << >>
  /\ q.pc = "stat"  => cur = q.request.body

Aligned ==
  \A f \in Serial : \A c \in Clients : Serves(c, f) => Agrees(conn[c], disk[f])

SerialInv == OneAtATime /\ Aligned

\* c goes on to q; another connection changes at most in having lost the name
\* of a file that is not served serially.
Moves(c, q) ==
  /\ conn' = [d \in Clients |-> conn'[d]]
  /\ conn'[c] = q
  /\ \A d \in Clients \ {c} :
       \/ conn'[d] = conn[d]
       \/ /\ conn[d].pc # "idle" /\ conn[d].request.op # "MKCOL"
          /\ conn[d].request.file \notin Serial
          /\ conn'[d].pc # "idle" /\ conn'[d].request = conn[d].request

LEMMA BecomesMoves ==
  ASSUME Typed, NEW c \in Clients, NEW q, Becomes(c, q)
  PROVE  Moves(c, q)
  BY DEF Becomes, Moves, Typed, ConnsOK

LEMMA RemoveMoves ==
  ASSUME Typed, OneAtATime, NEW c \in Clients, Remove(c),
         disk[conn[c].request.file] # NoFile
  PROVE  Moves(c, Answer(conn[c].request, <<204>>))
  <1> DEFINE r == conn[c].request
  <1>1. conn' = [d \in Clients |->
             CASE d = c -> Answer(r, <<204>>)
               [] d # c /\ conn[d].pc = "write" /\ conn[d].request.file = r.file ->
                    Writing("write", conn[d].request, FALSE)
               [] OTHER -> conn[d]]
    BY DEF Remove
  <1>2. conn' = [d \in Clients |-> conn'[d]] /\ conn'[c] = Answer(r, <<204>>)
    BY <1>1
  <1>3. ASSUME NEW d \in Clients \ {c}
        PROVE  \/ conn'[d] = conn[d]
               \/ /\ conn[d].pc # "idle" /\ conn[d].request.op # "MKCOL"
                  /\ conn[d].request.file \notin Serial
                  /\ conn'[d].pc # "idle" /\ conn'[d].request = conn[d].request
    <2>1. CASE conn[d].pc = "write" /\ conn[d].request.file = r.file
      <3>1. conn'[d] = Writing("write", conn[d].request, FALSE)
        BY <1>1, <2>1
      <3>2. conn'[d].pc # "idle" /\ conn'[d].request = conn[d].request
        BY <3>1 DEF Writing
      <3>3. conn[d].request.op # "MKCOL"
        BY <2>1 DEF Typed, ConnsOK, ConnOK
      <3>4. Serves(c, r.file) /\ Serves(d, r.file)
        BY <2>1, <3>3 DEF Remove, At, Serves
      <3>5. r.file \notin Serial
        BY <3>4 DEF OneAtATime
      <3> QED BY <2>1, <3>2, <3>3, <3>5
    <2>2. CASE ~(conn[d].pc = "write" /\ conn[d].request.file = r.file)
      BY <1>1, <2>2
    <2> QED BY <2>1, <2>2
  <1> QED BY <1>2, <1>3 DEF Moves

\* A step of c on its own request keeps the invariant if it changes no serial
\* file but the one it serves and leaves c in agreement with that one.
LEMMA SerialKept ==
  ASSUME SerialInv, NEW c \in Clients, NEW q, Moves(c, q),
         q.pc # "idle" => conn[c].pc # "idle" /\ q.request = conn[c].request,
         \A f \in Serial : disk'[f] = disk[f] \/ Serves(c, f),
         \A f \in Serial : Serves(c, f) /\ q.pc # "idle" => Agrees(q, disk'[f])
  PROVE  SerialInv'
  <1>1. \A f \in Serial : \A d \in Clients : Serves(d, f)' => Serves(d, f)
    <2> SUFFICES ASSUME NEW f \in Serial, NEW d \in Clients, Serves(d, f)'
                 PROVE  Serves(d, f)
      OBVIOUS
    <2>1. CASE d = c
      BY <2>1 DEF Serves, Moves
    <2>2. CASE d # c
      BY <2>2 DEF Serves, Moves
    <2> QED BY <2>1, <2>2
  <1>2. OneAtATime'
    BY <1>1 DEF OneAtATime, SerialInv
  <1>3. ASSUME NEW f \in Serial, NEW d \in Clients, Serves(d, f)'
        PROVE  Agrees(conn'[d], disk'[f])
    <2>1. Serves(d, f)
      BY <1>1, <1>3
    <2>2. CASE d = c
      BY <1>3, <2>1, <2>2 DEF Serves, Moves
    <2>3. CASE d # c
      <3>1. ~Serves(c, f)
        BY <2>1, <2>3 DEF SerialInv, OneAtATime
      <3>2. disk'[f] = disk[f] /\ conn'[d] = conn[d]
        BY <2>1, <2>3, <3>1 DEF Moves, Serves
      <3> QED BY <2>1, <3>2 DEF SerialInv, Aligned
    <2> QED BY <2>2, <2>3
  <1> QED BY <1>2, <1>3 DEF SerialInv, Aligned

AbsFiles == [f \in Serial |-> AbstractFile(f)]
AbsReq   == [c \in Clients |-> AbstractReq(conn[c])]

Waiting(r)     == [state |-> "waiting", request |-> r]
Answered(r, a) == [state |-> "answered", request |-> r, answer |-> a]
Seen(r)        == r.op = "MKCOL" \/ r.file \in Serial

\* How a connection looks to the clients.
LEMMA AbstractReqIs ==
  ASSUME NEW q, q.pc # "idle"
  PROVE  /\ ~Seen(q.request) => AbstractReq(q) = [state |-> "idle"]
         /\ Seen(q.request) =>
              /\ q.pc \in {"handle", "read", "open"} => AbstractReq(q) = Waiting(q.request)
              /\ q.pc \in {"write", "stat"} =>
                   AbstractReq(q) = Answered(q.request, Written(q.request.mode))
              /\ q.pc = "answer" => AbstractReq(q) = Answered(q.request, q.answer)
  <1>1. q # Idle
    BY DEF Idle
  <1>2. Unseen(q) <=> ~Seen(q.request)
    BY <1>1 DEF Unseen, Seen
  <1> QED BY <1>2 DEF AbstractReq, Waiting, Answered

LEMMA AbstractIdle == AbstractReq(Idle) = [state |-> "idle"]
  BY DEF AbstractReq, Unseen

LEMMA ReqMoves ==
  ASSUME NEW c \in Clients, NEW q, Moves(c, q)
  PROVE  AbsReq' = [AbsReq EXCEPT ![c] = AbstractReq(q)]
  <1>1. conn'[c] = q
    BY DEF Moves
  <1>2. ASSUME NEW d \in Clients \ {c}
        PROVE  AbstractReq(conn'[d]) = AbstractReq(conn[d])
    <2>1. CASE conn'[d] = conn[d]
      BY <2>1
    <2>2. CASE conn'[d] # conn[d]
      <3>1. /\ conn[d].pc # "idle" /\ ~Seen(conn[d].request)
            /\ conn'[d].pc # "idle" /\ ~Seen(conn'[d].request)
        BY <2>2 DEF Moves, Seen
      <3>2. AbstractReq(conn[d]) = [state |-> "idle"]
        BY <3>1, AbstractReqIs
      <3>3. AbstractReq(conn'[d]) = [state |-> "idle"]
        BY <3>1, AbstractReqIs
      <3> QED BY <3>2, <3>3
    <2> QED BY <2>1, <2>2
  <1> QED BY <1>1, <1>2 DEF AbsReq

\* A file that a connection serves holds what that connection makes of it.
LEMMA ServedFile ==
  ASSUME Typed, OneAtATime, NEW f \in Serial, NEW c \in Clients, Serves(c, f)
  PROVE  AbstractFile(f) =
           IF conn[c].pc = "write" THEN conn[c].request.body ELSE disk[f]
  <1>1. \A d \in Writers(f) : d \in Clients /\ Serves(d, f)
    BY DEF Writers, Serves, Typed, ConnsOK, ConnOK
  <1>2. \A d \in Writers(f) : d = c
    BY <1>1 DEF OneAtATime
  <1>3. CASE conn[c].pc = "write"
    <2>1. c \in Writers(f)
      BY <1>3 DEF Writers, Serves
    <2>2. (CHOOSE d \in Writers(f) : TRUE) = c
      BY <1>2, <2>1
    <2> QED BY <1>3, <2>1, <2>2 DEF AbstractFile
  <1>4. CASE conn[c].pc # "write"
    <2>1. Writers(f) = {}
      BY <1>2, <1>4 DEF Writers
    <2> QED BY <1>4, <2>1 DEF AbstractFile
  <1> QED BY <1>3, <1>4

\* The file it serves, after its step.
LEMMA NewFile ==
  ASSUME Typed, OneAtATime, NEW f \in Serial, NEW c \in Clients, Serves(c, f),
         NEW q, Moves(c, q), q.request = conn[c].request
  PROVE  AbstractFile(f)' = IF q.pc = "write" THEN q.request.body ELSE disk'[f]
  <1>1. ASSUME NEW d \in Clients \ {c}
        PROVE  ~(conn'[d].pc = "write" /\ conn'[d].request.file = f)
    <2>1. ~(conn[d].pc = "write" /\ conn[d].request.file = f)
      <3>1. ~Serves(d, f)
        BY DEF OneAtATime
      <3> QED BY <3>1 DEF Serves, Typed, ConnsOK, ConnOK
    <2> QED BY <2>1 DEF Moves
  <1>2. conn'[c] = q /\ q.request.file = f
    BY DEF Moves, Serves
  <1>3. CASE q.pc = "write"
    <2>1. Writers(f)' = {c}
      BY <1>1, <1>2, <1>3 DEF Writers
    <2>2. (CHOOSE d \in {c} : TRUE) = c
      OBVIOUS
    <2> QED BY <1>2, <1>3, <2>1, <2>2 DEF AbstractFile
  <1>4. CASE q.pc # "write"
    <2>1. Writers(f)' = {}
      BY <1>1, <1>2, <1>4 DEF Writers
    <2> QED BY <1>4, <2>1 DEF AbstractFile
  <1> QED BY <1>3, <1>4

\* A file that c is not writing and does not change is the same to the clients.
LEMMA SameFile ==
  ASSUME NEW f \in Serial, NEW c \in Clients, NEW q, Moves(c, q), disk'[f] = disk[f],
         ~(conn[c].pc = "write" /\ conn[c].request.file = f),
         ~(q.pc = "write" /\ q.request.file = f)
  PROVE  AbstractFile(f)' = AbstractFile(f)
  <1>1. \A d \in Clients :
          (conn'[d].pc = "write" /\ conn'[d].request.file = f) <=>
          (conn[d].pc = "write" /\ conn[d].request.file = f)
    BY DEF Moves
  <1>2. Writers(f)' = Writers(f)
    BY <1>1 DEF Writers
  <1>3. \A d \in Writers(f) : conn'[d] = conn[d]
    BY DEF Writers, Moves
  <1>4. CASE Writers(f) = {}
    BY <1>2, <1>4 DEF AbstractFile
  <1>5. CASE Writers(f) # {}
    <2> DEFINE w == CHOOSE d \in Writers(f) : TRUE
    <2>1. w \in Writers(f) /\ conn'[w] = conn[w]
      BY <1>3, <1>5
    <2>2. AbstractFile(f) = conn[w].request.body
      BY <1>5 DEF AbstractFile
    <2>3. AbstractFile(f)' = conn'[w].request.body
      BY <1>2, <1>5 DEF AbstractFile
    <2> QED BY <2>1, <2>2, <2>3
  <1> QED BY <1>4, <1>5

LEMMA SameFiles ==
  ASSUME NEW c \in Clients, NEW q, Moves(c, q), q.pc # "write", conn[c].pc # "write",
         \A f \in Serial : disk'[f] = disk[f]
  PROVE  AbsFiles' = AbsFiles
  <1>1. \A f \in Serial : AbstractFile(f)' = AbstractFile(f)
    BY SameFile
  <1> QED BY <1>1 DEF AbsFiles

LEMMA Stutters ==
  ASSUME AbsFiles' = AbsFiles, AbsReq' = AbsReq, folders' = folders
  PROVE  UNCHANGED Folder!fvars
  BY DEF AbsFiles, AbsReq, Folder!fvars

\* The request r takes effect in the folder with the answer a.
Takes(r, a) ==
  \/ /\ r.op = "GET" /\ AbsFiles' = AbsFiles /\ folders' = folders
     /\ a = IF AbsFiles[r.file] = NoFile THEN <<404>> ELSE <<200, AbsFiles[r.file]>>
  \/ /\ r.op = "PUT" /\ Met(r.mode, AbsFiles[r.file])
     /\ In[r.file] \subseteq folders /\ folders' = folders
     /\ AbsFiles' = [AbsFiles EXCEPT ![r.file] = r.body] /\ a = Written(r.mode)
  \/ /\ r.op = "PUT" /\ ~Met(r.mode, AbsFiles[r.file])
     /\ AbsFiles' = AbsFiles /\ folders' = folders /\ a = <<412>>
  \/ /\ r.op = "PUT" /\ Met(r.mode, AbsFiles[r.file])
     /\ ~(In[r.file] \subseteq folders)
     /\ AbsFiles' = AbsFiles /\ folders' = folders /\ a = <<409>>
  \/ /\ r.op = "DELETE" /\ folders' = folders
     /\ AbsFiles' = [AbsFiles EXCEPT ![r.file] = NoFile]
     /\ a = IF AbsFiles[r.file] = NoFile THEN <<404>> ELSE <<204>>
  \/ /\ r.op = "MKCOL" /\ AbsFiles' = AbsFiles
     /\ folders' = folders \cup {r.folder}
     /\ a = IF r.folder \in folders THEN <<405>> ELSE <<201>>

LEMMA Effects ==
  ASSUME NEW c \in Clients, NEW r, NEW a, AbsReq[c] = Waiting(r), Takes(r, a),
         AbsReq' = [AbsReq EXCEPT ![c] = Answered(r, a)]
  PROVE  Folder!Next
  <1>1. AbsReq[c].state = "waiting" /\ AbsReq[c].request = r
    BY DEF Waiting
  <1>2. \A mode, cur : Folder!Met(mode, cur) <=> Met(mode, cur)
    BY DEF Folder!Met, Met
  <1>3. \A mode : Folder!Written(mode) = Written(mode)
    BY DEF Folder!Written, Written
  <1>4. Folder!Becomes(c, Folder!Answered(r, a))
    BY DEF Folder!Becomes, Folder!Answered, Answered, AbsReq
  <1>5. \/ Folder!Get(c, r) \/ Folder!Put(c, r) \/ Folder!Delete(c, r)
        \/ Folder!MakeCollection(c, r)
    BY <1>2, <1>3, <1>4
    DEF Takes, Folder!Get, Folder!Put, Folder!Delete, Folder!MakeCollection, AbsFiles
  <1>6. Folder!Effect(c)
    BY <1>1, <1>5 DEF Folder!Effect, AbsReq
  <1> QED BY <1>6 DEF Folder!Next

Refined == SerialInv' /\ [Folder!Next]_(Folder!fvars)

\* A step of which the clients see nothing.
LEMMA Quiet ==
  ASSUME SerialInv, NEW c \in Clients, NEW q, Moves(c, q),
         conn[c].pc # "idle", q.pc # "idle", q.request = conn[c].request,
         AbstractReq(q) = AbstractReq(conn[c]), AbsFiles' = AbsFiles, folders' = folders
  PROVE  [Folder!Next]_(Folder!fvars)
  <1>1. AbsReq' = AbsReq
    BY ReqMoves DEF AbsReq
  <1> QED BY <1>1, Stutters

LEMMA StepMoves ==
  ASSUME Typed, OneAtATime, NEW c \in Clients, Step(c)
  PROVE  /\ conn[c].pc # "idle" /\ conn[c].request \in Requests
         /\ conn[c].request.op # "MKCOL" => folders' = folders
         /\ \A f \in Serial : disk'[f] = disk[f] \/ Serves(c, f)
         /\ \E q : /\ Moves(c, q)
                   /\ q = Idle \/ (q.pc # "idle" /\ q.request = conn[c].request)
  <1> DEFINE r == conn[c].request
  <1>1. CASE GetRead(c) \/ GetStat(c) \/ Check(c) \/ Stat(c) \/ Return(c)
    <2>1. conn[c].pc # "idle" /\ UNCHANGED <<disk, folders>>
      BY <1>1 DEF GetRead, GetStat, Check, Stat, Return, At
    <2>2. \E q : /\ Becomes(c, q)
                 /\ q = Idle \/ (q.pc # "idle" /\ q.request = r)
      <3>1. CASE GetRead(c)
        BY <3>1 DEF GetRead, Answer
      <3>2. CASE GetStat(c)
        BY <3>2 DEF GetStat, Answer
      <3>3. CASE Check(c)
        BY <3>3 DEF Check, Answer, Handling
      <3>4. CASE Stat(c)
        BY <3>4 DEF Stat, Answer
      <3>5. CASE Return(c)
        BY <3>5 DEF Return
      <3> QED BY <1>1, <3>1, <3>2, <3>3, <3>4, <3>5
    <2> QED BY <2>1, <2>2, BecomesMoves DEF Typed, ConnsOK, ConnOK
  <1>2. CASE MakeCollection(c)
    <2>1. /\ conn[c].pc # "idle" /\ r.op = "MKCOL" /\ UNCHANGED disk
      BY <1>2 DEF MakeCollection, At
    <2>2. \E q : Becomes(c, q) /\ q.pc # "idle" /\ q.request = r
      BY <1>2 DEF MakeCollection, Answer
    <2> QED BY <2>1, <2>2, BecomesMoves DEF Typed, ConnsOK, ConnOK
  <1>3. CASE Open(c) \/ Write(c)
    <2>1. /\ conn[c].pc # "idle" /\ r.op = "PUT" /\ UNCHANGED folders
      BY <1>3 DEF Open, Write, At
    <2>2. \E q : Becomes(c, q) /\ q.pc # "idle" /\ q.request = r
      <3>1. CASE Open(c)
        BY <3>1 DEF Open, Answer, Writing
      <3>2. CASE Write(c)
        BY <3>2 DEF Write, Handling
      <3> QED BY <1>3, <3>1, <3>2
    <2>3. \A f \in Serial : disk'[f] = disk[f] \/ r.file = f
      BY <1>3, CloudAssumption DEF Open, Write, Typed
    <2> QED BY <2>1, <2>2, <2>3, BecomesMoves DEF Typed, ConnsOK, ConnOK, Serves
  <1>4. CASE Remove(c)
    <2>1. /\ conn[c].pc # "idle" /\ r.op = "DELETE" /\ UNCHANGED folders
      BY <1>4 DEF Remove, At
    <2>2. \A f \in Serial : disk'[f] = disk[f] \/ r.file = f
      BY <1>4, CloudAssumption DEF Remove, Typed
    <2>3. \E q : Moves(c, q) /\ q.pc # "idle" /\ q.request = r
      <3>1. CASE disk[r.file] = NoFile
        <4>1. Becomes(c, Answer(r, <<404>>))
          BY <1>4, <3>1 DEF Remove
        <4> QED BY <4>1, BecomesMoves DEF Answer
      <3>2. CASE disk[r.file] # NoFile
        <4>1. Moves(c, Answer(r, <<204>>))
          BY <1>4, <3>2, RemoveMoves
        <4> QED BY <4>1 DEF Answer
      <3> QED BY <3>1, <3>2
    <2> QED BY <2>1, <2>2, <2>3 DEF Typed, ConnsOK, ConnOK, Serves
  <1> QED BY <1>1, <1>2, <1>3, <1>4 DEF Step

\* A request on a file that is not served serially.
LEMMA UnseenStep ==
  ASSUME Typed, SerialInv, NEW c \in Clients, Step(c), ~Seen(conn[c].request)
  PROVE  Refined
  <1> DEFINE r == conn[c].request
  <1>1. PICK q : /\ Moves(c, q)
                 /\ q = Idle \/ (q.pc # "idle" /\ q.request = r)
    BY StepMoves DEF SerialInv
  <1>2. /\ conn[c].pc # "idle" /\ r.op # "MKCOL" /\ r.file \notin Serial
        /\ folders' = folders
        /\ \A f \in Serial : disk'[f] = disk[f] /\ ~Serves(c, f)
    BY StepMoves DEF SerialInv, Seen, Serves
  <1>3. q.pc = "idle" => q = Idle
    BY <1>1 DEF Idle
  <1>4. SerialInv'
    <2>1. q.pc # "idle" => conn[c].pc # "idle" /\ q.request = conn[c].request
      BY <1>1, <1>2, <1>3 DEF Idle
    <2> QED BY <1>1, <1>2, <2>1, SerialKept
  <1>5. AbsFiles' = AbsFiles
    <2>1. \A f \in Serial : ~(q.pc = "write" /\ q.request.file = f)
      BY <1>1, <1>2 DEF Idle
    <2>2. \A f \in Serial : AbstractFile(f)' = AbstractFile(f)
      BY <1>1, <1>2, <2>1, SameFile
    <2> QED BY <2>2 DEF AbsFiles
  <1>6. AbstractReq(q) = AbstractReq(conn[c])
    <2>1. AbstractReq(conn[c]) = [state |-> "idle"]
      BY <1>2, AbstractReqIs
    <2>2. AbstractReq(q) = [state |-> "idle"]
      BY <1>1, AbstractReqIs, AbstractIdle
    <2> QED BY <2>1, <2>2
  <1>7. AbsReq' = AbsReq
    BY <1>1, <1>6, ReqMoves DEF AbsReq
  <1> QED BY <1>2, <1>4, <1>5, <1>7, Stutters DEF Refined

\* A request of c on a file that is served serially, or for a collection.
LEMMA SeenIs ==
  ASSUME Typed, SerialInv, NEW c \in Clients, NEW r, conn[c].request = r,
         conn[c].pc # "idle", Seen(r)
  PROVE  /\ r.op # "MKCOL" => /\ r.file \in Serial /\ Serves(c, r.file)
                              /\ Agrees(conn[c], disk[r.file])
                              /\ conn[c].pc # "write" => AbsFiles[r.file] = disk[r.file]
         /\ conn[c].pc \in {"handle", "read", "open"} => AbsReq[c] = Waiting(r)
         /\ conn[c].pc \in {"write", "stat"} => AbsReq[c] = Answered(r, Written(r.mode))
         /\ conn[c].pc = "answer" => AbsReq[c] = Answered(r, conn[c].answer)
  <1>1. AbsReq[c] = AbstractReq(conn[c])
    BY DEF AbsReq
  <1>2. ASSUME r.op # "MKCOL"
        PROVE  /\ r.file \in Serial /\ Serves(c, r.file)
               /\ Agrees(conn[c], disk[r.file])
               /\ conn[c].pc # "write" => AbsFiles[r.file] = disk[r.file]
    <2>1. r.file \in Serial /\ Serves(c, r.file)
      BY <1>2 DEF Seen, Serves
    <2>2. Agrees(conn[c], disk[r.file])
      BY <2>1 DEF SerialInv, Aligned
    <2>3. AbstractFile(r.file) = IF conn[c].pc = "write" THEN r.body ELSE disk[r.file]
      BY <2>1, ServedFile DEF SerialInv
    <2> QED BY <2>1, <2>2, <2>3 DEF AbsFiles
  <1> QED BY <1>1, <1>2, AbstractReqIs

\* A step that changes no file and answers, or goes on to a later stage.
LEMMA StepKeeps ==
  ASSUME Typed, SerialInv, NEW c \in Clients, NEW q, Becomes(c, q),
         conn[c].pc \notin {"idle", "write"}, q.pc \notin {"idle", "write"},
         q.request = conn[c].request, Seen(conn[c].request), UNCHANGED disk,
         conn[c].request.op # "MKCOL" => Agrees(q, disk[conn[c].request.file])
  PROVE  /\ SerialInv' /\ AbsFiles' = AbsFiles
         /\ AbsReq' = [AbsReq EXCEPT ![c] = AbstractReq(q)]
  <1>1. Moves(c, q)
    BY BecomesMoves
  <1>2. SerialInv'
    BY <1>1, SerialKept DEF Serves
  <1>3. AbsFiles' = AbsFiles
    BY <1>1, SameFiles
  <1> QED BY <1>1, <1>2, <1>3, ReqMoves

LEMMA AnswerIs ==
  \A r, a : /\ Answer(r, a).pc = "answer" /\ Answer(r, a).request = r
            /\ \A cur : Agrees(Answer(r, a), cur)
            /\ Seen(r) => AbstractReq(Answer(r, a)) = Answered(r, a)
  <1> TAKE r, a
  <1>1. /\ Answer(r, a).pc = "answer" /\ Answer(r, a).request = r
        /\ Answer(r, a).answer = a
    BY DEF Answer
  <1> QED BY <1>1, AbstractReqIs DEF Agrees

LEMMA GetRefines ==
  ASSUME Typed, SerialInv, NEW c \in Clients, GetRead(c) \/ GetStat(c),
         Seen(conn[c].request)
  PROVE  Refined
  <1> DEFINE r == conn[c].request
             cur == disk[r.file]
             a   == IF cur = NoFile THEN <<404>> ELSE <<200, cur>>
  <1>1. /\ r.op = "GET" /\ conn[c].pc \in {"handle", "read"}
        /\ UNCHANGED <<disk, folders>>
    BY DEF GetRead, GetStat, At
  <1>2. /\ r.file \in Serial /\ AbsFiles[r.file] = cur /\ AbsReq[c] = Waiting(r)
        /\ conn[c].pc = "read" => conn[c].data = cur /\ cur # NoFile
    BY <1>1, SeenIs DEF Agrees
  <1>3. ASSUME Becomes(c, Answer(r, a)) PROVE Refined
    <2>1. /\ SerialInv' /\ AbsFiles' = AbsFiles
          /\ AbsReq' = [AbsReq EXCEPT ![c] = Answered(r, a)]
      <3> HIDE DEF a
      <3> QED BY <1>1, <1>3, AnswerIs, StepKeeps
    <2>2. Takes(r, a)
      BY <1>1, <1>2, <2>1 DEF Takes
    <2>3. Folder!Next
      <3> HIDE DEF a
      <3> QED BY <1>2, <2>1, <2>2, Effects
    <2> QED BY <2>1, <2>3 DEF Refined
  <1>4. CASE GetRead(c) /\ cur = NoFile
    BY <1>3, <1>4 DEF GetRead
  <1>5. CASE GetRead(c) /\ cur # NoFile
    <2> DEFINE q == [pc |-> "read", request |-> r, data |-> cur]
    <2>1. Becomes(c, q)
      BY <1>5 DEF GetRead
    <2>2. AbstractReq(q) = Waiting(r)
      BY AbstractReqIs
    <2>3. /\ SerialInv' /\ AbsFiles' = AbsFiles
          /\ AbsReq' = [AbsReq EXCEPT ![c] = AbstractReq(q)]
      BY <1>1, <1>5, <2>1, StepKeeps DEF Agrees
    <2>4. AbsReq' = AbsReq
      BY <1>2, <2>2, <2>3 DEF AbsReq
    <2> QED BY <1>1, <2>3, <2>4, Stutters DEF Refined
  <1>6. CASE GetStat(c)
    <2>1. conn[c].pc = "read"
      BY <1>6 DEF GetStat, At
    <2>2. Becomes(c, Answer(r, <<200, cur>>))
      BY <1>2, <1>6, <2>1 DEF GetStat
    <2> QED BY <1>2, <1>3, <2>1, <2>2
  <1> QED BY <1>4, <1>5, <1>6

LEMMA CheckRefines ==
  ASSUME Typed, SerialInv, NEW c \in Clients, Check(c), Seen(conn[c].request)
  PROVE  Refined
  <1> DEFINE r == conn[c].request
  <1>1. r.op = "PUT" /\ conn[c].pc = "handle" /\ UNCHANGED <<disk, folders>>
    BY DEF Check, At
  <1>2. r.file \in Serial /\ AbsFiles[r.file] = disk[r.file] /\ AbsReq[c] = Waiting(r)
    BY <1>1, SeenIs
  <1>3. CASE Met(r.mode, disk[r.file])
    <2> DEFINE q == Handling("open", r)
    <2>1. Becomes(c, q)
      BY <1>3 DEF Check
    <2>2. q.pc = "open" /\ q.request = r
      BY DEF Handling
    <2>3. AbstractReq(q) = Waiting(r)
      BY <2>2, AbstractReqIs
    <2>4. Agrees(q, disk[r.file])
      BY <1>3, <2>2 DEF Agrees
    <2>5. /\ SerialInv' /\ AbsFiles' = AbsFiles
          /\ AbsReq' = [AbsReq EXCEPT ![c] = AbstractReq(q)]
      <3> HIDE DEF q
      <3> QED BY <1>1, <2>1, <2>2, <2>4, StepKeeps
    <2>6. AbsReq' = AbsReq
      BY <1>2, <2>3, <2>5 DEF AbsReq
    <2> QED BY <1>1, <2>5, <2>6, Stutters DEF Refined
  <1>4. CASE ~Met(r.mode, disk[r.file])
    <2>1. Becomes(c, Answer(r, <<412>>))
      BY <1>4 DEF Check
    <2>2. /\ SerialInv' /\ AbsFiles' = AbsFiles
          /\ AbsReq' = [AbsReq EXCEPT ![c] = Answered(r, <<412>>)]
      BY <1>1, <2>1, AnswerIs, StepKeeps
    <2>3. Takes(r, <<412>>)
      BY <1>1, <1>2, <1>4, <2>2 DEF Takes
    <2>4. Folder!Next
      BY <1>2, <2>2, <2>3, Effects
    <2> QED BY <2>2, <2>4 DEF Refined
  <1> QED BY <1>3, <1>4

\* A write takes effect when it truncates the file.
LEMMA OpenRefines ==
  ASSUME Typed, SerialInv, NEW c \in Clients, Open(c), Seen(conn[c].request)
  PROVE  Refined
  <1> DEFINE r == conn[c].request
  <1>1. r.op = "PUT" /\ conn[c].pc = "open" /\ UNCHANGED folders
    BY DEF Open, At
  <1>2. /\ r.file \in Serial /\ AbsFiles[r.file] = disk[r.file] /\ AbsReq[c] = Waiting(r)
        /\ Met(r.mode, disk[r.file]) /\ Serves(c, r.file)
    BY <1>1, SeenIs DEF Agrees
  <1>3. CASE In[r.file] \subseteq folders
    <2> DEFINE q == Writing("write", r, TRUE)
    <2>1. Becomes(c, q) /\ disk' = [disk EXCEPT ![r.file] = << >>]
      BY <1>3 DEF Open
    <2>2. q.pc = "write" /\ q.request = r /\ q.fd = TRUE
      BY DEF Writing
    <2> HIDE DEF q
    <2>3. Moves(c, q) /\ conn'[c] = q
      BY <2>1, BecomesMoves DEF Moves
    <2>4. /\ \A f \in Serial : f # r.file => disk'[f] = disk[f]
          /\ disk'[r.file] = << >>
      BY <1>2, <2>1, CloudAssumption DEF Typed
    <2>5. SerialInv'
      <3>1. \A f \in Serial : Serves(c, f) => f = r.file
        BY DEF Serves
      <3>2. Agrees(q, disk'[r.file])
        BY <2>2, <2>4 DEF Agrees
      <3>3. \A f \in Serial : disk'[f] = disk[f] \/ Serves(c, f)
        BY <1>2, <2>4
      <3> QED BY <1>1, <2>2, <2>3, <3>1, <3>2, <3>3, SerialKept
    <2>6. ASSUME NEW f \in Serial, f = r.file
          PROVE  AbstractFile(f)' = r.body
      <3>1. Serves(c, f)
        BY <1>2, <2>6
      <3> QED BY <2>2, <2>3, <3>1, NewFile DEF SerialInv
    <2>7. AbsFiles' = [AbsFiles EXCEPT ![r.file] = r.body]
      <3>1. ASSUME NEW f \in Serial, f # r.file
            PROVE  AbstractFile(f)' = AbstractFile(f)
        BY <1>1, <2>2, <2>3, <2>4, <3>1, SameFile
      <3>2. \A f \in Serial :
              AbstractFile(f)' = IF f = r.file THEN r.body ELSE AbstractFile(f)
        BY <2>6, <3>1
      <3> QED BY <1>2, <3>2 DEF AbsFiles
    <2>8. AbsReq' = [AbsReq EXCEPT ![c] = Answered(r, Written(r.mode))]
      BY <2>2, <2>3, ReqMoves, AbstractReqIs
    <2>9. Takes(r, Written(r.mode))
      BY <1>1, <1>2, <1>3, <2>7 DEF Takes
    <2>10. Folder!Next
      BY <1>2, <2>8, <2>9, Effects
    <2> QED BY <2>5, <2>10 DEF Refined
  <1>4. CASE ~(In[r.file] \subseteq folders)
    <2>1. Becomes(c, Answer(r, <<409>>)) /\ UNCHANGED disk
      BY <1>4 DEF Open
    <2>2. /\ SerialInv' /\ AbsFiles' = AbsFiles
          /\ AbsReq' = [AbsReq EXCEPT ![c] = Answered(r, <<409>>)]
      BY <1>1, <2>1, AnswerIs, StepKeeps
    <2>3. Takes(r, <<409>>)
      BY <1>1, <1>2, <1>4, <2>2 DEF Takes
    <2>4. Folder!Next
      BY <1>2, <2>2, <2>3, Effects
    <2> QED BY <2>2, <2>4 DEF Refined
  <1> QED BY <1>3, <1>4

\* The body goes over the empty file that the truncation left.
LEMMA WriteRefines ==
  ASSUME Typed, SerialInv, NEW c \in Clients, Write(c), Seen(conn[c].request)
  PROVE  Refined
  <1> DEFINE r == conn[c].request
             q == Handling("stat", r)
  <1>1. /\ r.op = "PUT" /\ conn[c].pc = "write" /\ UNCHANGED folders
        /\ r.body \in Seq(Blocks)
    BY AtOK, ContentFacts DEF Write, At
  <1>2. /\ r.file \in Serial /\ Serves(c, r.file) /\ conn[c].fd = TRUE
        /\ disk[r.file] = << >> /\ AbsReq[c] = Answered(r, Written(r.mode))
    BY <1>1, SeenIs DEF Agrees
  <1>3. q.pc = "stat" /\ q.request = r
    BY DEF Handling
  <1>4. Moves(c, q)
    BY BecomesMoves DEF Write
  <1> HIDE DEF q
  <1>5. Overlay(r.body, << >>) = r.body
    <2>1. << >> \in Seq(Blocks)
      OBVIOUS
    <2> QED BY <1>1, <2>1, OverlayFacts
  <1>6. disk' = [disk EXCEPT ![r.file] = r.body]
    <2>1. disk' = [disk EXCEPT ![r.file] = Overlay(r.body, disk[r.file])]
      BY <1>2 DEF Write
    <2> QED BY <1>2, <1>5, <2>1
  <1>7. /\ \A f \in Serial : f # r.file => disk'[f] = disk[f]
        /\ disk'[r.file] = r.body
    BY <1>2, <1>6, CloudAssumption DEF Typed
  <1>8. SerialInv'
    <2>1. \A f \in Serial : Serves(c, f) => f = r.file
      BY DEF Serves
    <2>2. Agrees(q, disk'[r.file])
      BY <1>3, <1>7 DEF Agrees
    <2>3. \A f \in Serial : disk'[f] = disk[f] \/ Serves(c, f)
      BY <1>2, <1>7
    <2> QED BY <1>1, <1>3, <1>4, <2>1, <2>2, <2>3, SerialKept
  <1>9. ASSUME NEW f \in Serial PROVE AbstractFile(f)' = AbstractFile(f)
    <2>1. CASE f = r.file
      <3>1. Serves(c, f)
        BY <1>2, <2>1
      <3>2. AbstractFile(f) = r.body
        BY <1>1, <3>1, ServedFile DEF SerialInv
      <3>3. AbstractFile(f)' = disk'[f]
        BY <1>3, <1>4, <3>1, NewFile DEF SerialInv
      <3> QED BY <1>7, <2>1, <3>2, <3>3
    <2>2. CASE f # r.file
      BY <1>3, <1>4, <1>7, <2>2, SameFile
    <2> QED BY <2>1, <2>2
  <1>10. AbsFiles' = AbsFiles
    BY <1>9 DEF AbsFiles
  <1>11. AbsReq' = AbsReq
    <2>1. AbstractReq(q) = Answered(r, Written(r.mode))
      BY <1>3, AbstractReqIs
    <2> QED BY <1>2, <1>4, <2>1, ReqMoves DEF AbsReq
  <1> QED BY <1>1, <1>8, <1>10, <1>11, Stutters DEF Refined

LEMMA StatRefines ==
  ASSUME Typed, SerialInv, NEW c \in Clients, Stat(c), Seen(conn[c].request)
  PROVE  Refined
  <1> DEFINE r == conn[c].request
             a == Written(r.mode)
  <1>1. /\ r.op = "PUT" /\ conn[c].pc = "stat" /\ UNCHANGED <<disk, folders>>
        /\ r.body \in Bodies
    BY AtOK DEF Stat, At
  <1>2. disk[r.file] = r.body /\ AbsReq[c] = Answered(r, a)
    BY <1>1, SeenIs DEF Agrees
  <1>3. disk[r.file] # NoFile
    BY <1>1, <1>2, ContentFacts
  <1>4. Becomes(c, Answer(r, a))
    BY <1>3 DEF Stat
  <1>5. /\ SerialInv' /\ AbsFiles' = AbsFiles
        /\ AbsReq' = [AbsReq EXCEPT ![c] = Answered(r, a)]
    BY <1>1, <1>4, AnswerIs, StepKeeps
  <1>6. AbsReq' = AbsReq
    BY <1>2, <1>5 DEF AbsReq
  <1> QED BY <1>1, <1>5, <1>6, Stutters DEF Refined

LEMMA RemoveRefines ==
  ASSUME Typed, SerialInv, NEW c \in Clients, Remove(c), Seen(conn[c].request)
  PROVE  Refined
  <1> DEFINE r == conn[c].request
  <1>1. r.op = "DELETE" /\ conn[c].pc = "handle" /\ UNCHANGED folders
    BY DEF Remove, At
  <1>2. /\ r.file \in Serial /\ AbsFiles[r.file] = disk[r.file] /\ AbsReq[c] = Waiting(r)
        /\ Serves(c, r.file)
    BY <1>1, SeenIs
  <1>3. CASE disk[r.file] # NoFile
    <2> DEFINE q == Answer(r, <<204>>)
    <2>1. /\ Moves(c, q) /\ disk' = [disk EXCEPT ![r.file] = NoFile]
          /\ q.pc = "answer" /\ q.request = r /\ \A cur : Agrees(q, cur)
          /\ AbstractReq(q) = Answered(r, <<204>>)
      <3>1. disk' = [disk EXCEPT ![r.file] = NoFile]
        BY <1>3 DEF Remove
      <3>2. Moves(c, Answer(r, <<204>>))
        BY <1>3, RemoveMoves DEF SerialInv
      <3>3. /\ q.pc = "answer" /\ q.request = r /\ \A cur : Agrees(q, cur)
            /\ AbstractReq(q) = Answered(r, <<204>>)
        BY AnswerIs
      <3> QED BY <3>1, <3>2, <3>3
    <2> HIDE DEF q
    <2>2. /\ \A f \in Serial : f # r.file => disk'[f] = disk[f]
          /\ disk'[r.file] = NoFile
      BY <1>2, <2>1, CloudAssumption DEF Typed
    <2>3. SerialInv'
      <3>1. \A f \in Serial : disk'[f] = disk[f] \/ Serves(c, f)
        BY <1>2, <2>2
      <3> QED BY <1>1, <2>1, <3>1, SerialKept
    <2>4. ASSUME NEW f \in Serial
          PROVE  AbstractFile(f)' = IF f = r.file THEN NoFile ELSE AbstractFile(f)
      <3>1. CASE f = r.file
        <4>1. Serves(c, f)
          BY <1>2, <3>1
        <4>2. AbstractFile(f)' = disk'[f]
          BY <2>1, <4>1, NewFile DEF SerialInv
        <4> QED BY <2>2, <3>1, <4>2
      <3>2. CASE f # r.file
        <4>1. AbstractFile(f)' = AbstractFile(f)
          BY <1>1, <2>1, <2>2, <3>2, SameFile
        <4> QED BY <3>2, <4>1
      <3> QED BY <3>1, <3>2
    <2>5. AbsFiles' = [AbsFiles EXCEPT ![r.file] = NoFile]
      BY <1>2, <2>4 DEF AbsFiles
    <2>6. AbsReq' = [AbsReq EXCEPT ![c] = Answered(r, <<204>>)]
      BY <2>1, ReqMoves
    <2>7. Takes(r, <<204>>)
      BY <1>1, <1>2, <1>3, <2>5 DEF Takes
    <2>8. Folder!Next
      BY <1>2, <2>6, <2>7, Effects
    <2> QED BY <2>3, <2>8 DEF Refined
  <1>4. CASE disk[r.file] = NoFile
    <2>1. Becomes(c, Answer(r, <<404>>)) /\ UNCHANGED disk
      BY <1>4 DEF Remove
    <2>2. /\ SerialInv' /\ AbsFiles' = AbsFiles
          /\ AbsReq' = [AbsReq EXCEPT ![c] = Answered(r, <<404>>)]
      BY <1>1, <2>1, AnswerIs, StepKeeps
    <2>3. AbsFiles = [AbsFiles EXCEPT ![r.file] = NoFile]
      BY <1>2, <1>4 DEF AbsFiles
    <2>4. Takes(r, <<404>>)
      BY <1>1, <1>2, <1>4, <2>2, <2>3 DEF Takes
    <2>5. Folder!Next
      BY <1>2, <2>2, <2>4, Effects
    <2> QED BY <2>2, <2>5 DEF Refined
  <1> QED BY <1>3, <1>4

LEMMA MakeCollectionRefines ==
  ASSUME Typed, SerialInv, NEW c \in Clients, MakeCollection(c), Seen(conn[c].request)
  PROVE  Refined
  <1> DEFINE r == conn[c].request
             a == IF r.folder \in folders THEN <<405>> ELSE <<201>>
  <1>1. /\ r.op = "MKCOL" /\ conn[c].pc = "handle" /\ UNCHANGED disk
        /\ folders' = folders \cup {r.folder} /\ Becomes(c, Answer(r, a))
    BY DEF MakeCollection, At
  <1>2. AbsReq[c] = Waiting(r)
    BY <1>1, SeenIs
  <1>3. /\ SerialInv' /\ AbsFiles' = AbsFiles
        /\ AbsReq' = [AbsReq EXCEPT ![c] = Answered(r, a)]
    <2> HIDE DEF a
    <2> QED BY <1>1, AnswerIs, StepKeeps
  <1>4. Takes(r, a)
    BY <1>1, <1>3 DEF Takes
  <1>5. Folder!Next
    BY <1>2, <1>3, <1>4, Effects
  <1> QED BY <1>3, <1>5 DEF Refined

LEMMA ReturnRefines ==
  ASSUME Typed, SerialInv, NEW c \in Clients, Return(c), Seen(conn[c].request)
  PROVE  Refined
  <1> DEFINE r == conn[c].request
  <1>1. /\ conn[c].pc = "answer" /\ UNCHANGED <<disk, folders>> /\ Moves(c, Idle)
    BY BecomesMoves DEF Return
  <1>2. Idle.pc = "idle"
    BY DEF Idle
  <1>3. SerialInv'
    BY <1>1, <1>2, SerialKept
  <1>4. AbsFiles' = AbsFiles
    BY <1>1, <1>2, SameFiles
  <1>5. AbsReq[c] = Answered(r, conn[c].answer)
    BY <1>1, SeenIs
  <1>6. AbsReq' = [AbsReq EXCEPT ![c] = [state |-> "idle"]]
    BY <1>1, ReqMoves, AbstractIdle
  <1>7. Folder!Return(c)
    <2>1. AbsReq[c].state = "answered"
      BY <1>5 DEF Answered
    <2> QED BY <1>1, <1>4, <1>6, <2>1
            DEF Folder!Return, Folder!Becomes, Folder!Idle, AbsReq, AbsFiles
  <1> QED BY <1>3, <1>7 DEF Refined, Folder!Next

LEMMA StepRefines ==
  ASSUME Typed, SerialInv, NEW c \in Clients, Step(c)
  PROVE  Refined
  <1>1. CASE ~Seen(conn[c].request)
    BY <1>1, UnseenStep
  <1>2. CASE Seen(conn[c].request)
    BY <1>2, GetRefines, CheckRefines, OpenRefines, WriteRefines, StatRefines,
       RemoveRefines, MakeCollectionRefines, ReturnRefines DEF Step
  <1> QED BY <1>1, <1>2

\* A request on a serial file is taken only when no other is being served.
LEMMA ReceiveRefines ==
  ASSUME Typed, SerialInv, NEW c \in Clients, NEW r \in Requests, Receive(c, r)
  PROVE  Refined
  <1> DEFINE q == Handling("handle", r)
  <1>1. /\ conn[c] = Idle /\ conn[c].pc = "idle" /\ UNCHANGED <<disk, folders>>
        /\ Moves(c, q) /\ conn'[c] = q
    BY BecomesMoves DEF Receive, Idle, Moves
  <1>2. q.pc = "handle" /\ q.request = r
    BY DEF Handling
  <1> HIDE DEF q
  <1>3. \A f \in Serial : \A d \in Clients \ {c} :
          Serves(d, f)' => Serves(d, f) /\ conn'[d] = conn[d]
    BY <1>1 DEF Serves, Moves
  <1>4. ASSUME NEW f \in Serial, Serves(c, f)'
        PROVE  \A d \in Clients \ {c} : ~Serves(d, f)
    <2>1. r.op # "MKCOL" /\ r.file = f
      BY <1>1, <1>2, <1>4 DEF Serves
    <2>2. ~Busy(f)
      BY <2>1 DEF Receive
    <2> QED BY <2>2 DEF Busy, Serves, Idle
  <1>5. SerialInv'
    <2>1. OneAtATime'
      BY <1>3, <1>4 DEF OneAtATime, SerialInv
    <2>2. ASSUME NEW f \in Serial, NEW d \in Clients, Serves(d, f)'
          PROVE  Agrees(conn'[d], disk'[f])
      <3>1. CASE d = c
        BY <1>1, <1>2, <3>1 DEF Agrees
      <3>2. CASE d # c
        <4>1. Serves(d, f) /\ conn'[d] = conn[d]
          BY <1>3, <2>2, <3>2
        <4> QED BY <1>1, <4>1 DEF SerialInv, Aligned
      <3> QED BY <3>1, <3>2
    <2> QED BY <2>1, <2>2 DEF SerialInv, Aligned
  <1>6. AbsFiles' = AbsFiles
    BY <1>1, <1>2, SameFiles
  <1>7. AbsReq[c] = [state |-> "idle"]
    BY <1>1, AbstractIdle DEF AbsReq
  <1>8. AbsReq' = [AbsReq EXCEPT ![c] = AbstractReq(q)]
    BY <1>1, ReqMoves
  <1>9. CASE ~Seen(r)
    <2>1. AbsReq' = AbsReq
      <3>1. AbstractReq(q) = [state |-> "idle"]
        BY <1>2, <1>9, AbstractReqIs
      <3> QED BY <1>7, <1>8, <3>1 DEF AbsReq
    <2> QED BY <1>1, <1>5, <1>6, <2>1, Stutters DEF Refined
  <1>10. CASE Seen(r)
    <2>1. AbstractReq(q) = Waiting(r)
      BY <1>2, <1>10, AbstractReqIs
    <2>2. Folder!Invoke(c, r)
      BY <1>1, <1>6, <1>7, <1>8, <2>1
      DEF Folder!Invoke, Folder!Becomes, Folder!Idle, Folder!Waiting, Waiting, AbsReq, AbsFiles
    <2>3. r \in Folder!Requests
      BY <1>10 DEF Requests, Seen, Modes, Folder!Requests, Folder!Modes
    <2> QED BY <1>5, <2>2, <2>3 DEF Refined, Folder!Next
  <1> QED BY <1>9, <1>10

\* For a file whose requests arrive one after the other the server is the folder
\* that its clients rely on: every read, conditional write, delete and MKCOL takes
\* effect at one instant, whatever happens to the other files, for any
\* connections, files, collections and contents.
THEOREM ServerIsFolder == Spec => Linearizable
  <1>1. Init => SerialInv
    BY DEF Init, SerialInv, OneAtATime, Aligned, Serves, Idle
  <1>2. Init => Folder!Init
    <2> SUFFICES ASSUME Init PROVE Folder!Init
      OBVIOUS
    <2>1. \A c \in Clients : conn[c] = Idle /\ conn[c].pc = "idle"
      BY DEF Init, Idle
    <2>2. \A f \in Serial : AbstractFile(f) = NoFile
      BY <2>1, CloudAssumption DEF Init, AbstractFile, Writers
    <2>3. \A c \in Clients : AbstractReq(conn[c]) = [state |-> "idle"]
      BY <2>1, AbstractIdle
    <2> QED BY <2>2, <2>3 DEF Init, Folder!Init, Folder!Idle
  <1>3. Typed /\ SerialInv /\ [Next]_vars => Refined
    <2> SUFFICES ASSUME Typed, SerialInv, [Next]_vars PROVE Refined
      OBVIOUS
    <2>1. CASE UNCHANGED <<conn, disk, folders>>
      <3>1. SerialInv'
        BY <2>1 DEF SerialInv, OneAtATime, Aligned, Serves
      <3>2. AbsFiles' = AbsFiles /\ AbsReq' = AbsReq /\ folders' = folders
        BY <2>1 DEF AbsFiles, AbstractFile, Writers, AbsReq
      <3> QED BY <3>1, <3>2, Stutters DEF Refined
    <2> QED BY <2>1, StepRefines, ReceiveRefines DEF Next, Tell, vars
  <1>4. Spec => [](Typed /\ SerialInv)
    BY <1>1, <1>3, AlwaysTyped, PTL DEF Spec, Refined
  <1> QED BY <1>2, <1>3, <1>4, PTL DEF Spec, Refined, Linearizable, Folder!Spec
=============================================================================
