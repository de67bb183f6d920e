------------------------- MODULE RemoteListingProofs -------------------------
(***************************************************************************)
(* Every listing a run of performSync works with is the cloud folder at    *)
(* one instant of the call: RemoteListing implements FolderListing, for    *)
(* any paths, any number of runs that share the cursor file, and any       *)
(* number of changes.                                                      *)
(*                                                                         *)
(* The argument.  What has been told of a path up to version n adds up to  *)
(* At(p, n), the state of the path after its n-th change, and At(p, n)     *)
(* never changes for a version that exists.  So it is enough that every    *)
(* cursor is kept with the copy it adds up to (Held, for a run; the same   *)
(* for the cursor file), and that a page without has_more leaves a cursor  *)
(* that is last.  Latest says what a half-drained listing adds up to: the  *)
(* last entry of a path, or what was known when there is none.             *)
(***************************************************************************)
EXTENDS RemoteListing, TLAPS

Within(cursor) == \A p \in Paths : cursor[p] <= last[p]

\* The entry that merging takes for p is the state of p at x's cursor.
Latest(x, p) ==
  \/ Mentions(x.entries, p) = {} /\ KnownBefore(x)[p] = At(p, x.cursor[p])
  \/ \E i \in Mentions(x.entries, p) :
        /\ \A j \in Mentions(x.entries, p) : j <= i
        /\ x.entries[i].rev = At(p, x.cursor[p])

Held(x) ==
  /\ Within(x.cursor)
  /\ x.pc \in {"continue", "list"} => x.entries = << >> /\ x.full = FALSE
  /\ x.pc \in {"continue", "save"} => x.known = Snapshot(x.cursor)
  /\ x.pc = "more" => \A p \in Paths : Latest(x, p)

GoneIsPast   == \A p \in Paths, n \in Nat : <<p, n>> \in gone => n <= last[p]
MissingEmpty == ~exists => Snapshot(last) = Empty

ListingInv ==
  /\ TypeOK
  /\ GoneIsPast
  /\ MissingEmpty
  /\ Within(cache.cursor)
  /\ CacheMatchesCursor
  /\ \A r \in Runs : Held(run[r])
-----------------------------------------------------------------------------
(* Merging *)

\* The folder at a cursor, path by path.
LEMMA SnapshotType ==
  ASSUME NEW c \in Cursors
  PROVE  /\ Snapshot(c) \in Cursors
         /\ \A p \in Paths : Snapshot(c)[p] = At(p, c[p])
BY DEF Snapshot, Cursors, At

\* When the last entry of every path is its state at the cursor, merging gives
\* the folder at the cursor.
LEMMA MergedIsSnapshot ==
  ASSUME NEW x \in Listings, \A p \in Paths : Latest(x, p)
  PROVE  Merged(x) = Snapshot(x.cursor)
<1> SUFFICES ASSUME NEW p \in Paths
             PROVE  Merged(x)[p] = At(p, x.cursor[p])
  BY DEF Merged, Snapshot
<1> DEFINE I == Mentions(x.entries, p)
<1>1. CASE I = {} /\ KnownBefore(x)[p] = At(p, x.cursor[p])
  BY <1>1 DEF Merged
<1>2. CASE \E i \in I : (\A j \in I : j <= i) /\ x.entries[i].rev = At(p, x.cursor[p])
  <2>1. PICK i \in I : (\A j \in I : j <= i) /\ x.entries[i].rev = At(p, x.cursor[p])
    BY <1>2
  <2>2. I \subseteq Nat
    BY DEF Mentions, Listings
  <2>3. \A k \in I : (\A j \in I : j <= k) => k = i
    BY <2>1, <2>2
  <2>4. (CHOOSE k \in I : \A j \in I : j <= k) = i
    BY <2>1, <2>3
  <2> QED BY <2>1, <2>4 DEF Merged
<1> QED BY <1>1, <1>2 DEF Latest

\* An entry appended for p is p's last one, and changes no other path's.
LEMMA AppendLatest ==
  ASSUME NEW x \in Listings, \A q \in Paths : Latest(x, q),
         NEW p \in Paths, NEW n \in Nat,
         NEW y \in Listings,
         y.full = x.full, y.known = x.known,
         y.cursor = [x.cursor EXCEPT ![p] = n],
         y.entries = x.entries \o <<[path |-> p, rev |-> At(p, n)]>>
  PROVE  \A q \in Paths : Latest(y, q)
<1> DEFINE e == [path |-> p, rev |-> At(p, n)]
           k == Len(x.entries) + 1
<1>1. /\ x.entries \in Seq(Told) /\ x.cursor \in Cursors
      /\ e \in Told
  BY DEF Listings, Told, At
<1>2. /\ DOMAIN y.entries = DOMAIN x.entries \cup {k}
      /\ \A i \in DOMAIN x.entries : y.entries[i] = x.entries[i] /\ i < k
      /\ y.entries[k] = e /\ k \in Nat
  BY <1>1
<1>3. KnownBefore(y) = KnownBefore(x)
  BY DEF KnownBefore
<1> SUFFICES ASSUME NEW q \in Paths PROVE Latest(y, q)
  OBVIOUS
<1>4. CASE q = p
  <2>1. k \in Mentions(y.entries, q)
    BY <1>2, <1>4 DEF Mentions
  <2>2. \A j \in Mentions(y.entries, q) : j <= k
    BY <1>2 DEF Mentions
  <2>3. y.entries[k].rev = At(q, y.cursor[q])
    BY <1>1, <1>2, <1>4 DEF Cursors
  <2> QED BY <2>1, <2>2, <2>3 DEF Latest
<1>5. CASE q # p
  <2>1. Mentions(y.entries, q) = Mentions(x.entries, q)
    BY <1>2, <1>5 DEF Mentions
  <2>2. \A i \in Mentions(x.entries, q) : y.entries[i] = x.entries[i]
    BY <1>2 DEF Mentions
  <2>3. y.cursor[q] = x.cursor[q]
    BY <1>1, <1>5 DEF Cursors
  <2>4. Latest(x, q)
    OBVIOUS
  <2> QED BY <1>3, <2>1, <2>2, <2>3, <2>4 DEF Latest
<1> QED BY <1>4, <1>5

\* A page brings what is collected up to the cursor it comes with.
LEMMA PageLatest ==
  ASSUME ListingInv, NEW r \in Runs,
         run[r].pc \in {"continue", "list", "more"},
         NEW page \in Pages(run[r])
  PROVE  LET y == [run[r] EXCEPT !.full = IsFull(run[r]), !.cursor = page.cursor,
                                 !.entries = @ \o page.entries]
         IN /\ y \in Listings
            /\ Within(y.cursor)
            /\ \A p \in Paths : Latest(y, p)
<1> DEFINE x == run[r]
           z(from) == [x EXCEPT !.full = IsFull(x), !.cursor = from]
           y == [x EXCEPT !.full = IsFull(x), !.cursor = page.cursor,
                          !.entries = @ \o page.entries]
<1>1. x \in Listings /\ Held(x) /\ last \in Cursors
  BY DEF ListingInv, TypeOK
<1>2. PICK from \in From(x) :
        \/ page = [cursor |-> from, entries |-> << >>]
        \/ \E p \in Paths, n \in 1 .. MaxChanges :
              n <= last[p] /\ page = Tell(from, p, n)
  <2>1. PICK from \in From(x) :
          page \in {[cursor |-> from, entries |-> << >>]} \cup
                   {Tell(from, t[1], t[2]) :
                      t \in {u \in Paths \X (1 .. MaxChanges) :
                               from[u[1]] < u[2] /\ u[2] <= last[u[1]]}}
    BY DEF Pages
  <2> QED BY <2>1
<1>3. from \in Cursors /\ Within(from)
  <2>1. CASE x.pc # "list"
    BY <1>1, <1>2, <2>1 DEF From, Listings, Held
  <2>2. CASE x.pc = "list"
    <3>1. PICK S \in SUBSET Paths : from = [p \in Paths |-> IF p \in S THEN last[p] ELSE 0]
      BY <1>2, <2>2 DEF From
    <3> QED BY <1>1, <3>1 DEF Within, Cursors
  <2> QED BY <2>1, <2>2
<1>4. z(from) \in Listings
  BY <1>1, <1>3 DEF Listings, IsFull
<1>5. \A p \in Paths : Latest(z(from), p)
  <2> SUFFICES ASSUME NEW p \in Paths PROVE Latest(z(from), p)
    OBVIOUS
  <2>1. CASE x.pc = "continue"
    <3>1. x.entries = << >> /\ x.known = Snapshot(x.cursor) /\ x.cursor \in Cursors
      BY <1>1, <2>1 DEF Held, Listings
    <3>2. from = x.cursor
      BY <1>2, <2>1 DEF From
    <3>3. z(from).entries = << >> /\ z(from).full = FALSE /\ z(from).known = Snapshot(from)
          /\ z(from).cursor = from
      BY <1>1, <2>1, <3>1, <3>2 DEF IsFull, Listings
    <3>4. Mentions(z(from).entries, p) = {}
      BY <3>3 DEF Mentions
    <3>5. KnownBefore(z(from))[p] = At(p, from[p])
      BY <3>1, <3>2, <3>3, SnapshotType DEF KnownBefore
    <3> QED BY <3>3, <3>4, <3>5 DEF Latest
  <2>2. CASE x.pc = "list"
    <3>1. z(from).entries = << >> /\ z(from).full = TRUE /\ z(from).cursor = from
      BY <1>1, <2>2 DEF IsFull, Listings, Held
    <3>2. Mentions(z(from).entries, p) = {}
      BY <3>1 DEF Mentions
    <3>3. At(p, from[p]) = 0
      BY <1>2, <2>2 DEF From, At
    <3>4. KnownBefore(z(from))[p] = 0
      BY <3>1 DEF KnownBefore, Empty
    <3> QED BY <3>1, <3>2, <3>3, <3>4 DEF Latest
  <2>3. CASE x.pc = "more"
    <3>1. from = x.cursor
      BY <1>2, <2>3 DEF From
    <3>2. z(from).full = x.full /\ z(from).cursor = x.cursor
          /\ z(from).known = x.known /\ z(from).entries = x.entries
      BY <1>1, <2>3, <3>1 DEF IsFull, Listings
    <3>3. Latest(x, p)
      BY <1>1, <2>3 DEF Held
    <3> QED BY <3>2, <3>3 DEF Latest, KnownBefore
  <2> QED BY <2>1, <2>2, <2>3
<1>6. CASE page = [cursor |-> from, entries |-> << >>]
  <2>1. x.entries \o << >> = x.entries
    BY <1>1 DEF Listings
  <2>2. y = z(from)
    BY <1>1, <1>6, <2>1 DEF Listings
  <2>3. y.cursor = from
    BY <1>1, <1>6 DEF Listings
  <2> QED BY <1>3, <1>4, <1>5, <2>2, <2>3
<1>7. CASE \E p \in Paths, n \in 1 .. MaxChanges : n <= last[p] /\ page = Tell(from, p, n)
  <2>1. PICK p \in Paths, n \in 1 .. MaxChanges : n <= last[p] /\ page = Tell(from, p, n)
    BY <1>7
  <2>2. n \in Nat
    BY ListingAssumption
  <2>3. /\ y.full = z(from).full /\ y.known = z(from).known
        /\ y.cursor = [z(from).cursor EXCEPT ![p] = n]
        /\ y.entries = z(from).entries \o <<[path |-> p, rev |-> At(p, n)]>>
    BY <1>1, <2>1 DEF Listings, Tell
  <2>4. [path |-> p, rev |-> At(p, n)] \in Told
    BY <2>2 DEF Told, At
  <2>5. y.entries \in Seq(Told)
    <3>1. z(from).entries \in Seq(Told)
      BY <1>4 DEF Listings
    <3> HIDE DEF y, z
    <3> QED BY <2>3, <2>4, <3>1
  <2>6. y.cursor \in Cursors /\ Within(y.cursor)
    BY <1>1, <1>3, <1>4, <2>1, <2>2 DEF Tell, Listings, Cursors, Within
  <2>7. y \in Listings
    BY <1>1, <2>5, <2>6 DEF Listings, IsFull
  <2>8. \A q \in Paths : Latest(y, q)
    BY ZenonT(40), <1>4, <1>5, <2>2, <2>3, <2>7, AppendLatest
  <2> QED BY <2>6, <2>7, <2>8
<1> QED BY <1>2, <1>6, <1>7
-----------------------------------------------------------------------------
(* The invariant *)

\* Versions that exist do not change; new ones may come.
Grows ==
  /\ last' \in Cursors
  /\ \A p \in Paths : last[p] <= last'[p]
  /\ \A p \in Paths, n \in Nat : n <= last[p] => (<<p, n>> \in gone' <=> <<p, n>> \in gone)

\* Whatever other devices do to the folder, what a cursor adds up to stays.
LEMMA GrowsKeepsCursors ==
  ASSUME ListingInv, Grows, UNCHANGED <<cache, run>>
  PROVE  /\ Within(cache.cursor)'
         /\ CacheMatchesCursor'
         /\ \A r \in Runs : Held(run[r])'
<1>1. /\ last \in Cursors /\ last' \in Cursors
      /\ cache \in Caches
      /\ \A r \in Runs : run[r] \in Listings
  BY DEF ListingInv, TypeOK, Grows
<1>2. \A c \in Cursors : Within(c) => /\ \A p \in Paths : c[p] <= last'[p]
                                      /\ \A p \in Paths : At(p, c[p])' = At(p, c[p])
  <2> SUFFICES ASSUME NEW c \in Cursors, Within(c), NEW p \in Paths
               PROVE  c[p] <= last'[p] /\ At(p, c[p])' = At(p, c[p])
    OBVIOUS
  <2>1. c[p] \in Nat /\ last[p] \in Nat /\ last'[p] \in Nat /\ c[p] <= last[p]
    BY <1>1 DEF Within, Cursors
  <2>2. c[p] <= last'[p]
    BY <2>1 DEF Grows
  <2>3. <<p, c[p]>> \in gone' <=> <<p, c[p]>> \in gone
    BY <2>1 DEF Grows
  <2> QED BY <2>2, <2>3 DEF At
<1>3. Within(cache.cursor)' /\ CacheMatchesCursor'
  <2>1. cache.cursor \in Cursors /\ Within(cache.cursor) /\ CacheMatchesCursor
    BY <1>1 DEF ListingInv, Caches
  <2> QED BY <1>2, <2>1 DEF Within, CacheMatchesCursor, Snapshot
<1>4. ASSUME NEW r \in Runs PROVE Held(run[r])'
  <2> DEFINE x == run[r]
  <2>1. x \in Listings /\ x.cursor \in Cursors /\ Held(x) /\ x' = x
    BY <1>1 DEF ListingInv, Listings
  <2>2. Within(x.cursor) /\ \A p \in Paths : At(p, x.cursor[p])' = At(p, x.cursor[p])
    BY <1>2, <2>1 DEF Held
  <2>3. Within(x.cursor)'
    BY <1>2, <2>1, <2>2 DEF Within
  <2>4. Snapshot(x.cursor)' = Snapshot(x.cursor)
    BY <2>1, <2>2 DEF Snapshot
  <2>5. \A p \in Paths : Latest(x, p)' = Latest(x, p)
    BY <2>1, <2>2 DEF Latest, Mentions, KnownBefore
  <2> QED BY <2>1, <2>3, <2>4, <2>5 DEF Held
<1> QED BY <1>3, <1>4

\* A step of one run that leaves the folder alone.
LEMMA OneRun ==
  ASSUME ListingInv, UNCHANGED remote, NEW r \in Runs, NEW x \in Listings,
         Becomes(r, x), Held(x),
         cache' \in Caches, Within(cache'.cursor),
         cache'.entries = Snapshot(cache'.cursor)
  PROVE  ListingInv'
<1>1. run' \in [Runs -> Listings]
  BY DEF ListingInv, TypeOK, Becomes
<1>2. \A s \in Runs : Held(run'[s])
  BY DEF ListingInv, TypeOK, Becomes
<1>3. TypeOK'
  BY <1>1 DEF ListingInv, TypeOK, remote
<1>4. (GoneIsPast /\ MissingEmpty)'
  BY DEF ListingInv, GoneIsPast, MissingEmpty, remote, Snapshot, At
<1>5. \A s \in Runs : Held(run[s])'
  BY <1>2 DEF Held, Within, Snapshot, Latest, At, Mentions, KnownBefore, remote
<1>6. Within(cache.cursor)' /\ CacheMatchesCursor'
  BY DEF Within, CacheMatchesCursor, Snapshot, At, remote
<1> QED BY <1>3, <1>4, <1>5, <1>6 DEF ListingInv

\* Nothing is cached, told or running at first.
LEMMA InitListing == ASSUME Init PROVE ListingInv
<1>1. \A p \in Paths : At(p, 0) = 0
  BY DEF At
<1>2. Snapshot(Start) = Empty
  BY <1>1 DEF Snapshot, Start, Empty
<1>3. TypeOK
  <2>1. Start \in Cursors /\ Empty \in Cursors /\ << >> \in Seq(Told)
    BY DEF Start, Empty, Cursors
  <2>2. Idle \in Listings /\ NoCache \in Caches
    BY <2>1 DEF Idle, Listings, NoCache, Caches
  <2> QED BY <2>1, <2>2 DEF Init, TypeOK
<1>4. \A r \in Runs : Held(run[r])
  BY DEF Init, Held, Idle, Within, Start
<1> QED
  BY <1>2, <1>3, <1>4 DEF Init, ListingInv, GoneIsPast, MissingEmpty, CacheMatchesCursor,
     NoCache, Within, Start

\* The folder changes.
LEMMA UploadKeeps == ASSUME ListingInv, NEW p \in Paths, Upload(p) PROVE ListingInv'
<1>1. /\ exists' = TRUE /\ gone' = gone /\ last' = [last EXCEPT ![p] = @ + 1]
      /\ cache' = cache /\ run' = run /\ TypeOK /\ GoneIsPast
  BY DEF Upload, ListingInv
<1>2. /\ last' \in Cursors
      /\ \A q \in Paths : last[q] \in Nat /\ last'[q] \in Nat /\ last[q] <= last'[q]
  BY <1>1 DEF TypeOK, Cursors
<1>3. Grows
  BY <1>1, <1>2 DEF Grows
<1>4. TypeOK'
  BY <1>1, <1>2 DEF TypeOK
<1>5. GoneIsPast'
  <2> SUFFICES ASSUME NEW q \in Paths, NEW n \in Nat, <<q, n>> \in gone PROVE n <= last'[q]
    BY <1>1 DEF GoneIsPast
  <2>1. n <= last[q]
    BY <1>1 DEF GoneIsPast
  <2> QED BY <1>2, <2>1
<1>6. MissingEmpty'
  BY <1>1 DEF MissingEmpty
<1> QED BY <1>1, <1>3, <1>4, <1>5, <1>6, GrowsKeepsCursors DEF ListingInv

\* Deletions add versions and touch no earlier one.
LEMMA RemoveKeeps ==
  ASSUME ListingInv, NEW S \in SUBSET Paths, Remove(S), exists' \in BOOLEAN,
         MissingEmpty'
  PROVE  ListingInv'
<1>1. /\ last' = [p \in Paths |-> IF p \in S THEN last[p] + 1 ELSE last[p]]
      /\ gone' = gone \cup {<<p, last[p] + 1>> : p \in S}
      /\ cache' = cache /\ run' = run /\ TypeOK /\ GoneIsPast
  BY DEF Remove, ListingInv
<1>2. /\ last' \in Cursors
      /\ \A q \in Paths : last[q] \in Nat /\ last'[q] \in Nat /\ last[q] <= last'[q]
  BY <1>1 DEF TypeOK, Cursors
<1>3. \A q \in Paths, n \in Nat : <<q, n>> \in gone' <=>
        <<q, n>> \in gone \/ (q \in S /\ n = last[q] + 1)
  BY <1>1
<1>4. Grows
  BY <1>2, <1>3 DEF Grows
<1>5. TypeOK'
  <2>1. {<<p, last[p] + 1>> : p \in S} \subseteq Paths \X Nat
    BY <1>2
  <2> QED BY <1>1, <1>2, <2>1 DEF TypeOK
<1>6. GoneIsPast'
  <2> SUFFICES ASSUME NEW q \in Paths, NEW n \in Nat, <<q, n>> \in gone' PROVE n <= last'[q]
    BY DEF GoneIsPast
  <2>1. CASE <<q, n>> \in gone
    <3>1. n <= last[q]
      BY <1>1, <2>1 DEF GoneIsPast
    <3> QED BY <1>2, <3>1
  <2>2. CASE q \in S /\ n = last[q] + 1
    BY <1>1, <2>2
  <2> QED BY <1>3, <2>1, <2>2
<1> QED BY <1>1, <1>4, <1>5, <1>6, GrowsKeepsCursors DEF ListingInv

\* Every change of the folder keeps the invariant; a missing folder is empty.
LEMMA FolderChangeKeeps ==
  ASSUME ListingInv, (\E p \in Paths : Upload(p) \/ Delete(p)) \/ DeleteFolder
  PROVE  ListingInv' /\ UNCHANGED <<cache, run>>
<1>1. CASE \E p \in Paths : Upload(p)
  BY <1>1, UploadKeeps DEF Upload
<1>2. ASSUME NEW p \in Paths, Delete(p) PROVE ListingInv' /\ UNCHANGED <<cache, run>>
  <2>1. At(p, last[p]) # 0 /\ exists \in BOOLEAN /\ exists' = exists
    BY <1>2 DEF Delete, Remove, ListingInv, TypeOK
  <2>2. exists
    BY <2>1 DEF ListingInv, MissingEmpty, Snapshot, Empty
  <2>3. MissingEmpty'
    BY <2>1, <2>2 DEF MissingEmpty
  <2>4. Remove({p}) /\ {p} \in SUBSET Paths
    BY <1>2 DEF Delete
  <2>5. ListingInv'
    BY <2>1, <2>3, <2>4, RemoveKeeps
  <2> QED BY <2>4, <2>5 DEF Remove
<1>3. CASE DeleteFolder
  <2> DEFINE S == {p \in Paths : At(p, last[p]) # 0}
  <2>1. Remove(S) /\ exists' = FALSE
    BY <1>3 DEF DeleteFolder
  <2>2. last \in Cursors
    BY DEF ListingInv, TypeOK
  <2>3. ASSUME NEW p \in Paths PROVE At(p, last[p])' = 0
    <3>1. CASE p \in S
      <4>1. last'[p] = last[p] + 1 /\ <<p, last[p] + 1>> \in gone'
        BY <2>1, <3>1 DEF Remove
      <4> QED BY <4>1 DEF At
    <3>2. CASE p \notin S
      <4>1. last'[p] = last[p] /\ At(p, last[p]) = 0 /\ gone \subseteq gone'
        BY <2>1, <3>2 DEF Remove
      <4> QED BY <4>1 DEF At
    <3> QED BY <3>1, <3>2
  <2>4. Snapshot(last)' = Empty
    BY <2>3 DEF Snapshot, Empty
  <2>5. MissingEmpty'
    BY <2>4 DEF MissingEmpty, Empty
  <2> QED BY <2>1, <2>5, RemoveKeeps DEF Remove
<1> QED BY <1>1, <1>2, <1>3

\* A page that is the last one leaves the folder as it is now.
LEMMA PageKeeps ==
  ASSUME ListingInv, NEW r \in Runs, run[r].pc \in {"continue", "list", "more"}, Page(r)
  PROVE  /\ ListingInv'
         /\ UNCHANGED <<remote, cache>>
         /\ \E x \in Listings :
              /\ Becomes(r, x)
              /\ \/ x.pc = "more"
                 \/ x.pc = "save" /\ x.known = Snapshot(last)
<1>1. PICK page \in Pages(run[r]), hasMore \in BOOLEAN :
        /\ (\E p \in Paths : page.cursor[p] < last[p]) => hasMore
        /\ Becomes(r, AfterPage([run[r] EXCEPT !.full = IsFull(run[r]),
                                               !.cursor = page.cursor,
                                               !.entries = @ \o page.entries], hasMore))
  BY DEF Page
<1>2. UNCHANGED <<remote, cache>>
  BY DEF Page
<1> DEFINE y == [run[r] EXCEPT !.full = IsFull(run[r]), !.cursor = page.cursor,
                               !.entries = @ \o page.entries]
           x == AfterPage(y, hasMore)
<1>3. y \in Listings /\ Within(y.cursor) /\ \A p \in Paths : Latest(y, p)
  BY PageLatest
<1>4. y.cursor = page.cursor
  BY DEF ListingInv, TypeOK, Listings
<1>5. Merged(y) = Snapshot(y.cursor)
  BY <1>3, MergedIsSnapshot
<1> HIDE DEF y
<1>6. y.cursor \in Cursors /\ last \in Cursors
  BY <1>3 DEF Listings, ListingInv, TypeOK
<1>7. CASE hasMore
  <2>1. x = [y EXCEPT !.pc = "more"]
    BY <1>7 DEF AfterPage
  <2>2. /\ x \in Listings /\ x.pc = "more" /\ x.cursor = y.cursor /\ x.full = y.full
        /\ x.known = y.known /\ x.entries = y.entries
    BY <1>3, <2>1 DEF Listings
  <2>3. Held(x)
    BY <1>3, <2>2 DEF Held, Latest, KnownBefore
  <2> QED BY <1>1, <1>2, <2>2, <2>3, OneRun DEF y, ListingInv, TypeOK, CacheMatchesCursor
<1>8. CASE ~hasMore
  <2>1. x = [y EXCEPT !.pc = "save", !.known = Merged(y), !.entries = << >>]
    BY <1>8 DEF AfterPage
  <2>2. Merged(y) \in Cursors
    BY <1>5, <1>6, SnapshotType
  <2>3. /\ x \in Listings /\ x.pc = "save" /\ x.cursor = y.cursor
        /\ x.known = Snapshot(y.cursor)
    <3>1. << >> \in Seq(Told)
      OBVIOUS
    <3> HIDE DEF x
    <3> QED BY <1>3, <1>5, <2>1, <2>2, <3>1 DEF Listings
  <2>4. y.cursor = last
    <3>1. \A p \in Paths : ~(y.cursor[p] < last[p]) /\ y.cursor[p] <= last[p]
      BY <1>1, <1>3, <1>4, <1>8 DEF Within
    <3>2. \A p \in Paths : y.cursor[p] \in Nat /\ last[p] \in Nat
      BY <1>6 DEF Cursors
    <3>3. \A m, n \in Nat : ~(m < n) /\ m <= n => m = n
      OBVIOUS
    <3>4. \A p \in Paths : y.cursor[p] = last[p]
      BY <3>1, <3>2, <3>3
    <3> QED BY <1>6, <3>4 DEF Cursors
  <2>5. Held(x)
    BY <1>3, <2>3 DEF Held
  <2> QED BY <1>1, <1>2, <2>3, <2>4, <2>5, OneRun DEF y, ListingInv, TypeOK, CacheMatchesCursor
<1> QED BY <1>7, <1>8

\* The steps of one run other than pages: what it holds is still held, and only
\* SaveCache writes the cursor file.
LEMMA RunKeeps ==
  ASSUME ListingInv, NEW r \in Runs,
         Load(r) \/ Reset(r) \/ ListMissing(r) \/ SaveCache(r) \/ Return(r) \/ Fail(r)
  PROVE  ListingInv'
<1>1. /\ run[r] \in Listings /\ Held(run[r])
      /\ cache \in Caches /\ Within(cache.cursor) /\ cache.entries = Snapshot(cache.cursor)
      /\ last \in Cursors
  BY DEF ListingInv, TypeOK, CacheMatchesCursor
<1>2. Start \in Cursors /\ Empty \in Cursors /\ << >> \in Seq(Told)
  BY DEF Start, Empty, Cursors
<1>3. Within(Start) /\ Snapshot(Start) = Empty
  BY <1>1 DEF Within, Start, Cursors, Snapshot, At, Empty
<1>4. CASE Load(r)
  <2>1. PICK c \in {cache, NoCache} :
          Becomes(r, [Idle EXCEPT !.pc = IF c.valid THEN "continue" ELSE "list",
                                  !.cursor = c.cursor, !.known = c.entries])
    BY <1>4 DEF Load
  <2> DEFINE x == [Idle EXCEPT !.pc = IF c.valid THEN "continue" ELSE "list",
                               !.cursor = c.cursor, !.known = c.entries]
  <2>2. c \in Caches /\ Within(c.cursor) /\ c.entries = Snapshot(c.cursor)
    <3>1. NoCache \in Caches /\ NoCache.cursor = Start /\ NoCache.entries = Empty
      BY <1>2 DEF NoCache, Caches
    <3> QED BY <1>1, <1>3, <3>1
  <2>3. /\ x.pc \in {"continue", "list"} /\ x.full = FALSE /\ x.entries = << >>
        /\ x.cursor = c.cursor /\ x.known = c.entries /\ x \in Listings
    BY <1>2, <2>2 DEF Idle, Listings, Caches
  <2>4. Held(x)
    BY <2>2, <2>3 DEF Held
  <2> QED BY <1>1, <1>4, <2>1, <2>3, <2>4, OneRun DEF Load
<1>5. CASE Reset(r)
  <2> DEFINE x == [run[r] EXCEPT !.pc = "list"]
  <2>1. x \in Listings
    BY <1>1 DEF Listings
  <2>2. Held(x)
    BY <1>1, <1>5 DEF Held, Reset, Listings
  <2> QED BY <1>1, <1>5, <2>1, <2>2, OneRun DEF Reset
<1>6. CASE ListMissing(r)
  <2> DEFINE x == [run[r] EXCEPT !.pc = "listed", !.full = TRUE, !.known = Empty]
  <2>1. x \in Listings
    BY <1>1, <1>2 DEF Listings
  <2>2. Held(x)
    BY <1>1 DEF Held, Listings
  <2> QED BY <1>1, <1>6, <2>1, <2>2, OneRun DEF ListMissing
<1>7. CASE SaveCache(r)
  <2> DEFINE x == [run[r] EXCEPT !.pc = "listed"]
  <2>1. x \in Listings
    BY <1>1 DEF Listings
  <2>2. Held(x)
    BY <1>1 DEF Held, Listings
  <2>3. run[r].cursor \in Cursors /\ run[r].known \in Cursors
        /\ Within(run[r].cursor) /\ run[r].known = Snapshot(run[r].cursor)
    BY <1>1, <1>7 DEF SaveCache, Held, Listings
  <2>4. cache' \in Caches /\ Within(cache'.cursor) /\ cache'.entries = Snapshot(cache'.cursor)
    BY <1>7, <2>3 DEF SaveCache, Caches
  <2> QED BY <1>7, <2>1, <2>2, <2>4, OneRun DEF SaveCache
<1>8. CASE Return(r) \/ Fail(r)
  <2>1. Idle \in Listings
    BY <1>2 DEF Idle, Listings
  <2>2. Held(Idle)
    BY <1>3 DEF Held, Idle
  <2> QED BY <1>1, <1>8, <2>1, <2>2, OneRun DEF Return, Fail
<1> QED BY <1>4, <1>5, <1>6, <1>7, <1>8

\* One step per action of Next, the pages together.
LEMMA NextKeeps == ListingInv /\ [Next]_vars => ListingInv'
<1> SUFFICES ASSUME ListingInv, [Next]_vars PROVE ListingInv'
  OBVIOUS
<1>1. CASE (\E p \in Paths : Upload(p) \/ Delete(p)) \/ DeleteFolder
  BY <1>1, FolderChangeKeeps
<1>2. ASSUME NEW r \in Runs, Continue(r) \/ List(r) \/ More(r) PROVE ListingInv'
  BY <1>2, PageKeeps DEF Continue, List, More
<1>3. ASSUME NEW r \in Runs,
             Load(r) \/ Reset(r) \/ ListMissing(r) \/ SaveCache(r) \/ Return(r) \/ Fail(r)
      PROVE  ListingInv'
  BY <1>3, RunKeeps
<1>4. CASE UNCHANGED vars
  <2>1. Grows
    BY <1>4 DEF Grows, vars, remote, ListingInv, TypeOK, Cursors
  <2>2. (TypeOK /\ GoneIsPast /\ MissingEmpty)'
    BY <1>4 DEF ListingInv, vars, remote, TypeOK, GoneIsPast, MissingEmpty, Snapshot, At
  <2> QED BY <1>4, <2>1, <2>2, GrowsKeepsCursors DEF ListingInv, vars
<1> QED BY <1>1, <1>2, <1>3, <1>4 DEF Next, Step

\* The invariant of resolveRemoteEntries and its cursor file holds for ever.
THEOREM ListingInvariant == Spec => []ListingInv
BY InitListing, NextKeeps, PTL DEF Spec

\* Every variable keeps its type, for any paths, runs and changes.
THEOREM ListingTypes == Spec => []TypeOK
<1>1. ListingInv => TypeOK
  BY DEF ListingInv
<1> QED BY <1>1, ListingInvariant, PTL

\* The saved copy of the folder is always the folder as of the saved cursor
\* (saveRemoteCache writes both at once, and never one of another run's).
THEOREM CacheAlwaysMatchesCursor == Spec => []CacheMatchesCursor
<1>1. ListingInv => CacheMatchesCursor
  BY DEF ListingInv
<1> QED BY <1>1, ListingInvariant, PTL

-----------------------------------------------------------------------------
(* The refinement *)

\* Nobody lists and the folder is empty, in both specifications.
LEMMA InitMaps == Init => Folder!Init
<1> SUFFICES ASSUME Init PROVE Folder!Init
  OBVIOUS
<1>1. Snapshot(last) = Empty
  BY DEF Init, Snapshot, Start, Empty, At
<1>2. \A r \in Runs : AbstractCall(run[r]) = [state |-> "idle", listing |-> Empty]
  BY DEF Init, Idle, AbstractCall
<1> QED BY <1>1, <1>2 DEF Folder!Init, Folder!None, Empty

\* A step of one run changes that run's abstract call only.
LEMMA CallMaps ==
  ASSUME NEW r \in Runs, run \in [Runs -> Listings], NEW x, Becomes(r, x), UNCHANGED remote
  PROVE  /\ Snapshot(last)' = Snapshot(last)
         /\ [s \in Runs |-> AbstractCall(run[s])]' =
              [[s \in Runs |-> AbstractCall(run[s])] EXCEPT ![r] = AbstractCall(x)]
<1>1. Snapshot(last)' = Snapshot(last)
  BY DEF remote, Snapshot, At
<1>2. run' = [run EXCEPT ![r] = x]
  BY DEF Becomes
<1>3. \A s \in Runs : run'[s] = IF s = r THEN x ELSE run[s]
  BY <1>2
<1>4. \A s \in Runs : AbstractCall(run[s])' = AbstractCall(run'[s])
  BY DEF AbstractCall
<1> QED BY <1>1, <1>3, <1>4

\* The last page is where a listing takes effect; so is the answer that there is
\* no folder.
LEMMA StepMaps ==
  ASSUME ListingInv, [Next]_vars
  PROVE  Folder!Next \/ UNCHANGED <<Snapshot(last), [r \in Runs |-> AbstractCall(run[r])]>>
<1> DEFINE call == [r \in Runs |-> AbstractCall(run[r])]
           idle == [state |-> "idle", listing |-> Empty]
           waiting == [state |-> "waiting", listing |-> Empty]
<1>1. /\ run \in [Runs -> Listings] /\ last \in Cursors
      /\ \A r \in Runs : run[r] \in Listings /\ Held(run[r])
  BY DEF ListingInv, TypeOK
<1>2. /\ \A x : x.pc = "idle" => AbstractCall(x) = idle
      /\ \A x : x.pc \in {"continue", "list", "more"} => AbstractCall(x) = waiting
      /\ \A x : x.pc \in {"save", "listed"} =>
                AbstractCall(x) = [state |-> "answered", listing |-> x.known]
  BY DEF AbstractCall
<1>3. Folder!None = Empty
  BY DEF Folder!None, Empty
<1>4. CASE (\E p \in Paths : Upload(p) \/ Delete(p)) \/ DeleteFolder
  <2>1. ListingInv' /\ UNCHANGED run
    BY <1>4, FolderChangeKeeps
  <2>2. Snapshot(last)' \in Folder!Revs
    <3>1. last' \in [Paths -> Nat]
      BY <2>1 DEF ListingInv, TypeOK, Cursors
    <3> QED BY <3>1 DEF Snapshot, At, Folder!Revs
  <2>3. UNCHANGED call
    BY <2>1 DEF AbstractCall
  <2> QED BY <2>2, <2>3 DEF Folder!Next, Folder!Change
<1>5. ASSUME NEW r \in Runs, Continue(r) \/ List(r) \/ More(r)
      PROVE  Folder!Answer(r) \/ UNCHANGED <<Snapshot(last), call>>
  <2>1. run[r].pc \in {"continue", "list", "more"} /\ Page(r)
    BY <1>5 DEF Continue, List, More
  <2>2. PICK x \in Listings : /\ Becomes(r, x)
                              /\ \/ x.pc = "more"
                                 \/ x.pc = "save" /\ x.known = Snapshot(last)
    BY <2>1, PageKeeps
  <2>3. UNCHANGED remote
    BY <2>1, PageKeeps
  <2>4. call[r] = waiting
    BY <1>2, <2>1
  <2>5. Snapshot(last)' = Snapshot(last) /\ call' = [call EXCEPT ![r] = AbstractCall(x)]
    BY <1>1, <2>2, <2>3, CallMaps
  <2>6. CASE x.pc = "more"
    <3>1. AbstractCall(x) = call[r]
      BY <2>4, <2>6 DEF AbstractCall
    <3>2. call' = call
      BY <2>5, <3>1
    <3> QED BY <2>5, <3>2
  <2>7. CASE x.pc = "save" /\ x.known = Snapshot(last)
    <3>1. AbstractCall(x) = [state |-> "answered", listing |-> Snapshot(last)]
      BY <1>2, <2>7
    <3> QED BY <2>4, <2>5, <3>1 DEF Folder!Answer, Folder!Becomes
  <2> QED BY <2>2, <2>6, <2>7
<1>6. ASSUME NEW r \in Runs, Load(r) PROVE Folder!Ask(r)
  <2>1. PICK c \in {cache, NoCache} :
          Becomes(r, [Idle EXCEPT !.pc = IF c.valid THEN "continue" ELSE "list",
                                  !.cursor = c.cursor, !.known = c.entries])
    BY <1>6 DEF Load
  <2> DEFINE x == [Idle EXCEPT !.pc = IF c.valid THEN "continue" ELSE "list",
                               !.cursor = c.cursor, !.known = c.entries]
  <2>2. x.pc \in {"continue", "list"}
    BY DEF Idle
  <2>3. Snapshot(last)' = Snapshot(last) /\ call' = [call EXCEPT ![r] = AbstractCall(x)]
    BY <1>1, <1>6, <2>1, CallMaps DEF Load
  <2> HIDE DEF x
  <2>4. AbstractCall(x) = waiting
    BY <2>2 DEF AbstractCall
  <2>5. call[r] = idle
    BY <1>6 DEF Load, AbstractCall
  <2> QED BY <1>3, <2>3, <2>4, <2>5 DEF Folder!Ask, Folder!Becomes
<1>7. ASSUME NEW r \in Runs, Reset(r) PROVE UNCHANGED <<Snapshot(last), call>>
  <2> DEFINE x == [run[r] EXCEPT !.pc = "list"]
  <2>1. Becomes(r, x) /\ UNCHANGED remote /\ run[r].pc = "continue" /\ x.pc = "list"
    BY <1>1, <1>7 DEF Reset, Listings
  <2>2. Snapshot(last)' = Snapshot(last) /\ call' = [call EXCEPT ![r] = AbstractCall(x)]
    BY <1>1, <2>1, CallMaps
  <2> HIDE DEF x
  <2>3. AbstractCall(x) = waiting /\ call[r] = waiting
    BY <2>1 DEF AbstractCall
  <2> QED BY <2>2, <2>3
<1>8. ASSUME NEW r \in Runs, ListMissing(r) PROVE Folder!Answer(r)
  <2> DEFINE x == [run[r] EXCEPT !.pc = "listed", !.full = TRUE, !.known = Empty]
  <2>1. /\ Becomes(r, x) /\ UNCHANGED remote /\ run[r].pc = "list" /\ ~exists
        /\ x.pc = "listed" /\ x.known = Empty
    BY <1>1, <1>8 DEF ListMissing, Listings
  <2>2. Snapshot(last) = Empty
    BY <2>1 DEF ListingInv, MissingEmpty
  <2>3. Snapshot(last)' = Snapshot(last) /\ call' = [call EXCEPT ![r] = AbstractCall(x)]
    BY <1>1, <2>1, CallMaps
  <2> HIDE DEF x
  <2>4. AbstractCall(x) = [state |-> "answered", listing |-> Snapshot(last)]
    BY <2>1, <2>2 DEF AbstractCall
  <2>5. call[r] = waiting
    BY <2>1 DEF AbstractCall
  <2> QED BY <2>3, <2>4, <2>5 DEF Folder!Answer, Folder!Becomes
<1>9. ASSUME NEW r \in Runs, SaveCache(r) PROVE UNCHANGED <<Snapshot(last), call>>
  <2> DEFINE x == [run[r] EXCEPT !.pc = "listed"]
  <2>1. /\ Becomes(r, x) /\ UNCHANGED remote /\ run[r].pc = "save"
        /\ x.pc = "listed" /\ x.known = run[r].known
    BY <1>1, <1>9 DEF SaveCache, Listings
  <2>2. Snapshot(last)' = Snapshot(last) /\ call' = [call EXCEPT ![r] = AbstractCall(x)]
    BY <1>1, <2>1, CallMaps
  <2> HIDE DEF x
  <2>3. AbstractCall(x) = call[r]
    BY <2>1 DEF AbstractCall
  <2> QED BY <2>2, <2>3
<1>10. ASSUME NEW r \in Runs, Return(r) \/ Fail(r) PROVE Folder!Return(r) \/ Folder!Fail(r)
  <2>1. Becomes(r, Idle) /\ UNCHANGED remote
        /\ run[r].pc \in {"continue", "list", "more", "save", "listed"}
    BY <1>10 DEF Return, Fail
  <2>2. AbstractCall(Idle) = idle /\ call[r].state # "idle"
    BY <1>2, <2>1 DEF Idle
  <2>3. Snapshot(last)' = Snapshot(last) /\ call' = [call EXCEPT ![r] = AbstractCall(Idle)]
    BY <1>1, <2>1, CallMaps
  <2> QED BY <1>3, <2>2, <2>3 DEF Folder!Fail, Folder!Becomes
<1>11. CASE UNCHANGED vars
  BY <1>11 DEF vars, remote, Snapshot, At, AbstractCall
<1> QED
  BY <1>4, <1>5, <1>6, <1>7, <1>8, <1>9, <1>10, <1>11 DEF Next, Step, Folder!Next

\* Every listing is the folder at one instant of its call: the pages, deltas,
\* resets and lost caches of any number of concurrent runs implement one read.
THEOREM EveryListingIsOneInstant == Spec => ListsOneInstant
<1>1. ListingInv /\ [Next]_vars =>
        [Folder!Next]_<<Snapshot(last), [r \in Runs |-> AbstractCall(run[r])]>>
  BY StepMaps
<1> QED BY <1>1, InitMaps, ListingInvariant, PTL DEF Spec, ListsOneInstant, Folder!Spec
=============================================================================
