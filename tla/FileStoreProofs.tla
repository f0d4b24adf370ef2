---------------------------- MODULE FileStoreProofs ----------------------------
(***************************************************************************)
(* Theorems about FileStore, for any number of processes, directories,      *)
(* files, objects, pieces and faults.                                       *)
(***************************************************************************)
EXTENDS FileStore, TLAPS

\* What the local variables of a process mean at the step it makes next.
Held(w) ==
  /\ pc[w] # "idle" => request[w] \in Requests /\ outcome[w] = "None"
  /\ pc[w] \in {"open", "store"} => request[w] \in Writes
  /\ pc[w] # "store" => position[w] = 0
  /\ pc[w] = "store" => /\ position[w] <= Size[request[w].object]
                        /\ files[PathOf(request[w])] # None

\* A file that is being written and that nobody has marred has one writer, and
\* holds as much of its object as it has written.
Begun(p, w) ==
  /\ files[p] \in Seq(Pieces)
  /\ Len(files[p]) = position[w]
  /\ \A i \in 1..position[w] : files[p][i] = <<request[w].object, i>>

Written(p) ==
  p \notin marred =>
    /\ \A v \in Storing(p), w \in Storing(p) : v = w
    /\ \A w \in Storing(p) : Begun(p, w)

Inv ==
  /\ TypeOK
  /\ \A w \in Workers : Held(w)
  /\ \A p \in Paths : Written(p)
  /\ FilesWhole

\* The process w alone has moved.
Alone(w) ==
  \A v \in Workers \ {w} :
    /\ request'[v] = request[v] /\ position'[v] = position[v]
    /\ pc'[v] = pc[v] /\ outcome'[v] = outcome[v]

-----------------------------------------------------------------------------
LEMMA WritesAreWrites ==
  ASSUME NEW r \in Requests, r.op = "write"
  PROVE  r \in Writes
BY DEF Requests, Writes

LEMMA WritesHavePaths ==
  ASSUME NEW r \in Writes
  PROVE  PathOf(r) \in Paths /\ DirOf(r) \in Dirs /\ r \in Requests /\ r.object \in Objects
<1>1. r.dir \in Dirs /\ r.name \in Names /\ r.object \in Objects /\ r \in Requests
  BY DEF Writes, Requests
<1>2. \A d \in DOMAIN Replaced : Replaced[d] \in Dirs
  BY StoreConstants DEF Range
<1>3. DirOf(r) \in Dirs
  BY <1>1, <1>2 DEF DirOf, Mounted
<1> QED
  BY <1>1, <1>3 DEF PathOf, Paths

LEMMA DirsOfRequests ==
  ASSUME NEW r \in Requests
  PROVE  DirOf(r) \in Dirs
<1>1. r.dir \in Dirs
  BY DEF Writes, Requests
<1>2. \A d \in DOMAIN Replaced : Replaced[d] \in Dirs
  BY StoreConstants DEF Range
<1> QED
  BY <1>1, <1>2 DEF DirOf, Mounted

LEMMA EndTyped ==
  ASSUME TypeOK, NEW w \in Workers, NEW o \in Outcomes, End(w, o)
  PROVE  /\ pc' \in [Workers -> Labels] /\ outcome' \in [Workers -> Outcomes]
         /\ request' \in [Workers -> Requests \cup {None}]
         /\ pc'[w] = "idle" /\ outcome'[w] = o
         /\ \A v \in Workers \ {w} :
              pc'[v] = pc[v] /\ outcome'[v] = outcome[v] /\ request'[v] = request[v]
BY DEF TypeOK, End, Goto, Labels

LEMMA ContinueTyped ==
  ASSUME TypeOK, NEW w \in Workers, NEW l \in Labels, Goto(w, l)
  PROVE  /\ pc' \in [Workers -> Labels] /\ pc'[w] = l
         /\ \A v \in Workers \ {w} : pc'[v] = pc[v]
BY DEF TypeOK, Goto

\* A step of a process that is not writing and does not begin to.
LEMMA QuietKeeps ==
  ASSUME Inv, NEW w \in Workers, Alone(w), UNCHANGED <<files, marred>>,
         pc[w] # "store", pc'[w] # "store", TypeOK', Held(w)'
  PROVE  Inv'
<1>1. \A p : Storing(p)' = Storing(p)
  BY DEF Storing, Alone
<1>2. \A v \in Workers \ {w} : Held(v)'
  BY DEF Inv, Held, Alone
<1>3. ASSUME NEW p \in Paths PROVE Written(p)'
  <2>1. \A v \in Storing(p) : v # w /\ v \in Workers
    BY DEF Storing
  <2> QED
    BY <1>1, <2>1 DEF Inv, Written, Begun, Alone
<1>4. FilesWhole'
  BY <1>1 DEF Inv, FilesWhole
<1> QED
  BY <1>2, <1>3, <1>4 DEF Inv

\* A process that dies, or meets an error, before it writes.
LEMMA EndsKeeps ==
  ASSUME Inv, NEW w \in Workers, NEW o \in Outcomes, End(w, o), pc[w] # "store",
         position' = position \/ position' = [position EXCEPT ![w] = 0],
         dirs' \subseteq Dirs, faults' \in 0..MaxFaults, UNCHANGED <<files, marred>>
  PROVE  Inv'
<1>1. /\ pc' \in [Workers -> Labels] /\ outcome' \in [Workers -> Outcomes]
      /\ request' \in [Workers -> Requests \cup {None}] /\ pc'[w] = "idle"
      /\ \A v \in Workers \ {w} :
           pc'[v] = pc[v] /\ outcome'[v] = outcome[v] /\ request'[v] = request[v]
  BY EndTyped DEF Inv
<1>2. /\ position' \in [Workers -> Nat] /\ position'[w] = 0
      /\ \A v \in Workers \ {w} : position'[v] = position[v]
  BY DEF Inv, TypeOK, Held
<1>3. TypeOK' /\ Alone(w)
  BY <1>1, <1>2 DEF Inv, TypeOK, Alone
<1>4. Held(w)'
  BY <1>1, <1>2 DEF Held
<1> QED
  BY <1>1, <1>3, <1>4, QuietKeeps

\* A step on the way to the file.
LEMMA GoesOnKeeps ==
  ASSUME Inv, NEW w \in Workers, NEW l \in {"create_dir", "open"}, Continue(w, l),
         pc[w] \notin {"idle", "store"}, l = "open" => request[w].op = "write",
         dirs' \subseteq Dirs, UNCHANGED <<files, marred, position, faults>>
  PROVE  Inv'
<1>1. /\ pc' \in [Workers -> Labels] /\ pc'[w] = l /\ UNCHANGED <<request, outcome>>
      /\ \A v \in Workers \ {w} : pc'[v] = pc[v]
  BY ContinueTyped DEF Inv, Continue, Labels
<1>2. TypeOK' /\ Alone(w)
  BY <1>1 DEF Inv, TypeOK, Alone
<1>3. Held(w)'
  BY <1>1, WritesAreWrites DEF Inv, Held
<1> QED
  BY <1>1, <1>2, <1>3, QuietKeeps

LEMMA CallKeeps ==
  ASSUME Inv, NEW w \in Workers, NEW r \in Requests, Call(w, r)
  PROVE  Inv'
<1>1. PICK l \in Labels \ {"idle", "store"} : Goto(w, l) /\ (l = "open" => r.op = "write")
  BY DEF Call, Labels, Requests, Writes
<1>2. /\ pc[w] = "idle" /\ request' = [request EXCEPT ![w] = r]
      /\ outcome' = [outcome EXCEPT ![w] = "None"] /\ UNCHANGED <<store, position, faults>>
  BY DEF Call
<1>3. /\ pc' \in [Workers -> Labels] /\ pc'[w] = l
      /\ \A v \in Workers \ {w} : pc'[v] = pc[v]
  BY <1>1, ContinueTyped DEF Inv
<1>4. /\ request' \in [Workers -> Requests \cup {None}] /\ request'[w] = r
      /\ outcome' \in [Workers -> Outcomes] /\ outcome'[w] = "None"
      /\ \A v \in Workers \ {w} : request'[v] = request[v] /\ outcome'[v] = outcome[v]
  BY <1>2 DEF Inv, TypeOK, Outcomes
<1>5. TypeOK' /\ Alone(w)
  BY <1>2, <1>3, <1>4 DEF Inv, TypeOK, Alone, store
<1>6. Held(w)'
  BY <1>1, <1>2, <1>3, <1>4, WritesAreWrites DEF Inv, Held
<1> QED
  BY <1>1, <1>2, <1>3, <1>5, <1>6, QuietKeeps DEF store

-----------------------------------------------------------------------------
\* The file is cut to nothing: it is the writer's alone, or it is marred.
LEMMA OpenFileKeeps ==
  ASSUME Inv, NEW w \in Workers, OpenFile(w)
  PROVE  Inv'
<1>0. TypeOK /\ Held(w)
  BY DEF Inv
<1>a. PICK p \in Paths : p = PathOf(request[w])
  BY <1>0, WritesHavePaths DEF OpenFile, Held
<1>1. /\ pc[w] = "open" /\ files' = [files EXCEPT ![p] = <<>>]
      /\ marred' = IF Storing(p) = {} THEN marred \ {p} ELSE marred \cup {p}
      /\ Goto(w, "store") /\ UNCHANGED <<dirs, request, position, outcome, faults>>
  BY <1>a DEF OpenFile
<1>2. request[w] \in Writes /\ position[w] = 0 /\ outcome[w] = "None"
      /\ request[w].object \in Objects /\ request[w] \in Requests
  BY <1>0, <1>1, WritesHavePaths DEF Held
<1>3. /\ pc' \in [Workers -> Labels] /\ pc'[w] = "store"
      /\ \A v \in Workers \ {w} : pc'[v] = pc[v]
  BY <1>0, <1>1, ContinueTyped DEF Labels
<1>4. /\ \A q : q # p => Storing(q)' = Storing(q)
      /\ Storing(p)' = Storing(p) \cup {w}
  <2>1. \A q : Storing(q)' = {v \in Workers : pc'[v] = "store" /\ PathOf(request[v]) = q}
    BY <1>1 DEF Storing, PathOf, DirOf
  <2> QED
    BY <1>1, <1>3, <1>a, <2>1 DEF Storing
<1>5. <<>> \in Seq(Pieces) /\ Len(<<>>) = 0 /\ <<>> # None
  <2>1. <<>> \in Seq(Pieces) /\ Len(<<>>) = 0
    OBVIOUS
  <2> QED
    BY <2>1, StoreConstants
<1>6. /\ files' \in [Paths -> Seq(Pieces) \cup {None}] /\ files'[p] = <<>>
      /\ \A q \in Paths \ {p} : files'[q] = files[q]
  BY <1>0, <1>1, <1>2, <1>5 DEF TypeOK
<1>7. TypeOK' /\ Alone(w)
  BY <1>0, <1>1, <1>2, <1>3, <1>6 DEF TypeOK, Alone
<1>8. Size[request[w].object] \in Nat
  BY <1>2, StoreConstants
<1>9. \A v \in Workers : PathOf(request[v])' = PathOf(request[v])
  BY <1>1 DEF PathOf, DirOf
<1>10. Held(w)'
  BY <1>1, <1>2, <1>3, <1>5, <1>6, <1>8, <1>9, <1>a DEF Held
<1>11. ASSUME NEW v \in Workers \ {w} PROVE Held(v)'
  <2>1. pc[v] = "store" => PathOf(request[v]) \in Paths
    BY WritesHavePaths DEF Inv, Held
  <2> QED
    BY <1>1, <1>3, <1>5, <1>6, <1>9, <2>1 DEF Inv, Held
<1>12. ASSUME NEW q \in Paths PROVE Written(q)'
  <2>1. CASE q # p
    <3>1. \A v \in Storing(q) : Begun(q, v)' = Begun(q, v)
      BY <1>1, <1>6, <2>1 DEF Begun
    <3> QED
      BY <1>1, <1>4, <2>1, <3>1 DEF Inv, Written
  <2>2. CASE q = p /\ Storing(p) = {}
    <3>1. Begun(p, w)'
      BY <1>1, <1>2, <1>5, <1>6 DEF Begun
    <3> QED
      BY <1>4, <2>2, <3>1 DEF Written
  <2>3. CASE q = p /\ Storing(p) # {}
    BY <1>1, <2>3 DEF Written
  <2> QED
    BY <2>1, <2>2, <2>3
<1>13. FilesWhole'
  <2>1. Storing(p)' # {}
    BY <1>4
  <2>2. \A q \in Paths \ {p} : q \notin marred' => q \notin marred
    BY <1>1
  <2> QED
    BY <1>4, <1>6, <2>1, <2>2 DEF Inv, FilesWhole
<1> QED
  BY <1>7, <1>10, <1>11, <1>12, <1>13 DEF Inv

LEMMA PutAppends ==
  ASSUME NEW file \in Seq(Pieces), NEW piece \in Pieces
  PROVE  /\ \A i \in Nat \ {0} :
              Put(file, i, piece) \in Seq(Pieces) /\ Put(file, i, piece) # None
         /\ Len(Put(file, Len(file) + 1, piece)) = Len(file) + 1
         /\ \A j \in 1..Len(file) : Put(file, Len(file) + 1, piece)[j] = file[j]
         /\ Put(file, Len(file) + 1, piece)[Len(file) + 1] = piece
<1>0. Len(file) \in Nat /\ \A j \in 1..Len(file) : file[j] \in Pieces
  OBVIOUS
<1>1. ASSUME NEW i \in Nat \ {0}
      PROVE  Put(file, i, piece) \in Seq(Pieces) /\ Put(file, i, piece) # None
  <2> DEFINE n == IF i > Len(file) THEN i ELSE Len(file)
             f == [j \in 1..n |->
                     IF j = i THEN piece ELSE IF j <= Len(file) THEN file[j] ELSE None]
  <2>1. n \in Nat /\ Put(file, i, piece) = f
    BY <1>0 DEF Put
  <2>2. \A j \in 1..n : f[j] \in Pieces
    BY <1>0, <2>1 DEF Pieces
  <2>3. f \in [1..n -> Pieces]
    BY <2>2
  <2> HIDE DEF f, n
  <2>4. f \in Seq(Pieces)
    BY <2>1, <2>3
  <2> QED
    BY <2>1, <2>4, StoreConstants
<1>2. /\ Len(Put(file, Len(file) + 1, piece)) = Len(file) + 1
      /\ \A j \in 1..Len(file) : Put(file, Len(file) + 1, piece)[j] = file[j]
      /\ Put(file, Len(file) + 1, piece)[Len(file) + 1] = piece
  <2> DEFINE i == Len(file) + 1
             f == [j \in 1..i |->
                     IF j = i THEN piece ELSE IF j <= Len(file) THEN file[j] ELSE None]
  <2>1. i > Len(file) /\ i \in Nat
    BY <1>0
  <2>2. Put(file, i, piece) = f
    BY <2>1 DEF Put
  <2>3. Len(f) = i
    BY <2>1
  <2>4. (\A j \in 1..Len(file) : f[j] = file[j]) /\ f[i] = piece
    BY <1>0, <2>1
  <2> QED
    BY <2>2, <2>3, <2>4
<1> QED
  BY <1>1, <1>2

LEMMA StorePieceKeeps ==
  ASSUME Inv, NEW w \in Workers, StorePiece(w)
  PROVE  Inv'
<1> DEFINE i == position[w] + 1
<1>0. TypeOK /\ Held(w)
  BY DEF Inv
<1>a. PICK p \in Paths : p = PathOf(request[w])
  BY <1>0, WritesHavePaths DEF StorePiece, Held
<1>b. PICK o \in Objects : o = request[w].object
  BY <1>0, WritesHavePaths DEF StorePiece, Held
<1>1. /\ pc[w] = "store" /\ position[w] < Size[o]
      /\ files' = [files EXCEPT ![p] = Put(files[p], i, <<o, i>>)]
      /\ position' = [position EXCEPT ![w] = i]
      /\ UNCHANGED <<dirs, marred, request, pc, outcome, faults>>
  BY <1>a, <1>b DEF StorePiece
<1>2. /\ files[p] \in Seq(Pieces) /\ position[w] \in Nat /\ Size[o] \in Nat
      /\ request[w] \in Writes /\ outcome[w] = "None" /\ request[w] \in Requests
  BY <1>0, <1>1, <1>a, StoreConstants, WritesHavePaths DEF Held, TypeOK
<1>3. i \in Nat \ {0} /\ i <= Size[o] /\ <<o, i>> \in Pieces
  BY <1>1, <1>2 DEF Pieces
<1>4. Put(files[p], i, <<o, i>>) \in Seq(Pieces) /\ Put(files[p], i, <<o, i>>) # None
  BY <1>2, <1>3, PutAppends
<1>5. /\ files' \in [Paths -> Seq(Pieces) \cup {None}]
      /\ files'[p] = Put(files[p], i, <<o, i>>)
      /\ \A q \in Paths \ {p} : files'[q] = files[q]
  BY <1>0, <1>1, <1>4 DEF TypeOK
<1>6. /\ position' \in [Workers -> Nat] /\ position'[w] = i
      /\ \A v \in Workers \ {w} : position'[v] = position[v]
  BY <1>0, <1>1, <1>2 DEF TypeOK
<1> HIDE DEF i
<1>7. TypeOK' /\ Alone(w)
  BY <1>0, <1>1, <1>5, <1>6 DEF TypeOK, Alone
<1>8. /\ \A v \in Workers : PathOf(request[v])' = PathOf(request[v])
      /\ \A q : Storing(q)' = Storing(q)
  <2>1. \A v \in Workers : PathOf(request[v])' = PathOf(request[v])
    BY <1>1 DEF PathOf, DirOf
  <2> QED
    BY <1>1, <2>1 DEF Storing
<1>9. Held(w)'
  BY <1>1, <1>2, <1>3, <1>4, <1>5, <1>6, <1>8, <1>a, <1>b DEF Held
<1>10. ASSUME NEW v \in Workers \ {w} PROVE Held(v)'
  <2>1. pc[v] = "store" => PathOf(request[v]) \in Paths
    BY WritesHavePaths DEF Inv, Held
  <2> QED
    BY <1>1, <1>4, <1>5, <1>6, <1>8, <2>1 DEF Inv, Held
<1>11. w \in Storing(p)
  BY <1>1, <1>a DEF Storing
<1>12. ASSUME NEW q \in Paths PROVE Written(q)'
  <2>1. CASE q # p
    <3>1. w \notin Storing(q)
      BY <1>a, <2>1 DEF Storing
    <3>2. \A v \in Storing(q) : v \in Workers \ {w}
      BY <3>1 DEF Storing
    <3>3. \A v \in Storing(q) : Begun(q, v)' = Begun(q, v)
      BY <1>1, <1>5, <1>6, <2>1, <3>2 DEF Begun
    <3> QED
      BY <1>1, <1>8, <2>1, <3>3 DEF Inv, Written
  <2>2. CASE q = p /\ p \notin marred
    <3>1. Begun(p, w) /\ \A v \in Storing(p) : v = w
      BY <1>11, <2>2 DEF Inv, Written
    <3>2. i = Len(files[p]) + 1 /\ Len(files[p]) = position[w]
      BY <3>1 DEF Begun, i
    <3>3. /\ Len(files'[p]) = i /\ files'[p][i] = <<o, i>>
          /\ \A j \in 1..Len(files[p]) : files'[p][j] = files[p][j]
      <4>1. files'[p] = Put(files[p], Len(files[p]) + 1, <<o, i>>)
        BY <1>5, <3>2
      <4> DEFINE new == Put(files[p], Len(files[p]) + 1, <<o, i>>)
      <4>2. /\ Len(new) = Len(files[p]) + 1 /\ new[Len(files[p]) + 1] = <<o, i>>
            /\ \A j \in 1..Len(files[p]) : new[j] = files[p][j]
        BY <1>2, <1>3, PutAppends, Zenon
      <4>3. files'[p] = new
        BY <4>1
      <4> HIDE DEF new
      <4> QED
        BY <3>2, <4>2, <4>3
    <3>4. \A j \in 1..i : j = i \/ j \in 1..position[w]
      BY <1>2 DEF i
    <3>5. \A j \in 1..i : files'[p][j] = <<o, j>>
      BY <1>b, <3>1, <3>2, <3>3, <3>4 DEF Begun
    <3>6. Begun(p, w)'
      BY <1>1, <1>4, <1>5, <1>6, <1>b, <3>3, <3>5 DEF Begun
    <3> QED
      BY <1>8, <2>2, <3>1, <3>6 DEF Written
  <2>3. CASE q = p /\ p \in marred
    BY <1>1, <2>3 DEF Written
  <2> QED
    BY <2>1, <2>2, <2>3
<1>13. FilesWhole'
  BY <1>1, <1>5, <1>8, <1>11 DEF Inv, FilesWhole
<1> QED
  BY <1>7, <1>9, <1>10, <1>12, <1>13 DEF Inv

LEMMA WholeFile ==
  ASSUME NEW o \in Objects, NEW file \in Seq(Pieces), Size[o] \in Nat,
         Len(file) = Size[o], \A j \in 1..Size[o] : file[j] = <<o, j>>
  PROVE  file = Whole(o)
<1>1. file = [j \in 1..Len(file) |-> file[j]]
  OBVIOUS
<1>2. [j \in 1..Len(file) |-> file[j]] = [j \in 1..Size[o] |-> <<o, j>>]
  OBVIOUS
<1> QED
  BY <1>1, <1>2 DEF Whole

\* The only writer of a file that nobody has marred has written all of it.
LEMMA CloseFileKeeps ==
  ASSUME Inv, NEW w \in Workers, CloseFile(w)
  PROVE  Inv'
<1>0. TypeOK /\ Held(w)
  BY DEF Inv
<1>a. PICK p \in Paths : p = PathOf(request[w])
  BY <1>0, WritesHavePaths DEF CloseFile, Held
<1>b. PICK o \in Objects : o = request[w].object
  BY <1>0, WritesHavePaths DEF CloseFile, Held
<1>1. /\ pc[w] = "store" /\ position[w] = Size[o] /\ o \notin Broken /\ End(w, "Returned")
      /\ position' = [position EXCEPT ![w] = 0] /\ UNCHANGED <<store, faults>>
  BY <1>b DEF CloseFile
<1>2. /\ pc' \in [Workers -> Labels] /\ outcome' \in [Workers -> Outcomes]
      /\ request' \in [Workers -> Requests \cup {None}] /\ pc'[w] = "idle"
      /\ \A v \in Workers \ {w} :
           pc'[v] = pc[v] /\ outcome'[v] = outcome[v] /\ request'[v] = request[v]
  BY <1>0, <1>1, EndTyped DEF Outcomes
<1>3. /\ position' \in [Workers -> Nat] /\ position'[w] = 0
      /\ \A v \in Workers \ {w} : position'[v] = position[v]
  BY <1>0, <1>1 DEF TypeOK
<1>4. TypeOK' /\ Alone(w)
  BY <1>0, <1>1, <1>2, <1>3 DEF TypeOK, Alone, store
<1>5. \A v \in Workers : Held(v)'
  <2>1. Held(w)'
    BY <1>2, <1>3 DEF Held
  <2>2. \A v \in Workers \ {w} : Held(v)'
    BY <1>1, <1>2, <1>3 DEF Inv, Held, store
  <2> QED
    BY <2>1, <2>2
<1>6. \A q : Storing(q)' = Storing(q) \ {w}
  BY <1>2 DEF Storing
<1>7. w \in Storing(p) /\ \A q \in Paths \ {p} : w \notin Storing(q)
  BY <1>1, <1>a DEF Storing
<1>8. p \notin marred => \A v \in Storing(p) : v = w
  BY <1>7 DEF Inv, Written
<1>9. ASSUME NEW q \in Paths PROVE Written(q)'
  <2>1. \A v \in Storing(q)' : v \in Workers \ {w} /\ v \in Storing(q)
    BY <1>6 DEF Storing
  <2>2. \A v \in Storing(q)' : Begun(q, v)' = Begun(q, v)
    BY <1>1, <1>2, <1>3, <2>1 DEF Begun, store
  <2> QED
    BY <1>1, <2>1, <2>2 DEF Inv, Written, store
<1>10. p \notin marred => files[p] = Whole(o)
  <2>1. HAVE p \notin marred
  <2>2. Begun(p, w)
    BY <1>7, <2>1 DEF Inv, Written
  <2>3. /\ files[p] \in Seq(Pieces) /\ Len(files[p]) = Size[o]
        /\ \A j \in 1..Size[o] : files[p][j] = <<o, j>>
    BY <1>1, <1>b, <2>2 DEF Begun
  <2>4. Size[o] \in Nat
    BY StoreConstants
  <2> QED
    BY <2>3, <2>4, WholeFile
<1>11. FilesWhole'
  <2> SUFFICES ASSUME NEW q \in Paths, Storing(q)' = {}, q \notin marred', files'[q] # None
               PROVE  \E b \in Objects \ Broken : files'[q] = Whole(b)
    BY DEF FilesWhole, Whole
  <2>1. CASE q = p
    BY <1>1, <1>10, <2>1 DEF store
  <2>2. CASE q # p
    BY <1>1, <1>6, <1>7, <2>2 DEF Inv, FilesWhole, store
  <2> QED
    BY <2>1, <2>2
<1> QED
  BY <1>4, <1>5, <1>9, <1>11 DEF Inv

\* A process that leaves a file half-way, dead or with an error, has marred it.
LEMMA LeavesKeeps ==
  ASSUME Inv, NEW w \in Workers, NEW o \in Outcomes, pc[w] = "store", End(w, o),
         position' = [position EXCEPT ![w] = 0], UNCHANGED <<dirs, files>>,
         faults' \in 0..MaxFaults, marred' = marred \cup {PathOf(request[w])}
  PROVE  Inv'
<1>0. TypeOK /\ Held(w)
  BY DEF Inv
<1>a. PICK p \in Paths : p = PathOf(request[w])
  BY <1>0, WritesHavePaths DEF Held
<1>b. marred' = marred \cup {p}
  BY <1>a
<1>1. /\ pc' \in [Workers -> Labels] /\ outcome' \in [Workers -> Outcomes]
      /\ request' \in [Workers -> Requests \cup {None}] /\ pc'[w] = "idle"
      /\ \A v \in Workers \ {w} :
           pc'[v] = pc[v] /\ outcome'[v] = outcome[v] /\ request'[v] = request[v]
  BY <1>0, EndTyped
<1>2. /\ position' \in [Workers -> Nat] /\ position'[w] = 0
      /\ \A v \in Workers \ {w} : position'[v] = position[v]
  BY <1>0 DEF TypeOK
<1>3. TypeOK'
  BY <1>0, <1>b, <1>1, <1>2 DEF TypeOK
<1>4. \A v \in Workers : Held(v)'
  <2>1. Held(w)'
    BY <1>1, <1>2 DEF Held
  <2>2. \A v \in Workers \ {w} : Held(v)'
    BY <1>1, <1>2 DEF Inv, Held
  <2> QED
    BY <2>1, <2>2
<1>5. \A q : Storing(q)' = Storing(q) \ {w}
  BY <1>1 DEF Storing
<1>6. \A q \in Paths \ {p} : Storing(q)' = Storing(q)
  BY <1>5, <1>a DEF Storing
<1>7. ASSUME NEW q \in Paths PROVE Written(q)'
  <2>1. CASE q = p
    BY <1>b, <2>1 DEF Written
  <2>2. CASE q # p
    <3>1. \A v \in Storing(q) : v \in Workers \ {w}
      BY <1>a, <2>2 DEF Storing
    <3>2. \A v \in Storing(q) : Begun(q, v)' = Begun(q, v)
      BY <1>1, <1>2, <3>1 DEF Begun
    <3> QED
      BY <1>b, <1>6, <2>2, <3>2 DEF Inv, Written
  <2> QED
    BY <2>1, <2>2
<1>8. FilesWhole'
  BY <1>b, <1>6 DEF Inv, FilesWhole
<1> QED
  BY <1>3, <1>4, <1>7, <1>8 DEF Inv

LEMMA DieKeeps ==
  ASSUME Inv, NEW w \in Workers, Die(w)
  PROVE  Inv'
<1>0. TypeOK /\ Held(w)
  BY DEF Inv
<1>1. /\ End(w, "Died") /\ position' = [position EXCEPT ![w] = 0]
      /\ UNCHANGED <<dirs, files>> /\ faults' \in 0..MaxFaults
      /\ marred' = IF pc[w] = "store" THEN marred \cup {PathOf(request[w])} ELSE marred
  BY <1>0, StoreConstants DEF Die, TypeOK
<1>2. CASE pc[w] # "store"
  BY <1>0, <1>1, <1>2, EndsKeeps DEF Outcomes, TypeOK
<1>3. CASE pc[w] = "store"
  BY <1>1, <1>3, LeavesKeeps DEF Outcomes
<1> QED
  BY <1>2, <1>3

LEMMA SerializerKeeps ==
  ASSUME Inv, NEW w \in Workers, SerializerRaises(w) \/ StoreFails(w)
  PROVE  Inv'
<1>1. LeaveFile(w)
  BY DEF SerializerRaises, StoreFails
<1>2. faults' \in 0..MaxFaults
  BY StoreConstants DEF SerializerRaises, StoreFails, Inv, TypeOK
<1> QED
  BY <1>1, <1>2, LeavesKeeps DEF LeaveFile, Outcomes

-----------------------------------------------------------------------------
LEMMA ProceedKeeps ==
  ASSUME Inv, NEW w \in Workers, Proceed(w)
  PROVE  Inv'
<1>0. TypeOK /\ Held(w)
  BY DEF Inv
<1>1. CASE FindDir(w)
  <2>1. /\ pc[w] = "dir_exists" /\ UNCHANGED <<store, position, faults>>
        /\ \/ End(w, "Answered") \/ Continue(w, "create_dir")
           \/ Continue(w, "open") /\ request[w].op = "write"
    BY <1>1 DEF FindDir
  <2> QED
    BY <1>0, <2>1, EndsKeeps, GoesOnKeeps DEF Outcomes, TypeOK, store
<1>2. CASE CreateDir(w)
  <2>1. /\ pc[w] = "create_dir" /\ UNCHANGED <<files, marred, position, faults>>
        /\ dirs' = dirs \cup {DirOf(request[w])}
        /\ End(w, "Answered") \/ (Continue(w, "open") /\ request[w].op = "write")
    BY <1>2 DEF CreateDir
  <2>2. dirs' \subseteq Dirs
    BY <1>0, <2>1, DirsOfRequests DEF Held, TypeOK
  <2> QED
    BY <1>0, <2>1, <2>2, EndsKeeps, GoesOnKeeps DEF Outcomes, TypeOK
<1>3. CASE OpenFile(w)
  BY <1>3, OpenFileKeeps
<1>4. CASE StorePiece(w)
  BY <1>4, StorePieceKeeps
<1>5. CASE CloseFile(w)
  BY <1>5, CloseFileKeeps
<1>6. CASE CreateDirExists(w) \/ OpenFails(w) \/ ReadFile(w) \/ FindFile(w)
  <2>1. PICK o \in Outcomes : End(w, o)
    BY <1>6 DEF CreateDirExists, OpenFails, ReadFile, FindFile, Outcomes
  <2>2. pc[w] # "store" /\ UNCHANGED <<store, position, faults>>
    BY <1>6 DEF CreateDirExists, OpenFails, ReadFile, FindFile
  <2> QED
    BY <1>0, <2>1, <2>2, EndsKeeps DEF TypeOK, store
<1>7. CASE SerializerRaises(w)
  BY <1>7, SerializerKeeps
<1> QED
  BY <1>1, <1>2, <1>3, <1>4, <1>5, <1>6, <1>7 DEF Proceed

LEMMA CallRefusedKeeps ==
  ASSUME Inv, NEW w \in Workers, NEW r \in Requests, CallRefused(w, r)
  PROVE  Inv'
<1>1. PICK o \in Outcomes : End(w, o)
  BY DEF CallRefused, Refusals, Outcomes
<1>2. pc[w] # "store" /\ UNCHANGED <<store, position, faults>>
  BY DEF CallRefused
<1> QED
  BY <1>1, <1>2, EndsKeeps DEF Inv, TypeOK, store

LEMMA InvInit == Init => Inv
<1> SUFFICES ASSUME Init PROVE Inv
  OBVIOUS
<1>1. TypeOK
  BY StoreConstants DEF Init, TypeOK, Labels, Outcomes
<1>2. \A p : Storing(p) = {}
  BY DEF Init, Storing
<1> QED
  BY <1>1, <1>2 DEF Init, Inv, Held, Written, FilesWhole

LEMMA InvStep == Inv /\ [Next]_vars => Inv'
<1> SUFFICES ASSUME Inv, [Next]_vars PROVE Inv'
  OBVIOUS
<1>1. CASE UNCHANGED vars
  <2>1. UNCHANGED <<dirs, files, marred, request, position, pc, outcome, faults>>
    BY <1>1 DEF vars, store
  <2>2. TypeOK'
    BY <2>1 DEF Inv, TypeOK
  <2>3. \A w \in Workers : Held(w)'
    BY <2>1 DEF Inv, Held, PathOf, DirOf
  <2>4. \A p : Storing(p)' = Storing(p)
    BY <2>1 DEF Storing, PathOf, DirOf
  <2>5. \A p \in Paths : Written(p)'
    BY <2>1, <2>4 DEF Inv, Written, Begun
  <2>6. FilesWhole'
    BY <2>1, <2>4 DEF Inv, FilesWhole
  <2> QED
    BY <2>2, <2>3, <2>5, <2>6 DEF Inv
<1> QED
  BY <1>1, CallKeeps, CallRefusedKeeps, ProceedKeeps, SerializerKeeps, DieKeeps DEF Next

LEMMA InvHolds == Spec => []Inv
  BY InvInit, InvStep, PTL DEF Spec

\* Directories, files and the processes' variables keep their types.
THEOREM TypeCorrect == Spec => []TypeOK
<1>1. Inv => TypeOK
  BY DEF Inv
<1> QED
  BY <1>1, InvHolds, PTL

\* However many processes write a file in turn, and wherever one dies or meets an error
\* of its serializer: unless its last writers overlapped, died or met an error, the file
\* is one whole object.
THEOREM FilesCorrect == Spec => []FilesWhole
<1>1. Inv => FilesWhole
  BY DEF Inv
<1> QED
  BY <1>1, InvHolds, PTL
=============================================================================
