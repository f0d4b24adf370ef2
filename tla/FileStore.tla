------------------------------- MODULE FileStore -------------------------------
(***************************************************************************)
(* The file service: File.write and read, SaveFile and LoadFile, through    *)
(* FileService to a local and a mounted filesystem that several processes   *)
(* share.                                                                  *)
(*                                                                         *)
(* A write looks for the directory, creates it, opens the file (which cuts  *)
(* it to nothing) and writes it piece by piece: the steps of two processes  *)
(* interleave, and between them a process may die, or its serializer raise. *)
(***************************************************************************)
EXTENDS Naturals, Sequences, FiniteSets, Functions

CONSTANTS
  Workers,  \* processes that write and read files
  Filesystems, \* identifiers in use: "local", "mounted", and "unknown" of no filesystem
  Dirs,     \* directories
  Names,    \* names of files in a directory
  Aliased,  \* directories whose text contains that of the mount's alias, anywhere
  Replaced, \* per directory whose text contains that of the mounted path: its text with
            \* the alias in place of every occurrence
  Objects,  \* what is written
  Broken,   \* those that their serializer cannot finish
  Falsy,    \* those that are false in a condition: an empty text or list
  Size,     \* per object: how many pieces its serializer writes, before it raises if it does
  None,     \* no file
  MaxFaults \* bound on processes that die in a call, and on writes that fail

Writes   == [op: {"write"}, filesystem: Filesystems, dir: Dirs, name: Names,
             object: Objects, create_dir: BOOLEAN]
Requests == Writes
  \cup [op: {"read", "file_exists"}, filesystem: Filesystems, dir: Dirs, name: Names]
  \cup [op: {"dir_exists"}, filesystem: Filesystems, dir: Dirs, create_dir: BOOLEAN]
  \cup [op: {"create_dir"}, filesystem: Filesystems, dir: Dirs]
Paths    == Dirs \X Names
Pieces   == (Objects \X (Nat \ {0})) \cup {None}   \* None: a hole in the file
ASSUME StoreConstants ==
  /\ Filesystems \subseteq {"local", "mounted", "unknown"}
  /\ Aliased \subseteq Dirs
  /\ DOMAIN Replaced \subseteq Dirs /\ Range(Replaced) \subseteq Aliased
  /\ Falsy \subseteq Objects /\ Broken \subseteq Objects
  /\ Size \in [Objects -> Nat]
  /\ MaxFaults \in Nat
  /\ None \notin Seq(Pieces)

Outcomes == {"None", "Died", "Returned", "Answered", "TypeError", "ValueError",
             "PathNotInMount", "FileExistsError", "FileNotFoundError", "SerializerError"}

VARIABLES
  dirs,      \* the directories that exist
  files,     \* per path: the pieces of the file, None if there is none
  marred,    \* history: the files whose last writers overlapped, raised or died
  request,   \* per worker: its call, also after it where it may be repeated
  position,  \* per worker: how many pieces it has written
  pc,        \* per worker: the step it makes next
  outcome,   \* per worker: how its last call ended
  faults     \* processes that died and writes that failed so far

store == <<dirs, files, marred>>
vars  == <<store, request, position, pc, outcome, faults>>

Labels == {"idle", "dir_exists", "create_dir", "open", "store", "read", "file_exists"}

TypeOK ==
  /\ dirs \subseteq Dirs
  /\ files \in [Paths -> Seq(Pieces) \cup {None}]
  /\ marred \subseteq Paths
  /\ request \in [Workers -> Requests \cup {None}]
  /\ position \in [Workers -> Nat]
  /\ pc \in [Workers -> Labels]
  /\ outcome \in [Workers -> Outcomes]
  /\ faults \in 0..MaxFaults

Init ==
  /\ dirs = {}
  /\ files = [p \in Paths |-> None]
  /\ marred = {}
  /\ request = [w \in Workers |-> None]
  /\ position = [w \in Workers |-> 0]
  /\ pc = [w \in Workers |-> "idle"]
  /\ outcome = [w \in Workers |-> "None"]
  /\ faults = 0

-----------------------------------------------------------------------------
Goto(w, label) == pc' = [pc EXCEPT ![w] = label]

Continue(w, label) == Goto(w, label) /\ UNCHANGED <<request, outcome>>

\* The call ends with outcome o; its arguments are kept if it may be repeated.
End(w, o) ==
  /\ Goto(w, "idle")
  /\ outcome' = [outcome EXCEPT ![w] = o]
  /\ request' = [request EXCEPT ![w] = IF o = "FileExistsError" THEN @ ELSE None]

\* _check_mounted_path looks for the texts of the alias and of the mounted path
\* anywhere in the path: a path with the alias is kept, in one with the mounted path
\* every occurrence is replaced, and any other is refused.  Names contain neither.
InMount(d) == d \in Aliased \cup DOMAIN Replaced
Mounted(d) == IF d \in DOMAIN Replaced \ Aliased THEN Replaced[d] ELSE d

\* The directory and the file that a call is about.
DirOf(r)  == IF r.filesystem = "mounted" THEN Mounted(r.dir) ELSE r.dir
PathOf(r) == <<DirOf(r), r.name>>

Storing(p) == {w \in Workers : pc[w] = "store" /\ PathOf(request[w]) = p}

\* Piece i of a file: a file that is shorter gets a hole.
Put(file, i, piece) ==
  [j \in 1..(IF i > Len(file) THEN i ELSE Len(file)) |->
     IF j = i THEN piece ELSE IF j <= Len(file) THEN file[j] ELSE None]

Whole(o) == [i \in 1..Size[o] |-> <<o, i>>]

-----------------------------------------------------------------------------
(* Bugs that the properties are to notice: variants of operations below,    *)
(* each with one plausible mistake.  No specification uses them.             *)

\* The file is opened without cutting it.
OpenForUpdate(w) ==
  LET p == PathOf(request[w])
  IN  /\ pc[w] = "open"
      /\ p[1] \in dirs
      /\ files' = [files EXCEPT ![p] = IF @ = None THEN <<>> ELSE @]
      /\ marred' = IF Storing(p) = {} THEN marred \ {p} ELSE marred \cup {p}
      /\ Goto(w, "store")
      /\ UNCHANGED <<dirs, request, position, outcome, faults>>

\* The directory is created without looking for it.
FindNoDir(w) ==
  /\ pc[w] = "dir_exists"
  /\ request[w].op = "write"
  /\ Goto(w, "create_dir")
  /\ UNCHANGED <<store, request, position, outcome, faults>>

\* The directory is created at the path of the file.
CreateDirOfPath(w) ==
  LET r == request[w]
  IN  /\ pc[w] = "create_dir"
      /\ DirOf(r) \notin dirs
      /\ dirs' = dirs \cup {IF r.op = "write" THEN PathOf(r) ELSE DirOf(r)}
      /\ IF r.op = "write" THEN Continue(w, "open") ELSE End(w, "Answered")
      /\ UNCHANGED <<files, marred, position, faults>>

-----------------------------------------------------------------------------
\* What a call raises before it touches the filesystem: File.write has nothing to
\* write, _get_filesystem calls logger.error without arguments, and
\* _check_mounted_path finds neither text in the path.
NothingToWrite(r) == r.op = "write" /\ r.object \in Falsy

Refusals(r) ==
  {o \in {"ValueError", "TypeError", "PathNotInMount"} :
     \/ o = "ValueError" /\ NothingToWrite(r)
     \/ o = "TypeError" /\ ~NothingToWrite(r) /\ r.filesystem = "unknown"
     \/ /\ o = "PathNotInMount"
        /\ ~NothingToWrite(r) /\ r.filesystem = "mounted" /\ ~InMount(r.dir)}

\* A FileExistsError of a write is met by calling again, as a Prefect task with
\* retries does.
MayCall(w, r) ==
  outcome[w] = "FileExistsError" /\ request[w].op = "write" => r = request[w]

\* A call of File (write, read) or of FileService.
Call(w, r) ==
  /\ pc[w] = "idle"
  /\ MayCall(w, r)
  /\ request' = [request EXCEPT ![w] = r]
  /\ outcome' = [outcome EXCEPT ![w] = "None"]
  /\ \/ r.op = "write" /\ r.create_dir /\ Goto(w, "dir_exists")
     \/ r.op = "write" /\ ~r.create_dir /\ Goto(w, "open")
     \/ r.op # "write" /\ Goto(w, r.op)
  /\ Refusals(r) = {}
  /\ UNCHANGED <<store, position, faults>>

CallRefused(w, r) ==
  /\ pc[w] = "idle"
  /\ MayCall(w, r)
  /\ \E o \in Refusals(r) : End(w, o)
  /\ UNCHANGED <<store, position, faults>>

\* os.path.isdir, in LocalFilesystem.write and dir_exists.
FindDir(w) ==
  LET r == request[w]
  IN  /\ pc[w] = "dir_exists"
      /\ \/ /\ DirOf(r) \in dirs
            /\ IF r.op = "write" THEN Continue(w, "open")
                                 ELSE End(w, "Answered")
         \/ /\ DirOf(r) \notin dirs
            /\ IF r.create_dir THEN Continue(w, "create_dir")
                               ELSE End(w, "Answered")
      /\ UNCHANGED <<store, position, faults>>

\* os.makedirs(dir, exist_ok=False)
CreateDir(w) ==
  LET r == request[w]
  IN  /\ pc[w] = "create_dir"
      /\ DirOf(r) \notin dirs
      /\ dirs' = dirs \cup {DirOf(r)}
      /\ IF r.op = "write" THEN Continue(w, "open")
                           ELSE End(w, "Answered")
      /\ UNCHANGED <<files, marred, position, faults>>

CreateDirExists(w) ==
  /\ pc[w] = "create_dir"
  /\ DirOf(request[w]) \in dirs
  /\ End(w, "FileExistsError")
  /\ UNCHANGED <<store, position, faults>>

\* The serializer opens the file for writing: it is empty from here on.
OpenFile(w) ==
  LET p == PathOf(request[w])
  IN  /\ pc[w] = "open"
      /\ p[1] \in dirs
      /\ files' = [files EXCEPT ![p] = <<>>]
      /\ marred' = IF Storing(p) = {} THEN marred \ {p} ELSE marred \cup {p}
      /\ Goto(w, "store")
      /\ UNCHANGED <<dirs, request, position, outcome, faults>>

OpenFails(w) ==
  /\ pc[w] = "open"
  /\ DirOf(request[w]) \notin dirs
  /\ End(w, "FileNotFoundError")
  /\ UNCHANGED <<store, position, faults>>

\* Each writer has an offset of its own in the file.
StorePiece(w) ==
  LET o == request[w].object
      i == position[w] + 1
  IN  /\ pc[w] = "store"
      /\ position[w] < Size[o]
      /\ files' = [files EXCEPT ![PathOf(request[w])] = Put(@, i, <<o, i>>)]
      /\ position' = [position EXCEPT ![w] = i]
      /\ UNCHANGED <<dirs, marred, request, pc, outcome, faults>>

CloseFile(w) ==
  /\ pc[w] = "store"
  /\ position[w] = Size[request[w].object]
  /\ request[w].object \notin Broken
  /\ End(w, "Returned")
  /\ position' = [position EXCEPT ![w] = 0]
  /\ UNCHANGED <<store, faults>>

\* The serializer raises, and the file stays as it is: cut where the writing stopped.
LeaveFile(w) ==
  /\ pc[w] = "store"
  /\ marred' = marred \cup {PathOf(request[w])}
  /\ position' = [position EXCEPT ![w] = 0]
  /\ End(w, "SerializerError")
  /\ UNCHANGED <<dirs, files>>

\* It meets a part of the object that it cannot write.
SerializerRaises(w) ==
  /\ LeaveFile(w)
  /\ request[w].object \in Broken
  /\ position[w] = Size[request[w].object]
  /\ UNCHANGED faults

\* The filesystem refuses the next piece: it is full.
StoreFails(w) ==
  /\ LeaveFile(w)
  /\ faults < MaxFaults
  /\ faults' = faults + 1

\* File.read: whatever pieces the file has are deserialized.
ReadFile(w) ==
  /\ pc[w] = "read"
  /\ End(w, IF files[PathOf(request[w])] = None THEN "FileNotFoundError" ELSE "Answered")
  /\ UNCHANGED <<store, position, faults>>

\* FileService.dir_exists and file_exists drop the answer of the filesystem.
FindFile(w) ==
  /\ pc[w] = "file_exists"
  /\ End(w, "Answered")
  /\ UNCHANGED <<store, position, faults>>

\* The process dies; what it has written stays.
Die(w) ==
  LET p == PathOf(request[w])
  IN  /\ pc[w] # "idle"
      /\ faults < MaxFaults
      /\ faults' = faults + 1
      /\ marred' = IF pc[w] = "store" THEN marred \cup {p} ELSE marred
      /\ position' = [position EXCEPT ![w] = 0]
      /\ End(w, "Died")
      /\ UNCHANGED <<dirs, files>>

Proceed(w) ==
  \/ FindDir(w) \/ CreateDir(w) \/ CreateDirExists(w) \/ OpenFile(w) \/ OpenFails(w)
  \/ StorePiece(w) \/ CloseFile(w) \/ SerializerRaises(w) \/ ReadFile(w) \/ FindFile(w)

\* The call that met a directory made in the meantime, once more.
Again(w) ==
  /\ outcome[w] = "FileExistsError"
  /\ request[w].op = "write"
  /\ Call(w, request[w])

Next ==
  \E w \in Workers :
    \/ \E r \in Requests : Call(w, r) \/ CallRefused(w, r)
    \/ Proceed(w) \/ StoreFails(w) \/ Die(w)

Spec == Init /\ [][Next]_vars

FairSpec == Spec /\ \A w \in Workers : WF_vars(Proceed(w)) /\ WF_vars(Again(w))

-----------------------------------------------------------------------------
\* A file is one whole object whenever nobody is writing it, however many processes
\* have written it in turn; only last writers that overlapped, died or met an error of
\* their serializer leave anything else, and the next one that is alone repairs it.
FilesWhole ==
  \A p \in Paths :
    Storing(p) = {} /\ p \notin marred /\ files[p] # None
      => \E o \in Objects \ Broken : files[p] = Whole(o)

\* Repeated after a FileExistsError, a write that creates its directory returns,
\* whichever process creates the directory first, unless its serializer raises
\* (local.py:104).
WritesReturn ==
  \A w \in Workers :
    pc[w] = "dir_exists" /\ request[w].op = "write"
      ~> outcome[w] \in {"Returned", "Died", "SerializerError"}
=============================================================================
