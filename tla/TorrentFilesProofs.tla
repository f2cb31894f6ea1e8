-------------------------- MODULE TorrentFilesProofs --------------------------
(***************************************************************************)
(* Proofs about TorrentFiles: whatever files and torrents there are, the    *)
(* torrents of the session survive a crash unless their file was not        *)
(* written; a user's file is deleted after a cancel only, and one of the    *)
(* daemon's own never while the session has its torrent, unless the scan at *)
(* the start found it half way through its fetch.                           *)
(***************************************************************************)
EXTENDS TorrentFiles, TLAPS, FiniteSetTheorems

-------------------------------------------------------------------------------
(* The inductive invariant.                                                  *)

DirStates == {"none", "read", "added", "session", "asked", "cancelled", "freed"}
HttpStates == {"none", "fetching", "created", "written", "session", "failed", "asked",
               "cancelled", "freed"}

\* Each maker's objects go through states of its own.
ObjInv == /\ \A f \in Files : obj[Dir(f)] \in DirStates
          /\ \A f \in Own : obj[Http(f)] \in HttpStates

\* The session's files are not written to, and are written whole or torn.
IntactInv ==
    /\ \A f \in Files : HandleValid(Dir(f)) => content[f] \in Torrents
    /\ \A f \in Own :
          /\ HandleValid(Http(f)) => stream[f] \in Torrents
          /\ HandleValid(Http(f)) \/ obj[Http(f)] = "written" =>
                f \in torn \/ (f \in named /\ content[f] = stream[f])

\* A user's file stays while its torrent is not cancelled.
UserInv == \A f \in Files \ Own :
               obj[Dir(f)] \in {"read", "added", "session", "asked"} => f \in disk

\* One of the daemon's own has two objects only when the scan found it while it
\* was fetched.  Until it is written, the watcher's object has not got further
\* than to read it; afterwards the file stays, unless the other of the two has
\* been deleted and has deleted it.
OwnInv ==
    \A f \in Own :
        /\ ~Fresh(Dir(f)) => f \in disk \/ (f \in raced /\ obj[Http(f)] = "freed")
        /\ obj[Http(f)] = "fetching" => f \notin disk /\ Fresh(Dir(f))
        /\ obj[Http(f)] = "created" =>
              /\ f \in named /\ content[f] = Garbage
              /\ obj[Dir(f)] \in {"none", "freed", "read"}
        /\ f \in named =>
              /\ obj[Http(f)] \notin {"none", "fetching", "freed"}
              /\ f \in disk \/ (f \in raced /\ obj[Dir(f)] = "freed")
        /\ ~Fresh(Http(f)) /\ (~Fresh(Dir(f)) \/ f \in ToSet(todo)) => f \in raced

FilesInv == TypeOK /\ ObjInv /\ IntactInv /\ UserInv /\ OwnInv

-------------------------------------------------------------------------------
(* Objects and lists of files.                                               *)

(* A file's objects are two, and no two files have one in common.            *)
LEMMA ObjectsOf ==
  /\ \A f \in Files : Dir(f) \in Objects
  /\ \A f \in Own : Http(f) \in Objects
  /\ \A o \in Objects : \/ o[1] \in Own /\ o = Http(o[1]) /\ o[2] = "http"
                        \/ o[1] \in Files /\ o = Dir(o[1]) /\ o[2] = "dir"
  /\ \A f, g : Dir(f) # Http(g) /\ (Dir(f) = Dir(g) => f = g) /\ (Http(f) = Http(g) => f = g)
  BY DEF Objects, Dir, Http

(* A scan of the directory is a list of its files.                           *)
LEMMA ScanType ==
  ASSUME NEW S, S \subseteq Files, NEW s \in SetToSeqs(S)
  PROVE  s \in Seq(S)
<1>1. Cardinality(S) \in Nat
  BY FilesAssumption, FS_Subset, FS_CardinalityType
<1> DEFINE n == Cardinality(S)
<1>2. s \in [1..n -> S]
  BY DEF SetToSeqs
<1> HIDE DEF n
<1> QED
  BY <1>2, n \in Nat DEF n

(* A step that moves one object.                                             *)
LEMMA Moved ==
  ASSUME TypeOK, NEW o \in Objects, NEW to, obj' = [obj EXCEPT ![o] = to]
  PROVE  /\ \A f \in Files : obj'[Dir(f)] = IF o = Dir(f) THEN to ELSE obj[Dir(f)]
         /\ \A f \in Own : obj'[Http(f)] = IF o = Http(f) THEN to ELSE obj[Http(f)]
  BY ObjectsOf DEF TypeOK

-------------------------------------------------------------------------------
(* Every step keeps the invariant.                                           *)

(* What only the watcher's lists and the threads' phases go through.         *)
LEMMA StillKeeps ==
  ASSUME FilesInv, UNCHANGED <<files, obj, fetches>>,
         phase' \in {"down", "starting", "loading", "watching"}, main' \in {"serving", "stopping"},
         todo' \in Seq(Files), events' \in Seq(Files),
         raced \subseteq raced', raced' \subseteq Own,
         \A f \in Own : f \in ToSet(todo') /\ ~Fresh(Http(f)) =>
                          f \in ToSet(todo) \/ f \in raced'
  PROVE  FilesInv'
<1>1. TypeOK'
  BY DEF FilesInv, TypeOK, files, fetches
<1>2. ObjInv' /\ UserInv' /\ IntactInv'
  BY DEF FilesInv, ObjInv, UserInv, IntactInv, HandleValid, files, fetches
<1>3. OwnInv'
  BY DEF FilesInv, OwnInv, Fresh, files, fetches
<1> QED
  BY <1>1, <1>2, <1>3 DEF FilesInv

(* A file that appears is one that no torrent in the session has.            *)
LEMMA UserPutsKeeps ==
  ASSUME FilesInv, NEW f \in Files, NEW c \in MayHold[f], UserPuts(f, c)
  PROVE  FilesInv'
<1>1. TypeOK'
  <2>1. c \in Torrents \cup {Garbage}
    BY FilesAssumption
  <2>2. content' \in [Files -> Torrents \cup {Garbage}]
    BY <2>1 DEF FilesInv, TypeOK, UserPuts
  <2>3. events' \in Seq(Files)
    <3>1. events' = Append(events, f) \/ events' = events
      BY DEF UserPuts, Event
    <3>2. Append(events, f) \in Seq(Files) /\ events \in Seq(Files)
      BY DEF FilesInv, TypeOK
    <3> QED
      BY <3>1, <3>2
  <2>4. UNCHANGED <<phase, todo, raced, main, obj, fetches>> /\ disk' = disk \cup {f}
    BY DEF UserPuts
  <2> QED
    BY <2>2, <2>3, <2>4 DEF FilesInv, TypeOK, fetches
<1>2. ObjInv'
  BY DEF FilesInv, ObjInv, UserPuts
<1>3. IntactInv'
  BY DEF FilesInv, IntactInv, HandleValid, UserInv, UserPuts, fetches
<1>4. UserInv'
  BY DEF FilesInv, UserInv, UserPuts
<1>5. OwnInv'
  BY DEF FilesInv, OwnInv, UserPuts, Fresh, fetches, watcher
<1> QED
  BY <1>1, <1>2, <1>3, <1>4, <1>5 DEF FilesInv

(* What becomes of a file the watcher has read.                              *)
LEMMA WatcherMovesKeeps ==
  ASSUME FilesInv, NEW f \in Files,
         StartFromFile(f) \/ Discard(f) \/ Register(f)
  PROVE  FilesInv'
<1>1. TypeOK'
  BY DEF FilesInv, TypeOK, StartFromFile, Discard, Register, Move, files, watcher,
       fetches
<1>2. ObjInv'
  BY ObjectsOf DEF FilesInv, TypeOK, ObjInv, DirStates, StartFromFile, Discard,
       Register, Move, fetches, watcher, files
<1>3. IntactInv'
  BY ObjectsOf DEF FilesInv, TypeOK, IntactInv, HandleValid, UserInv, StartFromFile,
       Discard, Register, Move, files, fetches, watcher
<1>4. UserInv'
  BY ObjectsOf DEF FilesInv, TypeOK, UserInv, StartFromFile, Discard, Register, Move,
       files, fetches, watcher
<1>5. OwnInv'
  BY ObjectsOf, FilesAssumption DEF FilesInv, TypeOK, OwnInv, StartFromFile, Discard,
       Register, Move, files, Fresh, fetches, watcher
<1> QED
  BY <1>1, <1>2, <1>3, <1>4, <1>5 DEF FilesInv

(* The watcher reads a file that is there, and none that is being fetched:    *)
(* that one has no file yet.                                                 *)
LEMMA AddDownloadKeeps ==
  ASSUME FilesInv, NEW f \in Files, AddDownload(f),
         f \in Own => Fresh(Http(f)) \/ f \in raced,
         ToSet(todo') \subseteq ToSet(todo),
         UNCHANGED <<files, phase, raced, main, fetches>>,
         todo' \in Seq(Files), events' \in Seq(Files)
  PROVE  FilesInv'
<1>1. CASE UNCHANGED obj
  BY <1>1, StillKeeps DEF FilesInv, TypeOK
<1>2. CASE /\ f \in disk
           /\ obj' = [obj EXCEPT ![Dir(f)] = "read"]
  <2>1. Dir(f) \in Objects /\ TypeOK
    BY ObjectsOf DEF FilesInv
  <2>2. /\ \A g \in Files : obj'[Dir(g)] = IF Dir(f) = Dir(g) THEN "read" ELSE obj[Dir(g)]
        /\ \A g \in Own : obj'[Http(g)] = IF Dir(f) = Http(g) THEN "read" ELSE obj[Http(g)]
    BY <1>2, <2>1, Moved
  <2>3. /\ \A g \in Files : obj'[Dir(g)] = IF g = f THEN "read" ELSE obj[Dir(g)]
        /\ \A g \in Own : obj'[Http(g)] = obj[Http(g)]
    <3>1. \A g : Dir(f) # Http(g) /\ (Dir(f) = Dir(g) <=> g = f)
      BY DEF Dir, Http
    <3> QED
      BY <2>2, <3>1
  <2>4. TypeOK'
    BY <1>2, <2>1 DEF TypeOK, files, fetches
  <2>5. ObjInv'
    BY <2>3 DEF FilesInv, ObjInv, DirStates
  <2>6. IntactInv'
    BY <2>3 DEF FilesInv, IntactInv, HandleValid, files, fetches
  <2>7. UserInv' /\ OwnInv'
    BY <1>2, <2>3, FilesAssumption DEF FilesInv, UserInv, OwnInv, Fresh, files, fetches
  <2> QED
    BY <2>4, <2>5, <2>6, <2>7 DEF FilesInv
<1> QED
  BY <1>1, <1>2 DEF AddDownload

(* A fetch begins under a name that no file has.                             *)
LEMMA ClientAddsKeeps ==
  ASSUME FilesInv, NEW f \in Own, ClientAdds(f)
  PROVE  FilesInv'
<1>1. TypeOK'
  BY DEF FilesInv, TypeOK, ClientAdds, Move, files, watcher, fetches
<1>2. ObjInv'
  BY ObjectsOf DEF FilesInv, ObjInv, HttpStates, ClientAdds, Move, fetches
<1>3. IntactInv'
  BY DEF FilesInv, IntactInv, HandleValid, ClientAdds, Move, files, fetches
<1>4. UserInv'
  BY DEF FilesInv, UserInv, ClientAdds, Move, files, fetches
<1>5. OwnInv'
  BY ObjectsOf DEF FilesInv, OwnInv, ClientAdds, Move, files, Fresh, fetches, watcher
<1> QED
  BY <1>1, <1>2, <1>3, <1>4, <1>5 DEF FilesInv

(* A fetch that fails, and a torrent that is added or found bad.             *)
LEMMA HttpMovesKeeps ==
  ASSUME FilesInv, NEW f \in Own, HttpFailed(f) \/ HttpAdd(f)
  PROVE  FilesInv'
<1>1. TypeOK'
  BY DEF FilesInv, TypeOK, HttpFailed, HttpAdd, Move, files, watcher, fetches
<1>2. ObjInv'
  <2>1. PICK to \in {"failed", "session"} : obj' = [obj EXCEPT ![Http(f)] = to]
    BY DEF HttpFailed, HttpAdd, Move
  <2> QED
    BY <2>1, Moved, ObjectsOf DEF FilesInv, ObjInv, DirStates, HttpStates
<1>3. IntactInv'
  BY ObjectsOf DEF FilesInv, TypeOK, IntactInv, HandleValid, HttpFailed, HttpAdd, Move,
       files, fetches, watcher
<1>4. UserInv'
  BY ObjectsOf DEF FilesInv, TypeOK, UserInv, HttpFailed, HttpAdd, Move, files,
       fetches, watcher
<1>5. OwnInv'
  BY ObjectsOf, FilesAssumption DEF FilesInv, TypeOK, OwnInv, HttpFailed, HttpAdd,
       Move, files, Fresh, fetches, watcher
<1> QED
  BY <1>1, <1>2, <1>3, <1>4, <1>5 DEF FilesInv

(* The new file is empty, and so is not a torrent to the watcher.            *)
LEMMA MakeFileKeeps ==
  ASSUME FilesInv, NEW f \in Own, NEW c \in MayHold[f], MakeFile(f, c)
  PROVE  FilesInv'
<1>1. TypeOK'
  BY FilesAssumption DEF FilesInv, TypeOK, MakeFile, Move, watcher, fetches, files
<1>2. ObjInv'
  BY ObjectsOf DEF FilesInv, ObjInv, HttpStates, MakeFile, Move, fetches
<1>3. IntactInv'
  BY DEF FilesInv, IntactInv, HandleValid, OwnInv, MakeFile, Move, Fresh, fetches,
       watcher
<1>4. UserInv'
  BY DEF FilesInv, UserInv, MakeFile, Move, fetches
<1>5. OwnInv'
  BY ObjectsOf, FilesAssumption DEF FilesInv, TypeOK, OwnInv, MakeFile, Move, Fresh,
       fetches, watcher, files
<1> QED
  BY <1>1, <1>2, <1>3, <1>4, <1>5 DEF FilesInv

(* The watcher has not got further than to read what is written now.         *)
LEMMA WriteTorrentKeeps ==
  ASSUME FilesInv, NEW f \in Own,
         WriteTorrent(f) \/ \E c \in MayHold[f] : WriteTorrentFails(f, c)
  PROVE  FilesInv'
<1>1. TypeOK'
  <2>1. MayHold[f] \subseteq Torrents \cup {Garbage}
    BY FilesAssumption, Own \subseteq Files
  <2>2. CASE \E c \in MayHold[f] : WriteTorrentFails(f, c)
    BY <2>1, <2>2 DEF WriteTorrentFails, FilesInv, TypeOK, Move, files, watcher
  <2>3. CASE WriteTorrent(f)
    <3>1. events' = Append(events, f) \/ events' = events
      BY <2>3 DEF WriteTorrent, Event
    <3>2. f \in Files
      BY FilesAssumption
    <3>3. Append(events, f) \in Seq(Files) /\ events \in Seq(Files)
      BY <3>2 DEF FilesInv, TypeOK
    <3>4. /\ content' \in [Files -> Torrents \cup {Garbage}]
          /\ obj' \in [Objects -> {"none", "fetching", "created", "written", "read", "added",
                                    "session", "failed", "asked", "cancelled", "freed"}]
          /\ torn' \subseteq Own
      BY <2>3 DEF WriteTorrent, FilesInv, TypeOK, Move
    <3>5. UNCHANGED <<disk, phase, todo, raced, main, named, stream>>
      BY <2>3 DEF WriteTorrent
    <3> QED
      BY <3>1, <3>3, <3>4, <3>5 DEF FilesInv, TypeOK
  <2> QED
    BY <2>2, <2>3
<1>2. ObjInv'
  <2>1. obj' = [obj EXCEPT ![Http(f)] = "written"]
    BY DEF WriteTorrentFails, WriteTorrent, Move
  <2> QED
    BY <2>1, Moved, ObjectsOf DEF FilesInv, ObjInv, DirStates, HttpStates
<1>3. IntactInv'
  <2>1. Http(f) \in Objects
    BY ObjectsOf
  <2>2. /\ \A g \in Files : obj'[Dir(g)] = IF Http(f) = Dir(g) THEN "written" ELSE obj[Dir(g)]
        /\ \A g \in Own : obj'[Http(g)] = IF Http(f) = Http(g) THEN "written" ELSE obj[Http(g)]
    BY <2>1, Moved DEF FilesInv, WriteTorrentFails, WriteTorrent, Move
  <2>3. /\ \A g \in Files : obj'[Dir(g)] = obj[Dir(g)]
        /\ \A g \in Own : obj'[Http(g)] = IF g = f THEN "written" ELSE obj[Http(g)]
    BY <2>2, ObjectsOf
  <2>4. CASE \E c \in MayHold[f] : WriteTorrentFails(f, c)
    BY <2>3, <2>4 DEF FilesInv, TypeOK, IntactInv, HandleValid, WriteTorrentFails, files
  <2>5. CASE WriteTorrent(f)
    <3>1. /\ ~HandleValid(Dir(f)) /\ f \in named
      BY <2>5 DEF FilesInv, OwnInv, WriteTorrent, Move, HandleValid
    <3> QED
      BY <2>3, <2>5, <3>1, FilesAssumption DEF FilesInv, TypeOK, IntactInv, HandleValid,
           WriteTorrent
  <2> QED
    BY <2>4, <2>5
<1>4. UserInv'
  BY ObjectsOf DEF FilesInv, TypeOK, UserInv, WriteTorrentFails, WriteTorrent, Move,
       fetches, watcher, files
<1>5. OwnInv'
  BY ObjectsOf, FilesAssumption DEF FilesInv, TypeOK, OwnInv, WriteTorrentFails,
       WriteTorrent, Move, Fresh, fetches, watcher, files
<1> QED
  BY <1>1, <1>2, <1>3, <1>4, <1>5 DEF FilesInv

(* A cancel only moves the object it is of.                                  *)
LEMMA CancelKeeps ==
  ASSUME FilesInv, NEW o \in Objects, Cancel(o) \/ DoCancel(o)
  PROVE  FilesInv'
<1>1. TypeOK'
  BY DEF FilesInv, TypeOK, Cancel, DoCancel, Move, files, watcher, fetches
<1>2. ObjInv'
  BY ObjectsOf DEF FilesInv, TypeOK, ObjInv, DirStates, HttpStates, Cancel, DoCancel,
       Move, fetches, watcher, files
<1>3. IntactInv'
  BY ObjectsOf DEF FilesInv, TypeOK, IntactInv, HandleValid, Cancel, DoCancel, Move,
       files, fetches, watcher
<1>4. UserInv'
  BY ObjectsOf DEF FilesInv, TypeOK, UserInv, Cancel, DoCancel, Move, files, fetches,
       watcher
<1>5. OwnInv'
  BY ObjectsOf, FilesAssumption DEF FilesInv, TypeOK, OwnInv, Cancel, DoCancel, Move,
       files, Fresh, fetches, watcher
<1> QED
  BY <1>1, <1>2, <1>3, <1>4, <1>5 DEF FilesInv

(* A file goes with an object of its own, which is not in the session.       *)
LEMMA DeleteKeeps ==
  ASSUME FilesInv, NEW o \in Objects, RemoveDownload(o) \/ StopOne(o)
  PROVE  FilesInv'
<1>1. TypeOK'
  BY DEF FilesInv, TypeOK, RemoveDownload, StopOne, Delete, watcher, fetches, files
<1>2. ObjInv'
  BY ObjectsOf DEF FilesInv, TypeOK, ObjInv, DirStates, HttpStates, RemoveDownload,
       StopOne, Delete, fetches, watcher, files
<1>3. IntactInv'
  BY ObjectsOf DEF FilesInv, TypeOK, IntactInv, HandleValid, RemoveDownload, StopOne,
       Delete, fetches, watcher, files
<1>4. UserInv'
  BY ObjectsOf DEF FilesInv, TypeOK, UserInv, RemoveDownload, StopOne, Delete, fetches,
       watcher, files
<1>5. OwnInv'
  <2>1. /\ obj' = [obj EXCEPT ![o] = "freed"]
        /\ UNCHANGED <<content, watcher, stream, torn>>
        /\ ~Fresh(o) /\ obj[o] # "read"
    BY DEF RemoveDownload, StopOne, Delete, Registered, Fresh
  <2>2. /\ \A g \in Files : obj'[Dir(g)] = IF o = Dir(g) THEN "freed" ELSE obj[Dir(g)]
        /\ \A g \in Own : obj'[Http(g)] = IF o = Http(g) THEN "freed" ELSE obj[Http(g)]
    BY <2>1, Moved DEF FilesInv
  <2>3. CASE o[1] \in Own /\ o = Http(o[1]) /\ o[2] = "http"
    <3>1. /\ named' = named \ {o[1]}
          /\ disk' = disk \/ (disk' = disk \ {o[1]} /\ o[1] \in named)
      BY <2>3 DEF RemoveDownload, StopOne, Delete
    <3>2. /\ \A g \in Files : obj'[Dir(g)] = obj[Dir(g)]
          /\ \A g \in Own : obj'[Http(g)] = IF g = o[1] THEN "freed" ELSE obj[Http(g)]
      BY <2>2, <2>3, ObjectsOf
    <3> QED
      BY <2>1, <2>3, <3>1, <3>2, FilesAssumption DEF FilesInv, OwnInv, Fresh, watcher
  <2>4. CASE o[1] \in Files /\ o = Dir(o[1]) /\ o[2] = "dir"
    <3>1. named' = named /\ (disk' = disk \/ disk' = disk \ {o[1]})
      BY <2>4 DEF RemoveDownload, StopOne, Delete
    <3>2. /\ \A g \in Files : obj'[Dir(g)] = IF g = o[1] THEN "freed" ELSE obj[Dir(g)]
          /\ \A g \in Own : obj'[Http(g)] = obj[Http(g)]
      BY <2>2, <2>4, ObjectsOf
    <3> QED
      BY <2>1, <2>4, <3>1, <3>2, FilesAssumption DEF FilesInv, OwnInv, Fresh, watcher
  <2> QED
    BY <2>3, <2>4, ObjectsOf
<1> QED
  BY <1>1, <1>2, <1>3, <1>4, <1>5 DEF FilesInv

(* The next process knows nothing of the objects of the last one.            *)
LEMMA ProcessEndsKeeps ==
  ASSUME FilesInv, ProcessEnds
  PROVE  FilesInv'
<1>1. /\ \A f \in Files : obj'[Dir(f)] = "none"
      /\ \A f \in Own : obj'[Http(f)] = "none"
  BY ObjectsOf DEF ProcessEnds
<1>2. TypeOK'
  BY DEF FilesInv, TypeOK, ProcessEnds, files, fetches, watcher
<1> QED
  BY <1>1, <1>2, FilesAssumption DEF FilesInv, ObjInv, DirStates, HttpStates, IntactInv,
     HandleValid, UserInv, OwnInv, Fresh, ToSet, ProcessEnds

LEMMA WatcherKeeps ==
  ASSUME FilesInv, Watcher
  PROVE  FilesInv'
<1>1. CASE Glob
  <2>1. PICK own \in SetToSeqs(disk \cap Own), users \in SetToSeqs(disk \ (Own \cup Hidden)) :
           todo' = own \o users
    BY <1>1 DEF Glob
  <2>2. own \in Seq(disk \cap Own) /\ users \in Seq(disk \ (Own \cup Hidden))
    BY ScanType DEF FilesInv, TypeOK
  <2>3. todo' \in Seq(disk) /\ \A f \in ToSet(todo') : f \in disk
    BY <2>1, <2>2 DEF ToSet
  <2>4. todo' \in Seq(Files)
    BY <2>3 DEF FilesInv, TypeOK
  <2>5. raced' = raced \cup {f \in disk \cap Own : ~Fresh(Http(f))}
    BY <1>1 DEF Glob
  <2>6. \A f \in Own : f \in ToSet(todo') /\ ~Fresh(Http(f)) => f \in raced'
    BY <2>3, <2>5
  <2>7. /\ raced \subseteq raced' /\ raced' \subseteq Own
    BY <2>5 DEF FilesInv, TypeOK
  <2> QED
    BY <1>1, <2>4, <2>6, <2>7, StillKeeps DEF Glob, FilesInv, TypeOK
<1>2. CASE LoadOne
  <2>1. /\ Head(todo) \in Files /\ Head(todo) \in ToSet(todo)
        /\ todo' \in Seq(Files) /\ ToSet(todo') \subseteq ToSet(todo)
    BY <1>2 DEF LoadOne, FilesInv, TypeOK, ToSet
  <2>2. Head(todo) \in Own => Fresh(Http(Head(todo))) \/ Head(todo) \in raced
    BY <2>1 DEF FilesInv, OwnInv
  <2> QED
    BY <1>2, <2>1, <2>2, AddDownloadKeeps DEF LoadOne, FilesInv, TypeOK
<1>3. CASE AddWatches
  BY <1>3, StillKeeps DEF AddWatches, FilesInv, TypeOK
<1>4. CASE NextEvent
  <2>1. Head(events) \in Files /\ events' \in Seq(Files)
    BY <1>4 DEF NextEvent, FilesInv, TypeOK
  <2>2. CASE Head(events) \in Own
    BY <1>4, <2>1, <2>2, StillKeeps DEF NextEvent, FilesInv, TypeOK
  <2>3. CASE Head(events) \notin Own
    <3>1. AddDownload(Head(events)) /\ UNCHANGED <<files, phase, todo, raced, main, fetches>>
      BY <1>4, <2>3 DEF NextEvent
    <3> QED
      BY <2>1, <2>3, <3>1, AddDownloadKeeps DEF FilesInv, TypeOK
  <2> QED
    BY <2>2, <2>3
<1>5. CASE \E f \in Files : StartFromFile(f) \/ Discard(f) \/ Register(f)
  BY <1>5, WatcherMovesKeeps
<1> QED
  BY <1>1, <1>2, <1>3, <1>4, <1>5 DEF Watcher

LEMMA NextKeeps ==
  ASSUME FilesInv, [Next]_vars
  PROVE  FilesInv'
<1>1. CASE \E f \in Files : \E c \in MayHold[f] : UserPuts(f, c)
  BY <1>1, UserPutsKeeps
<1>2. CASE Boot \/ ShutDown
  BY <1>2, StillKeeps DEF Boot, ShutDown, FilesInv, TypeOK, watcher
<1>3. CASE Watcher
  BY <1>3, WatcherKeeps
<1>4. CASE ShutDownSteps
  BY <1>4, ProcessEndsKeeps, DeleteKeeps DEF ShutDownSteps, Exit
<1>5. CASE Crash
  BY <1>5, ProcessEndsKeeps DEF Crash
<1>6. CASE \E f \in Own : ClientAdds(f) \/ Fetch(f)
  <2>1. PICK f \in Own : ClientAdds(f) \/ Fetch(f)
    BY <1>6
  <2>2. CASE ClientAdds(f)
    BY <2>2, ClientAddsKeeps
  <2>3. CASE HttpFailed(f) \/ HttpAdd(f)
    BY <2>3, HttpMovesKeeps
  <2>4. CASE WriteTorrent(f) \/ \E c \in MayHold[f] : WriteTorrentFails(f, c)
    BY <2>4, WriteTorrentKeeps
  <2>5. CASE \E c \in MayHold[f] : MakeFile(f, c)
    BY <2>5, MakeFileKeeps
  <2> QED
    BY <2>1, <2>2, <2>3, <2>4, <2>5 DEF Fetch
<1>7. CASE \E o \in Objects : Cancel(o) \/ RemoveSteps(o)
  BY <1>7, CancelKeeps, DeleteKeeps DEF RemoveSteps
<1>8. CASE UNCHANGED vars
  BY <1>8, StillKeeps DEF vars, FilesInv, TypeOK, watcher
<1> QED
  BY <1>1, <1>2, <1>3, <1>4, <1>5, <1>6, <1>7, <1>8 DEF Next

-------------------------------------------------------------------------------
(* What follows from it.                                                     *)

(* The invariant holds from the first start on, across crashes and restarts. *)
THEOREM FilesInvariant == Spec => []FilesInv
<1>1. ASSUME Init PROVE FilesInv
  <2>1. /\ \A f \in Files : obj[Dir(f)] = "none"
        /\ \A f \in Own : obj[Http(f)] = "none"
    BY <1>1, ObjectsOf DEF Init
  <2>2. TypeOK
    BY <1>1 DEF Init, TypeOK
  <2> QED
    BY <1>1, <2>1, <2>2, FilesAssumption DEF Init, FilesInv, ObjInv, DirStates,
         HttpStates, IntactInv, HandleValid, UserInv, OwnInv, Fresh
<1> QED
  BY <1>1, NextKeeps, PTL DEF Spec

(* Every variable keeps its type.                                            *)
THEOREM FilesTypeCorrect == Spec => []TypeOK
<1>1. FilesInv => TypeOK
  BY DEF FilesInv
<1> QED
  BY <1>1, FilesInvariant, PTL

(* A crash at any moment leaves what the next start of the daemon needs to    *)
(* find the torrents of the session again, but for those whose file was not   *)
(* written and those that the scan at the start found half way.               *)
THEOREM TorrentsSurviveCrash == Spec => []SurvivesCrash
<1>1. ASSUME FilesInv PROVE SurvivesCrash
  <2> DEFINE f(o) == o[1]
  <2> SUFFICES ASSUME NEW o \in Objects, HandleValid(o)
               PROVE  \/ f(o) \in disk /\ content[f(o)] \in Torrents /\ content[f(o)] = Taken(o)
                      \/ o[2] = "http" /\ f(o) \in torn
                      \/ f(o) \in raced /\ "freed" \in {obj[Http(f(o))], obj[Dir(f(o))]}
    BY Zenon DEF SurvivesCrash
  <2>1. CASE o[1] \in Own /\ o = Http(o[1]) /\ o[2] = "http"
    <3>1. Taken(o) = stream[o[1]] /\ stream[o[1]] \in Torrents
      BY <1>1, <2>1 DEF FilesInv, IntactInv, Taken
    <3>2. o[1] \in torn \/ (o[1] \in named /\ content[o[1]] = stream[o[1]])
      BY <1>1, <2>1 DEF FilesInv, IntactInv
    <3>3. o[1] \in named => o[1] \in disk \/ (o[1] \in raced /\ obj[Dir(o[1])] = "freed")
      BY <1>1, <2>1 DEF FilesInv, OwnInv
    <3> QED
      BY <2>1, <3>1, <3>2, <3>3
  <2>2. CASE o[1] \in Files /\ o = Dir(o[1]) /\ o[2] = "dir"
    <3>1. Taken(o) = content[o[1]] /\ content[o[1]] \in Torrents
      BY <1>1, <2>2 DEF FilesInv, IntactInv, Taken
    <3>2. o[1] \in disk \/ (o[1] \in raced /\ obj[Http(o[1])] = "freed")
      BY <1>1, <2>2 DEF FilesInv, UserInv, OwnInv, HandleValid, Fresh
    <3> QED
      BY <3>1, <3>2
  <2> QED
    BY <2>1, <2>2, ObjectsOf
<1> QED
  BY <1>1, FilesInvariant, PTL

(* The only steps that delete a file are those that delete an object.        *)
LEMMA FilesGoWithObjects ==
  ASSUME FilesInv, [Next]_vars, NEW f \in disk, f \notin disk'
  PROVE  \E o \in Objects : o[1] = f /\ (RemoveDownload(o) \/ StopOne(o))
                           /\ (o[2] = "http" => f \in named)
<1>1. CASE \E g \in Files : \E c \in MayHold[g] : UserPuts(g, c)
  BY <1>1 DEF UserPuts
<1>2. CASE \/ Boot \/ ShutDown \/ Watcher \/ Exit \/ Crash \/ UNCHANGED vars
  BY <1>2 DEF Boot, ShutDown, Watcher, Glob, LoadOne, AddWatches, NextEvent,
       StartFromFile, Discard, Register, Exit, Crash, ProcessEnds, vars, files
<1>3. CASE \E g \in Own : ClientAdds(g) \/ Fetch(g)
  BY <1>3 DEF ClientAdds, Fetch, HttpFailed, MakeFile, HttpAdd, WriteTorrentFails,
              WriteTorrent, files
<1>4. CASE \E o \in Objects : Cancel(o) \/ DoCancel(o)
  BY <1>4 DEF Cancel, DoCancel, files
<1>5. CASE \E o \in Objects : RemoveDownload(o) \/ StopOne(o)
  BY <1>5 DEF RemoveDownload, StopOne, Delete
<1> QED
  BY <1>1, <1>2, <1>3, <1>4, <1>5 DEF Next, ShutDownSteps, RemoveSteps

(* No step deletes a user's file whose torrent nobody cancelled.             *)
THEOREM UsersFilesAreKept == Spec => UsersFilesStay
<1>1. ASSUME FilesInv, [Next]_vars
      PROVE  [\A f \in disk \ Own : f \notin disk' => obj[Dir(f)] = "cancelled"]_vars
  <2> SUFFICES ASSUME NEW f \in disk \ Own, f \notin disk'
               PROVE  obj[Dir(f)] = "cancelled"
    OBVIOUS
  <2>1. PICK o \in Objects : o[1] = f /\ (RemoveDownload(o) \/ StopOne(o))
    BY <1>1, FilesGoWithObjects
  <2>2. f \in Files /\ o = Dir(f)
    BY <2>1, ObjectsOf
  <2>3. CASE RemoveDownload(o)
    BY <2>2, <2>3 DEF RemoveDownload
  <2>4. CASE StopOne(o)
    <3>1. ~HandleValid(o) /\ Registered(o)
      BY <2>4 DEF StopOne, Delete
    <3> QED
      BY <1>1, <2>2, <3>1 DEF FilesInv, ObjInv, DirStates, HandleValid, Registered,
           Fresh
  <2> QED
    BY <2>1, <2>3, <2>4
<1> QED
  BY <1>1, FilesInvariant, PTL DEF Spec, UsersFilesStay

(* Nor one of the daemon's own while the session has its torrent, unless the *)
(* scan at the start found it while it was fetched.                           *)
THEOREM OwnFilesAreKept == Spec => OwnFilesStay
<1> DEFINE Gone(f) ==
      /\ \E o \in Objects : /\ o[1] = f /\ obj'[o] = "freed"
                           /\ obj[o] \in {"cancelled", "failed", "created", "written"}
      /\ f \in raced \/ \A o \in Objects : o[1] = f => ~HandleValid(o)
<1>1. ASSUME FilesInv, [Next]_vars, NEW f \in disk \cap Own, f \notin disk'
      PROVE  Gone(f)
  <2>1. PICK o \in Objects : /\ o[1] = f /\ (RemoveDownload(o) \/ StopOne(o))
                             /\ o[2] = "http" => f \in named
    BY <1>1, FilesGoWithObjects
  <2>2. /\ f \in Files /\ obj[Dir(f)] \in DirStates
        /\ f \in Own /\ obj[Http(f)] \in HttpStates
    BY <1>1, FilesAssumption DEF FilesInv, ObjInv
  <2>3. obj'[o] = "freed" /\ ~HandleValid(o) /\ ~Fresh(o)
        /\ (obj[o] = "cancelled" \/ Registered(o))
    <3>1. CASE RemoveDownload(o)
      BY <1>1, <2>1, <3>1 DEF RemoveDownload, Delete, HandleValid, Fresh, FilesInv,
           TypeOK
    <3>2. CASE StopOne(o)
      BY <1>1, <2>1, <3>2 DEF StopOne, Delete, Registered, FilesInv, TypeOK
    <3> QED
      BY <2>1, <3>1, <3>2
  <2>4. CASE o = Dir(f)
    <3>1. obj[o] = "cancelled"
      BY <2>2, <2>3, <2>4 DEF DirStates, HandleValid, Registered, Fresh
    <3>2. HandleValid(Http(f)) => f \in raced
      BY <1>1, <2>2, <2>3, <2>4 DEF FilesInv, OwnInv, HandleValid, Fresh
    <3> QED
      BY <2>1, <2>3, <2>4, <3>1, <3>2, ObjectsOf
  <2>5. CASE o = Http(f) /\ o[2] = "http"
    <3>1. obj[o] \in {"cancelled", "failed", "created", "written"}
      BY <1>1, <2>2, <2>3, <2>5, f \in disk DEF FilesInv, OwnInv, HttpStates,
           HandleValid, Registered, Fresh
    <3>2. HandleValid(Dir(f)) => f \in raced
      BY <1>1, <2>2, <2>3, <2>5 DEF FilesInv, OwnInv, HandleValid, Fresh
    <3> QED
      BY <2>1, <2>3, <2>5, <3>1, <3>2, ObjectsOf
  <2> QED
    BY <2>1, <2>4, <2>5, ObjectsOf
<1>2. FilesInv /\ [Next]_vars => [\A f \in disk \cap Own : f \notin disk' => Gone(f)]_vars
  BY <1>1
<1> QED
  BY <1>2, FilesInvariant, PTL DEF Spec, OwnFilesStay
===============================================================================
