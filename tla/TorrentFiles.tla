----------------------------- MODULE TorrentFiles -----------------------------
(***************************************************************************)
(* The .torrent files of a user's directory, which are all that outlives a *)
(* restart of the daemon: DirWatcher.cpp, which starts a torrent for each   *)
(* file it finds at the start and for each that appears later, and the     *)
(* methods of TorrentDownloader.cpp that write, keep and delete them.      *)
(*                                                                         *)
(* Three threads: the watcher's, the curl threads that fetch torrents for   *)
(* clients (HttpDone), and the main thread with its deferred worker.  A     *)
(* process may end at any moment; then the files and the session's absence *)
(* are what the next one finds.  There is one directory, which exists; the *)
(* resume data, written and deleted with each file, goes with the file.    *)
(* Users do not write a name again that is taken, so a path comes to       *)
(* AddDownload once while its file exists.                                 *)
(*                                                                         *)
(* An object is named by its file and by who made it: a torrent fetched for *)
(* a client ("http") gets a file of the daemon's own, and the watcher      *)
(* ("dir") makes one for any file.                                         *)
(***************************************************************************)
EXTENDS Naturals, Sequences, SequencesExt, FiniteSets

CONSTANTS Files,     \* names in the directory
          Own,       \* those of the daemon, .ftdtrXXXXXX
          Hidden,    \* those of users that begin with a dot
          Homeless,  \* those of users without a home directory
          Torrents,  \* what a valid file describes
          Garbage,   \* the content of any other file
          MayHold    \* bound: what each file may get as its content

ASSUME FilesAssumption ==
    /\ IsFiniteSet(Files)
    /\ Own \subseteq Files /\ Hidden \subseteq Files \ Own /\ Homeless \subseteq Files \ Own
    /\ Garbage \notin Torrents
    /\ MayHold \in [Files -> SUBSET (Torrents \cup {Garbage})]

\* A file's object: of the client that fetched it, of the watcher.
Http(f) == <<f, "http">>
Dir(f) == <<f, "dir">>
Objects == (Own \X {"http"}) \cup (Files \X {"dir"})

VARIABLES disk,     \* the files that exist
          content,  \* what each has in it, or had
          phase,    \* of the watcher: "down", "starting", "loading", "watching"
          main,     \* the main thread: "serving", "stopping"
          todo,     \* LoadInitial's list
          events,   \* the inotify events not yet handled
          obj,      \* where each object is, by file and maker
          named,    \* the daemon's own files whose object has its torrentfilename
          stream,   \* m_dlstream: what each fetch has in memory
          torn,     \* files WriteTorrent did not write whole (a history)
          raced     \* files LoadInitial found with their fetch under way (a history)

files == <<disk, content>>
watcher == <<phase, todo, events, raced>>
fetches == <<named, stream, torn>>
vars == <<files, watcher, main, obj, fetches>>

Init == /\ disk = {}
        /\ content = [f \in Files |-> Garbage]
        /\ phase = "down" /\ main = "serving"
        /\ todo = <<>> /\ events = <<>>
        /\ obj = [o \in Objects |-> "none"]
        /\ named = {} /\ torn = {} /\ raced = {}
        /\ stream = [f \in Own |-> Garbage]

Fresh(o) == obj[o] \in {"none", "freed"}
Move(o, from, to) == obj[o] = from /\ obj' = [obj EXCEPT ![o] = to]

\* The torrent's handle is valid: it is in the session.
HandleValid(o) == obj[o] \in {"added", "session", "asked"}
Taken(o) == IF o[2] = "http" THEN stream[o[1]] ELSE content[o[1]]
Session == {Taken(o) : o \in {p \in Objects : HandleValid(p)}}

\* A file closed after writing, or moved in, is an event once there is a watch.
Event(f) == events' = IF phase = "watching" THEN Append(events, f) ELSE events

-------------------------------------------------------------------------------
(* Users put files into the directory, whether the daemon runs or not.       *)

UserPuts(f, c) ==
    /\ f \notin Own /\ f \notin disk
    /\ disk' = disk \cup {f}
    /\ content' = [content EXCEPT ![f] = c]
    /\ Event(f)
    /\ UNCHANGED <<phase, todo, raced, main, obj, fetches>>

-------------------------------------------------------------------------------
(* The watcher's thread.                                                     *)

Boot == /\ phase = "down"
        /\ phase' = "starting"
        /\ UNCHANGED <<files, todo, events, raced, main, obj, fetches>>

\* LoadInitial that looks for the users' files only.
GlobUsers ==
    /\ phase = "starting"
    /\ phase' = "loading"
    /\ todo' \in SetToSeqs(disk \ (Own \cup Hidden))
    /\ UNCHANGED <<files, events, raced, main, obj, fetches>>

\* LoadInitial: ".ftd*", and then "*", which leaves out names with a dot.
Glob ==
    /\ phase = "starting"
    /\ phase' = "loading"
    /\ \E own \in SetToSeqs(disk \cap Own), users \in SetToSeqs(disk \ (Own \cup Hidden)) :
           todo' = own \o users
    /\ raced' = raced \cup {f \in disk \cap Own : ~Fresh(Http(f))}
    /\ UNCHANGED <<files, events, main, obj, fetches>>

\* The watcher handles one file at a time.
Idle == \A f \in Files : obj[Dir(f)] \notin {"read", "added"}

\* AddDownload of a path: a file that is gone by now is left out, and one
\* for whose owner GetDownloadDir fails.
AddDownload(f) ==
    IF f \in disk \ Homeless
    THEN obj' = [obj EXCEPT ![Dir(f)] = "read"]
    ELSE UNCHANGED obj

LoadOne ==
    /\ phase = "loading" /\ Idle
    /\ todo # <<>>
    /\ todo' = Tail(todo)
    /\ AddDownload(Head(todo))
    /\ UNCHANGED <<files, phase, events, raced, main, fetches>>

AddWatches ==
    /\ phase = "loading" /\ Idle
    /\ todo = <<>>
    /\ phase' = "watching"
    /\ UNCHANGED <<files, todo, events, raced, main, obj, fetches>>

\* The loop that handles the first event of what it has read.
NextEventOnly ==
    /\ events # <<>> /\ Idle
    /\ events' = <<>>
    /\ IF Head(events) \in Own THEN UNCHANGED obj ELSE AddDownload(Head(events))
    /\ UNCHANGED <<files, phase, todo, raced, main, fetches>>

\* The loop that adds the daemon's own files too.
NextEventOwnToo ==
    /\ events # <<>> /\ Idle
    /\ events' = Tail(events)
    /\ AddDownload(Head(events))
    /\ UNCHANGED <<files, phase, todo, raced, main, fetches>>

\* "only add if its not our own".
NextEvent ==
    /\ events # <<>> /\ Idle
    /\ events' = Tail(events)
    /\ IF Head(events) \in Own THEN UNCHANGED obj ELSE AddDownload(Head(events))
    /\ UNCHANGED <<files, phase, todo, raced, main, fetches>>

\* StartFromFile: the session takes a torrent that it does not have yet.
StartFromFile(f) ==
    /\ content[f] \in Torrents \ Session
    /\ Move(Dir(f), "read", "added")
    /\ UNCHANGED <<files, watcher, main, fetches>>

\* SetDeletestatus(false) keeps the file.
Discard(f) ==
    /\ content[f] \notin Torrents \ Session
    /\ Move(Dir(f), "read", "freed")
    /\ UNCHANGED <<files, watcher, main, fetches>>

\* RegisterDownload waits for transfermutex, which ShutDown keeps.
Register(f) ==
    /\ main = "serving"
    /\ Move(Dir(f), "added", "session")
    /\ UNCHANGED <<files, watcher, main, fetches>>

Watcher == \/ Glob \/ LoadOne \/ AddWatches \/ NextEvent
           \/ \E f \in Files : StartFromFile(f) \/ Discard(f) \/ Register(f)

-------------------------------------------------------------------------------
(* A torrent a client has asked for by its URL, in the thread that fetches it.*)

ClientAdds(f) ==
    /\ phase # "down" /\ main = "serving"
    /\ f \notin disk \cup ToSet(events) \cup ToSet(todo)
    /\ Move(Http(f), "none", "fetching")
    /\ UNCHANGED <<files, watcher, main, fetches>>

HttpFailed(f) ==
    /\ Move(Http(f), "fetching", "failed")
    /\ UNCHANGED <<files, watcher, main, fetches>>

\* WriteTorrent: mkstemp, which may fail; then nothing is written.
WriteTorrentFails(f, c) ==
    /\ Move(Http(f), "fetching", "written")
    /\ stream' = [stream EXCEPT ![f] = c]
    /\ torn' = torn \cup {f}
    /\ UNCHANGED <<files, watcher, main, named>>

MakeFile(f, c) ==
    /\ Move(Http(f), "fetching", "created")
    /\ disk' = disk \cup {f}
    /\ content' = [content EXCEPT ![f] = Garbage]
    /\ stream' = [stream EXCEPT ![f] = c]
    /\ named' = named \cup {f}
    /\ UNCHANGED <<watcher, main, torn>>

\* WriteTorrent without the flush.
WriteTorrentUnflushed(f) ==
    /\ Move(Http(f), "created", "written")
    /\ Event(f)
    /\ UNCHANGED <<files, phase, todo, raced, main, fetches>>

\* Nobody looks at the result of write, flush and close: on a full disk what
\* is in the file is no torrent.
WriteTorrent(f) ==
    /\ Move(Http(f), "created", "written")
    /\ \/ content' = [content EXCEPT ![f] = stream[f]] /\ UNCHANGED torn
       \/ torn' = torn \cup {f} /\ UNCHANGED content
    /\ Event(f)
    /\ UNCHANGED <<disk, phase, todo, raced, main, named, stream>>

\* AddDownload of the stream, whatever has become of the file.
HttpAdd(f) ==
    /\ Move(Http(f), "written",
            IF stream[f] \in Torrents \ Session THEN "session" ELSE "failed")
    /\ UNCHANGED <<files, watcher, main, fetches>>

Fetch(f) == \/ HttpFailed(f) \/ WriteTorrent(f) \/ HttpAdd(f)
            \/ \E c \in MayHold[f] : WriteTorrentFails(f, c) \/ MakeFile(f, c)

-------------------------------------------------------------------------------
(* The main thread and the deferred worker: cancels and the daemon's end.    *)

\* The destructor, which unlinks torrentfilename unless deletetorrent is false.
Delete(o, keep) ==
    LET f == o[1]
        fetched == o[2] = "http"
    IN  /\ obj' = [obj EXCEPT ![o] = "freed"]
        /\ disk' = IF keep \/ (fetched /\ f \notin named) THEN disk ELSE disk \ {f}
        /\ named' = IF fetched THEN named \ {f} ELSE named

\* Of a torrent that has been fetched; see TorrentDownloader for the others.
Cancel(o) ==
    /\ main = "serving"
    /\ \/ Move(o, "session", "asked")
       \/ Move(o, "failed", "cancelled")
    /\ UNCHANGED <<files, watcher, main, fetches>>

\* DoCancel.
DoCancel(o) ==
    /\ Move(o, "asked", "cancelled")
    /\ UNCHANGED <<files, watcher, main, fetches>>

\* RemoveDownload of a torrent that keeps its file.
RemoveKeeps(o) ==
    /\ main = "serving" /\ obj[o] = "cancelled"
    /\ Delete(o, TRUE)
    /\ UNCHANGED <<content, watcher, main, stream, torn>>

RemoveDownload(o) ==
    /\ main = "serving" /\ obj[o] = "cancelled"
    /\ Delete(o, FALSE)
    /\ UNCHANGED <<content, watcher, main, stream, torn>>

RemoveSteps(o) == DoCancel(o) \/ RemoveDownload(o)

ShutDown ==
    /\ phase # "down" /\ main = "serving"
    /\ main' = "stopping"
    /\ UNCHANGED <<files, watcher, obj, fetches>>

\* In FtdApp's list: one from HTTP before it is fetched, one from a file after.
Registered(o) == ~Fresh(o) /\ obj[o] \notin {"read", "added"}

\* StopDownload that forgets to keep the file.
StopForgets(o) ==
    /\ main = "stopping" /\ Registered(o)
    /\ Delete(o, FALSE)
    /\ UNCHANGED <<content, watcher, main, stream, torn>>

\* "Only keep torrent if its valid": StopDownload, and then the destructor.
StopOne(o) ==
    /\ main = "stopping" /\ Registered(o)
    /\ Delete(o, HandleValid(o))
    /\ UNCHANGED <<content, watcher, main, stream, torn>>

\* What is in memory is gone.
ProcessEnds ==
    /\ phase' = "down" /\ main' = "serving"
    /\ todo' = <<>> /\ events' = <<>>
    /\ obj' = [o \in Objects |-> "none"]
    /\ named' = {} /\ torn' = {} /\ raced' = {}
    /\ stream' = [f \in Own |-> Garbage]
    /\ UNCHANGED files

\* An exit that leaves a process behind.
ExitLate == /\ main = "stopping"
            /\ main' = "exited"
            /\ UNCHANGED <<files, watcher, obj, fetches>>

Exit == /\ main = "stopping"
        /\ \A o \in Objects : ~Registered(o)
        /\ ProcessEnds

Crash == phase # "down" /\ ProcessEnds

ShutDownSteps == Exit \/ \E o \in Objects : StopOne(o)

-------------------------------------------------------------------------------
Next == \/ \E f \in Files : \E c \in MayHold[f] : UserPuts(f, c)
        \/ Boot \/ Watcher \/ ShutDown \/ ShutDownSteps \/ Crash
        \/ \E f \in Own : ClientAdds(f) \/ Fetch(f)
        \/ \E o \in Objects : Cancel(o) \/ RemoveSteps(o)

Spec == Init /\ [][Next]_vars

(* The daemon's threads go on while the process lives, and what is deferred  *)
(* is done in its turn.  Nothing is promised of users, clients, servers, or  *)
(* of when a daemon is started or killed.                                    *)
FairSpec == /\ Spec
            /\ WF_vars(Watcher) /\ WF_vars(ShutDownSteps)
            /\ \A o \in Objects : WF_vars(RemoveSteps(o))

-------------------------------------------------------------------------------
TypeOK ==
    /\ disk \subseteq Files
    /\ content \in [Files -> Torrents \cup {Garbage}]
    /\ phase \in {"down", "starting", "loading", "watching"}
    /\ main \in {"serving", "stopping"}
    /\ todo \in Seq(Files) /\ events \in Seq(Files)
    /\ obj \in [Objects -> {"none", "fetching", "created", "written", "read", "added",
                                    "session", "failed", "asked", "cancelled", "freed"}]
    /\ named \subseteq Own /\ torn \subseteq Own /\ raced \subseteq Own
    /\ stream \in [Own -> Torrents \cup {Garbage}]

(* What the session has would be found again after a crash at this moment:   *)
(* its file is on disk and has the very torrent in it.  Not so when the       *)
(* file could not be made or written, which WriteTorrent tells nobody, or    *)
(* when LoadInitial found the file while it was fetched, and the one of its   *)
(* two objects that did not get into the session went with the file.         *)
SurvivesCrash ==
    \A o \in Objects :
        LET f == o[1]
        IN  HandleValid(o) =>
                \/ f \in disk /\ content[f] \in Torrents /\ content[f] = Taken(o)
                \/ o[2] = "http" /\ f \in torn
                \/ f \in raced /\ "freed" \in {obj[Http(f)], obj[Dir(f)]}

(* A user's file is deleted only after a client has asked for the removal of  *)
(* its torrent: "Don't remove torrentfiles added by DirWatcher.  They might   *)
(* be other files" (debian/changelog:127), and a stop keeps what is valid.    *)
UsersFilesStay ==
    [][\A f \in disk \ Own : f \notin disk' => obj[Dir(f)] = "cancelled"]_vars

(* A file of the daemon's own goes with an object of its that was cancelled,  *)
(* or whose torrent did not get into the session; and the session has no      *)
(* torrent of it then, unless LoadInitial found the file while it was         *)
(* fetched.  So the daemon's own events never give a file a second object.    *)
OwnFilesStay ==
    [][\A f \in disk \cap Own : f \notin disk' =>
           /\ \E o \in Objects : /\ o[1] = f /\ obj'[o] = "freed"
                                /\ obj[o] \in {"cancelled", "failed", "created", "written"}
           /\ f \in raced \/ \A o \in Objects : o[1] = f => ~HandleValid(o)]_vars

(* A restart gets every torrent back whose file LoadInitial looks for, if it *)
(* is not cancelled, file and all, while the daemon starts.                  *)
RestartResumes ==
    \A f \in Files \ (Hidden \cup Homeless) :
        phase = "starting" /\ f \in disk /\ content[f] \in Torrents
            ~> content[f] \in Session \/ f \notin disk \/ phase = "down"

(* A torrent put into the directory while it is watched is started, however   *)
(* many other files arrive with it.                                           *)
NewFileStarts ==
    \A f \in Files \ (Own \cup Homeless) :
        f \in ToSet(events) /\ content[f] \in Torrents
            ~> content[f] \in Session \/ phase = "down"

(* A cancelled torrent's file is gone in the end, so that no restart brings   *)
(* it back, unless the daemon stops or crashes first.                         *)
CancelForgets ==
    \A o \in Objects :
        obj[o] = "asked" ~> o[1] \notin disk \/ main = "stopping" \/ phase = "down"
===============================================================================
