-------------------------- MODULE TorrentDownloader --------------------------
(***************************************************************************)
(* One torrent of TorrentDownloader.cpp and the four threads that share    *)
(* it: the one that adds it (the curl thread that fetched the .torrent     *)
(* file, calling HttpDone or HttpFailed, or the watcher of DirWatcher.cpp  *)
(* that found a file), the main thread with its clients' requests, the     *)
(* deferred worker, and the manager's thread, which handles libtorrent's   *)
(* alerts once a second.                                                   *)
(*                                                                         *)
(* dlmutex and transfermutex are modelled as locks; status is written by   *)
(* all four threads under neither.  The session is external.  The torrent  *)
(* has no policy (DLP_NONE, as DirWatcher gives it), and there is one      *)
(* removal of it: a client's cancel or the daemon's end; FtdApp has those  *)
(* that meet.                                                              *)
(***************************************************************************)
EXTENDS Naturals, Sequences

CONSTANT Sources    \* where the torrent comes from: of "http" and "file"

ASSUME TorrentAssumption == Sources \subseteq {"http", "file"}

VARIABLES source,     \* "http" or "file"
          at,         \* where each thread is
          status, cancel,
          reap,       \* reapstatus: "OK", "CALLING" or "DONE"
          registered, \* FtdApp::Remove is a completion callback
          freed,      \* the object has been deleted
          downloader, \* the pointer to the fetch's CurlDownloader is set
          handle,     \* the torrent in the session: "none", "valid", "removed"
          mapped,     \* it is in handle_map
          listed,     \* it is in the manager's downloaders
          inapp,      \* it is in FtdApp's transfers
          queue,      \* the deferred work
          alerts,     \* the session's alerts, in order
          whole,      \* the session has all of its content
          dlmutex, transfermutex,
          asked       \* what removal was asked for: "none", "cancel", "stop"

object == <<status, cancel, reap, registered, freed, downloader>>
session == <<handle, alerts, whole>>
tables == <<mapped, listed, inapp>>
vars == <<source, at, object, session, tables, queue, dlmutex, transfermutex, asked>>

Threads == {"adder", "main", "worker", "manager"}
Nobody == "nobody"

\* A torrent from HTTP is registered before its fetch starts, one from a file
\* when it has been added.
Init == /\ source \in Sources
        /\ at = [x \in Threads |-> IF x # "adder" THEN "idle"
                                   ELSE IF source = "http" THEN "fetching" ELSE "adding"]
        /\ status = IF source = "http" THEN "QUEUED" ELSE "NOTSTARTED"
        /\ cancel = FALSE /\ reap = "OK" /\ registered = FALSE /\ freed = FALSE
        /\ downloader = (source = "http")
        /\ handle = "none" /\ alerts = <<>> /\ whole = FALSE
        /\ mapped = FALSE /\ listed = TRUE
        /\ inapp = (source = "http")
        /\ queue = <<>>
        /\ dlmutex = Nobody /\ transfermutex = Nobody
        /\ asked = "none"

Step(x, from, to) == at[x] = from /\ at' = [at EXCEPT ![x] = to]

\* The parts of the state a step may leave alone together.
Rest == <<source, cancel, freed, session, asked>>

-------------------------------------------------------------------------------
(* Complete, in a thread: the callbacks, and then CALLDONE.                  *)

\* A second caller returns early, to "end".
CompleteBegin(x, from, to, end) ==
    /\ Step(x, from, IF reap = "OK" THEN to ELSE end)
    /\ reap' = IF reap = "OK" THEN "CALLING" ELSE reap
    /\ queue' = IF reap = "OK" /\ registered THEN Append(queue, "remove") ELSE queue
    /\ UNCHANGED <<Rest, status, registered, downloader, tables, dlmutex, transfermutex>>

CompleteEnd(x, from, to) ==
    /\ Step(x, from, to)
    /\ reap' = "DONE"
    /\ UNCHANGED <<Rest, status, registered, downloader, tables, queue, dlmutex, transfermutex>>

-------------------------------------------------------------------------------
(* The thread that adds the torrent.                                         *)

HttpDone ==
    /\ Step("adder", "fetching", IF downloader THEN "adding" ELSE "returning")
    /\ UNCHANGED <<Rest, status, reap, registered, downloader, tables, queue,
                   dlmutex, transfermutex>>

HttpFailed ==
    /\ Step("adder", "fetching", "httpfailed")
    /\ status' = "FAILED"
    /\ queue' = IF downloader THEN Append(queue, "cleanup") ELSE queue
    /\ UNCHANGED <<Rest, reap, registered, downloader, tables, dlmutex, transfermutex>>

\* What UpdateProgress writes into status.
Progressed == IF cancel THEN "CANCELINPROGRESS" ELSE status

\* AddDownload: the session takes the torrent, or refuses it.  UpdateProgress
\* comes some time before that.
AddTorrent ==
    /\ Step("adder", "adding", "mapping")
    /\ handle' = "valid"
    /\ status' \in {status, Progressed}
    /\ UNCHANGED <<source, cancel, reap, registered, freed, downloader, alerts, whole, tables,
                   queue, dlmutex, transfermutex, asked>>

AddFails ==
    /\ Step("adder", "adding", "addfailed")
    /\ status' = "FAILED"
    /\ UNCHANGED <<Rest, reap, registered, downloader, tables, queue, dlmutex, transfermutex>>

RegisterHandle ==
    /\ dlmutex = Nobody
    /\ Step("adder", "mapping", "added")
    /\ mapped' = TRUE
    /\ UNCHANGED <<source, object, session, listed, inapp, queue, dlmutex, transfermutex, asked>>

\* AddWork(DeferredCleanup), whether the torrent was added or not.
AddCleanup ==
    /\ source = "http"
    /\ Step("adder", "added", "returning")
    /\ queue' = Append(queue, "cleanup")
    /\ UNCHANGED <<Rest, status, reap, registered, downloader, tables, dlmutex, transfermutex>>

\* DirWatcher::AddDownload hands the torrent to FtdApp, or deletes it.
RegisterDownload ==
    /\ source = "file" /\ status # "FAILED"
    /\ transfermutex = Nobody
    /\ Step("adder", "added", "over")
    /\ inapp' = TRUE
    /\ UNCHANGED <<Rest, status, reap, registered, downloader, mapped, listed, queue,
                   dlmutex, transfermutex>>

DiscardDownload ==
    /\ source = "file" /\ status = "FAILED"
    /\ dlmutex = Nobody
    /\ Step("adder", "added", "over")
    /\ listed' = FALSE
    /\ freed' = TRUE
    /\ UNCHANGED <<source, session, asked, status, cancel, reap, registered, downloader,
                   mapped, inapp, queue, dlmutex, transfermutex>>

\* The end of the fetch's own Run: its Complete.
FetchOver ==
    /\ Step("adder", "returning", "over")
    /\ UNCHANGED <<Rest, status, reap, registered, downloader, tables, queue,
                   dlmutex, transfermutex>>

Adder == \/ HttpDone \/ HttpFailed \/ AddTorrent \/ AddFails \/ RegisterHandle
         \/ AddCleanup \/ RegisterDownload \/ DiscardDownload \/ FetchOver
         \/ CompleteBegin("adder", "httpfailed", "httpfailed2", "returning")
         \/ CompleteEnd("adder", "httpfailed2", "returning")
         \/ CompleteBegin("adder", "addfailed", "addfailed2", "added")
         \/ CompleteEnd("adder", "addfailed2", "added")

-------------------------------------------------------------------------------
(* The main thread: FtdApp's CancelDownload, ListDownloads and ShutDown with *)
(* the methods of the torrent they call.                                     *)

Unlock(x) == transfermutex' = IF transfermutex = x THEN Nobody ELSE transfermutex

ClientCancels ==
    /\ inapp /\ asked = "none" /\ transfermutex = Nobody
    /\ Step("main", "idle", "register")
    /\ transfermutex' = "main"
    /\ asked' = "cancel"
    /\ UNCHANGED <<source, object, session, tables, queue, dlmutex>>

\* Refused, the main thread removes the download itself.
RegisterCallback ==
    /\ Step("main", "register", IF reap = "OK" THEN "ctest" ELSE "remove")
    /\ registered' = (reap = "OK")
    /\ transfermutex' = IF reap = "OK" THEN "main" ELSE Nobody
    /\ UNCHANGED <<Rest, status, reap, downloader, tables, queue, dlmutex>>

\* CancelDownload.
CancelTest ==
    /\ Step("main", "ctest",
            IF status \in {"CANCELINPROGRESS", "CANCELDONE", "FAILED", "DOWNLOADED"}
            THEN "cend" ELSE "cset")
    /\ UNCHANGED <<Rest, status, reap, registered, downloader, tables, queue,
                   dlmutex, transfermutex>>

CancelSet ==
    /\ Step("main", "cset", "cwork")
    /\ status' = "CANCELINPROGRESS"
    /\ cancel' = TRUE
    /\ UNCHANGED <<source, session, asked, reap, registered, freed, downloader, tables,
                   queue, dlmutex, transfermutex>>

\* CancelDownload that leaves the rest to somebody else.
CancelNoWork ==
    /\ Step("main", "cwork", "cend")
    /\ UNCHANGED <<Rest, status, reap, registered, downloader, tables, queue, dlmutex,
                   transfermutex>>

CancelWork ==
    /\ Step("main", "cwork", "cend")
    /\ queue' = Append(queue, "cancel")
    /\ UNCHANGED <<Rest, status, reap, registered, downloader, tables, dlmutex, transfermutex>>

CancelEnd ==
    /\ Step("main", "cend", IF asked = "stop" THEN "reap" ELSE "idle")
    /\ transfermutex' = IF asked = "stop" THEN "main" ELSE Nobody
    /\ UNCHANGED <<Rest, status, reap, registered, downloader, tables, queue, dlmutex>>

\* GetInfo asks the session, and then writes what it heard into status.
ListDownloads ==
    /\ inapp /\ transfermutex = Nobody
    /\ Step("main", "idle", IF handle = "valid"
                            THEN IF whole THEN "seeding" ELSE "downloading" ELSE "noinfo")
    /\ transfermutex' = "main"
    /\ UNCHANGED <<Rest, status, reap, registered, downloader, tables, queue, dlmutex>>

\* GetInfo that writes the session's state into status as it is.
GetInfoRaw ==
    /\ \/ Step("main", "seeding", "idle") /\ status' = "seeding"
       \/ Step("main", "downloading", "idle") /\ status' \in {status, "INPROGRESS"}
       \/ Step("main", "noinfo", "idle") /\ UNCHANGED status
    /\ transfermutex' = Nobody
    /\ UNCHANGED <<Rest, reap, registered, downloader, tables, queue, dlmutex>>

GetInfo ==
    /\ \/ Step("main", "seeding", "idle") /\ status' = "DOWNLOADED"
       \/ Step("main", "downloading", "idle") /\ status' \in {status, "INPROGRESS"}
       \/ Step("main", "noinfo", "idle") /\ UNCHANGED status
    /\ transfermutex' = Nobody
    /\ UNCHANGED <<Rest, reap, registered, downloader, tables, queue, dlmutex>>

\* ShutDown calls StopDownload: WriteResumeData, and then CancelDownload.
ShutDown ==
    /\ inapp /\ asked = "none" /\ transfermutex = Nobody
    /\ Step("main", "idle", IF handle = "valid" THEN "saved" ELSE "ctest")
    /\ transfermutex' = "main"
    /\ asked' = "stop"
    /\ alerts' = IF handle = "valid" THEN Append(alerts, "resume") ELSE alerts
    /\ UNCHANGED <<source, object, handle, whole, tables, queue, dlmutex>>

\* The alert may be answered before the wait begins.
WaitResume ==
    /\ Step("main", "saved", "asleep")
    /\ UNCHANGED <<Rest, status, reap, registered, downloader, tables, queue, dlmutex,
                   transfermutex>>

Main == \/ RegisterCallback \/ CancelTest \/ CancelSet \/ CancelWork \/ CancelEnd
        \/ GetInfo \/ WaitResume

-------------------------------------------------------------------------------
(* RemoveDownload of FtdApp and the destructor, in a thread x.               *)

RemoveBegin(x) ==
    /\ transfermutex = Nobody
    /\ Step(x, "remove", IF inapp THEN "reap" ELSE "idle")
    /\ transfermutex' = IF inapp THEN x ELSE Nobody
    /\ UNCHANGED <<Rest, status, reap, registered, downloader, tables, queue, dlmutex>>

ReapOK == reap = "DONE" \/ (status = "NOTSTARTED" /\ cancel)

RemoveReap(x) ==
    /\ ReapOK
    /\ Step(x, "reap", "delete")
    /\ inapp' = FALSE
    /\ UNCHANGED <<Rest, status, reap, registered, downloader, mapped, listed, queue,
                   dlmutex, transfermutex>>

\* The destructor's switch.  Its WaitForCompletion does not wait: Complete has
\* been called.  A torrent whose status says that it is still going on is
\* cancelled, by the worker, some time later.
Destroy(x) ==
    /\ Step(x, "delete", IF status = "DOWNLOADED" THEN "unmap" ELSE "unlist")
    /\ handle' = IF status = "DOWNLOADED" /\ handle = "valid" THEN "removed" ELSE handle
    /\ IF status \in {"INPROGRESS", "NOTSTARTED", "QUEUED"}
       THEN status' = "CANCELINPROGRESS" /\ cancel' = TRUE /\ queue' = Append(queue, "cancel")
       ELSE UNCHANGED <<status, cancel, queue>>
    /\ UNCHANGED <<source, asked, alerts, whole, reap, registered, freed, downloader, tables,
                   dlmutex, transfermutex>>

UnregisterHandle(x, from, to) ==
    /\ dlmutex = Nobody
    /\ Step(x, from, to)
    /\ mapped' = FALSE
    /\ UNCHANGED <<Rest, status, reap, registered, downloader, listed, inapp, queue,
                   dlmutex, transfermutex>>

\* mgr->RemoveDownload that does not wait for dlmutex.
DestroyUnlocked(x) ==
    /\ Step(x, "unlist", "idle")
    /\ listed' = FALSE
    /\ freed' = TRUE
    /\ Unlock(x)
    /\ UNCHANGED <<source, session, asked, status, cancel, reap, registered, downloader,
                   mapped, inapp, queue, dlmutex>>

\* mgr->RemoveDownload takes dlmutex; then the object is gone.
DestroyEnd(x) ==
    /\ dlmutex = Nobody
    /\ Step(x, "unlist", "idle")
    /\ listed' = FALSE
    /\ freed' = TRUE
    /\ Unlock(x)
    /\ UNCHANGED <<source, session, asked, status, cancel, reap, registered, downloader,
                   mapped, inapp, queue, dlmutex>>

RemoveDownload(x) == \/ RemoveBegin(x) \/ RemoveReap(x) \/ Destroy(x)
                     \/ UnregisterHandle(x, "unmap", "unlist") \/ DestroyEnd(x)

-------------------------------------------------------------------------------
(* The deferred worker.                                                      *)

TakeWork ==
    /\ queue # <<>>
    /\ Step("worker", "idle", Head(queue))
    /\ queue' = Tail(queue)
    /\ UNCHANGED <<Rest, status, reap, registered, downloader, tables, dlmutex, transfermutex>>

DeferredCleanup ==
    /\ \/ downloader /\ Step("worker", "cleanup", "fetchreap") /\ downloader' = FALSE
       \/ ~downloader /\ Step("worker", "cleanup", "idle") /\ UNCHANGED downloader
    /\ UNCHANGED <<Rest, status, reap, registered, tables, queue, dlmutex, transfermutex>>

\* ReapOK of the fetch, whose thread may be in RegisterHandle still.
FetchReap ==
    /\ at["adder"] = "over"
    /\ Step("worker", "fetchreap", "idle")
    /\ UNCHANGED <<Rest, status, reap, registered, downloader, tables, queue,
                   dlmutex, transfermutex>>

DoCancel ==
    /\ Step("worker", "cancel", IF handle = "valid" THEN "cunmap" ELSE "cstatus")
    /\ handle' = IF handle = "valid" THEN "removed" ELSE handle
    /\ UNCHANGED <<source, object, alerts, whole, tables, queue, dlmutex, transfermutex, asked>>

CancelDone ==
    /\ Step("worker", "cstatus", "complete")
    /\ status' = "CANCELDONE"
    /\ UNCHANGED <<Rest, reap, registered, downloader, tables, queue, dlmutex, transfermutex>>

Worker == \/ TakeWork \/ DeferredCleanup \/ FetchReap
          \/ DoCancel \/ UnregisterHandle("worker", "cunmap", "cstatus") \/ CancelDone
          \/ CompleteBegin("worker", "complete", "complete2", "idle")
          \/ CompleteEnd("worker", "complete2", "idle")

-------------------------------------------------------------------------------
(* libtorrent, and the manager's thread.                                     *)

TorrentFinishes ==
    /\ handle = "valid" /\ ~whole
    /\ whole' = TRUE
    /\ alerts' = Append(alerts, "finished")
    /\ UNCHANGED <<source, at, object, handle, tables, queue, dlmutex, transfermutex, asked>>

NextAlert(a) == alerts # <<>> /\ Head(alerts) = a /\ alerts' = Tail(alerts)

FinishedAlert ==
    /\ NextAlert("finished")
    /\ dlmutex = Nobody
    /\ mapped => handle # "removed"
    /\ dlmutex' = IF mapped THEN "manager" ELSE Nobody
    /\ Step("manager", "idle", IF mapped THEN "done" ELSE "idle")
    /\ UNCHANGED <<source, object, handle, whole, tables, queue, transfermutex, asked>>

\* DownloadDone begins with handle.name(), which throws if the torrent has been
\* removed.  Nothing catches that in the manager's thread, so the daemon ends.
DownloadDoneThrows ==
    /\ at["manager"] = "idle"
    /\ NextAlert("finished")
    /\ dlmutex = Nobody
    /\ mapped /\ handle = "removed"
    /\ at' = [x \in Threads |-> "dead"]
    /\ UNCHANGED <<source, object, handle, whole, tables, queue, dlmutex, transfermutex, asked>>

\* DownloadDone that leaves Complete to the destructor.
DownloadDoneOnly ==
    /\ Step("manager", "done", "signal")
    /\ status' = "DOWNLOADED"
    /\ UNCHANGED <<Rest, reap, registered, downloader, tables, queue, dlmutex, transfermutex>>

DownloadDone ==
    /\ Step("manager", "done", "done2")
    /\ status' = "DOWNLOADED"
    /\ UNCHANGED <<Rest, reap, registered, downloader, tables, queue, dlmutex, transfermutex>>

\* SignalDone comes after Complete; dlmutex keeps the object until then.
DoneSignalled ==
    /\ Step("manager", "signal", "idle")
    /\ dlmutex' = Nobody
    /\ UNCHANGED <<Rest, status, reap, registered, downloader, tables, queue, transfermutex>>

\* FindDownloader unlocks before the pointer is used.
ResumeAlert ==
    /\ NextAlert("resume")
    /\ dlmutex = Nobody
    /\ Step("manager", "idle", IF mapped THEN "notify" ELSE "idle")
    /\ UNCHANGED <<source, object, handle, whole, tables, queue, dlmutex, transfermutex, asked>>

\* A Notify finds the main thread asleep, or nobody.
ResumeWritten ==
    /\ at["manager"] = "notify"
    /\ at' = [at EXCEPT !["manager"] = "idle",
                        !["main"] = IF @ = "asleep" THEN "ctest" ELSE @]
    /\ UNCHANGED <<Rest, status, reap, registered, downloader, tables, queue, dlmutex,
                   transfermutex>>

UpdateBegin ==
    /\ alerts = <<>> /\ listed
    /\ dlmutex = Nobody
    /\ Step("manager", "idle", IF handle = "valid" THEN "progress" ELSE "updated")
    /\ dlmutex' = "manager"
    /\ UNCHANGED <<Rest, status, reap, registered, downloader, tables, queue, transfermutex>>

\* UpdateProgress.
UpdateEnd ==
    /\ \/ Step("manager", "progress", "idle")
          /\ status' = Progressed
       \/ Step("manager", "updated", "idle") /\ UNCHANGED status
    /\ dlmutex' = Nobody
    /\ UNCHANGED <<Rest, reap, registered, downloader, tables, queue, transfermutex>>

Alerts == \/ FinishedAlert \/ DownloadDoneThrows \/ DownloadDone \/ DoneSignalled
          \/ ResumeAlert \/ ResumeWritten
          \/ CompleteBegin("manager", "done2", "done3", "signal")
          \/ CompleteEnd("manager", "done3", "signal")
Manager == Alerts \/ UpdateBegin \/ UpdateEnd

-------------------------------------------------------------------------------
Next == \/ Adder \/ Main \/ Worker \/ Manager \/ TorrentFinishes
        \/ ClientCancels \/ ListDownloads \/ ShutDown
        \/ \E x \in {"main", "worker"} : RemoveDownload(x)

Spec == Init /\ [][Next]_vars

(* The daemon's threads run whenever they can; a fetch ends, and a thread    *)
(* that waits for a mutex gets it although others come back to it.  Neither  *)
(* the content's arrival nor a client's request is due.                      *)
FairSpec == /\ Spec
            /\ SF_vars(Adder) /\ SF_vars(Main) /\ SF_vars(Worker)
            /\ SF_vars(Alerts) /\ WF_vars(UpdateEnd)
            /\ \A x \in {"main", "worker"} : SF_vars(RemoveDownload(x))

-------------------------------------------------------------------------------
Labels == {"idle", "over", "dead", "fetching", "adding", "mapping", "added", "returning",
           "httpfailed", "httpfailed2", "addfailed", "addfailed2", "register", "ctest",
           "cset", "cwork", "cend", "seeding", "downloading", "noinfo", "saved", "asleep",
           "remove", "reap", "delete", "unmap", "unlist", "cleanup", "fetchreap", "cancel",
           "cunmap", "cstatus", "complete", "complete2", "done", "done2", "done3", "signal",
           "notify", "progress", "updated"}

ThreadTypes == at \in [Threads -> Labels]

StateTypes ==
    /\ source \in Sources
    /\ status \in {"NOTSTARTED", "QUEUED", "INPROGRESS", "CANCELINPROGRESS", "DOWNLOADED",
                   "CANCELDONE", "FAILED"}
    /\ reap \in {"OK", "CALLING", "DONE"}
    /\ handle \in {"none", "valid", "removed"}
    /\ dlmutex \in Threads \cup {Nobody} /\ transfermutex \in Threads \cup {Nobody}
    /\ asked \in {"none", "cancel", "stop"}

FlagTypes == {cancel, registered, freed, downloader, mapped, listed, inapp, whole} \subseteq BOOLEAN

ListTypes == queue \in Seq({"cleanup", "cancel", "remove"})
             /\ alerts \in Seq({"finished", "resume"})

TypeOK == ThreadTypes /\ StateTypes /\ FlagTypes /\ ListTypes

Locked == {"done", "done2", "done3", "signal", "progress", "updated"}

(* What the manager's thread does under dlmutex to a torrent from a file it   *)
(* does to one that exists, although Complete lets others delete it in the    *)
(* middle of DownloadDone.  A torrent from HTTP may be removed before it gets *)
(* into handle_map, and then stays there.                                     *)
ManagerUsesLive == source = "file" /\ at["manager"] \in Locked => ~freed

Uses(x) == at[x] \notin {"idle", "over", "dead", "fetching", "returning", "fetchreap"}

(* "CALLDONE - We have done our callbacks, reap is ok" (Downloader.h:64): no  *)
(* thread goes on to use a torrent that has been deleted.                     *)
NoUseAfterFree == \A x \in Threads : Uses(x) => ~freed

(* A client's cancel that finds the torrent unfinished ends with its removal, *)
(* whatever its fetch, its end and a listing do to status at the same time,   *)
(* unless the exception of a torrent that finished meanwhile ends the daemon. *)
CancelRemoves == asked = "cancel" /\ cancel ~> freed \/ at["manager"] = "dead"

(* A torrent that has all of its content completes, if its alert is not       *)
(* popped before RegisterHandle and the exception does not end the daemon.    *)
WholeCompletes ==
    (mapped /\ whole /\ alerts # <<>> /\ Head(alerts) = "finished")
        ~> (reap = "DONE" \/ at["manager"] = "dead")
===============================================================================
