-------------------------------- MODULE FtdApp --------------------------------
(***************************************************************************)
(* The daemon's core: the list of downloads of FtdApp.cpp and the threads  *)
(* that share it.  The main thread serves one client request at a time and *)
(* shuts the daemon down; each started download has a thread that          *)
(* transfers it (CurlDownloader::Run) and then completes it; the           *)
(* DeferredWork thread removes completed downloads.                        *)
(*                                                                         *)
(* Composition.  A download's completion protocol is that of Completion    *)
(* with its critical sections taken as single steps: registration is one   *)
(* step, and so is calling all callbacks, because the only callback, Remove,*)
(* just adds to the deferred work.  The deferred work is a WorkQueue.      *)
(* transfermutex is held across several steps and is modelled as a lock.   *)
(*                                                                         *)
(* All downloads are of one user, whose list transfers is.  A download     *)
(* stands for the add request that creates it: the uuid, policy and URL of *)
(* the request are functions of it.  Clients add downloads here; that      *)
(* DirWatcher's thread also calls RegisterDownload, for a torrent it found *)
(* in a directory and without the tests of AddDownload, is the subject of  *)
(* TorrentDownloader and TorrentFiles.                                     *)
(***************************************************************************)
EXTENDS Naturals, Sequences, FiniteSets, SequencesExt

CONSTANTS Downloads,   \* every Downloader object that may be created
          Main,        \* the main thread
          Deferred,    \* the DeferredWork thread
          None,        \* no thread, no download
          UuidOf,      \* the uuid of each add request
          NoUuid,      \* the empty uuid
          RawUrlOf,    \* the URL of each add request, as sent
          UrlOf,       \* the URL its Downloader answers to GetUrl, normalised by URL
          Plans        \* bound: what clients may ask for in one behaviour

Threads == Downloads \cup {Main, Deferred}

ASSUME AppAssumption ==
    /\ Main # Deferred
    /\ {Main, Deferred, None} \cap Downloads = {}
    /\ None \notin {Main, Deferred}
    /\ Plans \subseteq [policy : [Downloads -> Nat],   \* of each add request, a number of bits
                        cancels : [Downloads -> Nat],  \* how often each download is cancelled
                        stop : BOOLEAN]                \* whether CMD_SHUTDOWN is sent

VARIABLES transfers,      \* the list of the user's downloads
          transfermutex,  \* the thread that holds transfermutex, or None
          obj,            \* each object: "none" (not yet created), "live", "freed"
          status,         \* dlstatus; DOWNLOADED, CANCELDONE and FAILED are "FINISHED"
          cancel,         \* Downloader::cancel
          reapstatus,     \* Downloader::reapstatus
          callbacks,      \* how many Remove callbacks are registered with each
          work,           \* the deferred removals, first in first out
          at,             \* where each thread is; a download's own thread has its name
          target,         \* the download a thread is adding, cancelling or removing
          hit,            \* where in the list RemoveDownload found its download
          index,          \* how far ShutDown or a listing is in the list
          asked,          \* history: downloads a cancel has found
          plan            \* what clients will still ask for, one of Plans at first

dlvars == <<status, cancel, reapstatus, callbacks>>
threadvars == <<at, target, hit, index>>
vars == <<transfers, transfermutex, obj, dlvars, work, threadvars, asked, plan>>

Init == /\ transfers = <<>>
        /\ transfermutex = None
        /\ obj = [d \in Downloads |-> "none"]
        /\ status = [d \in Downloads |-> "NOTSTARTED"]
        /\ cancel = [d \in Downloads |-> FALSE]
        /\ reapstatus = [d \in Downloads |-> "OK"]
        /\ callbacks = [d \in Downloads |-> 0]
        /\ work = <<>>
        /\ at = [t \in Threads |-> IF t = Main THEN "ready"
                                   ELSE IF t = Deferred THEN "idle" ELSE "unborn"]
        /\ target = [t \in Threads |-> None]
        /\ hit = [t \in Threads |-> 0]
        /\ index = 1
        /\ asked = {}
        /\ plan \in Plans

Goto(t, l) == at' = [at EXCEPT ![t] = l]
Set(t, d) == target' = [target EXCEPT ![t] = d]

ReapOK(d) == reapstatus[d] = "CALLDONE" \/ (status[d] = "NOTSTARTED" /\ cancel[d])

\* Where a walk of the list stops: at its first matching entry, or at none (0).
FirstOf(matches) == IF matches = {} THEN 0 ELSE Min(matches)

FindByUUID(uuid) == FirstOf({k \in DOMAIN transfers : UuidOf[transfers[k]] = uuid})
FindByURL(url) == FirstOf({k \in DOMAIN transfers : UrlOf[transfers[k]] = url})

\* if(policy && DLP_AUTOREMOVE): every policy but DLP_NONE.
AutoRemove(d) == plan.policy[d] # 0

-------------------------------------------------------------------------------
(* AddDownload, on the main thread.                                          *)

\* AddDownload without its test of the uuid.
AddCheckNoUuid(d) ==
    /\ at[Main] = "ready"
    /\ obj[d] = "none"
    /\ transfermutex = None
    /\ Goto(Main, "addUrl") /\ Set(Main, d)
    /\ UNCHANGED <<transfers, transfermutex, obj, dlvars, work, hit, index, asked, plan>>

AddCheckUuid(d) ==
    /\ at[Main] = "ready"
    /\ obj[d] = "none"
    /\ transfermutex = None
    /\ IF FindByUUID(UuidOf[d]) # 0
       THEN UNCHANGED <<at, target>>          \* "Duplicate uuid"
       ELSE Goto(Main, "addUrl") /\ Set(Main, d)
    /\ UNCHANGED <<transfers, transfermutex, obj, dlvars, work, hit, index, asked, plan>>

\* AddDownload without its test of the URL.
AddCheckNoUrl ==
    /\ at[Main] = "addUrl"
    /\ transfermutex = None
    /\ Goto(Main, "addFind")
    /\ UNCHANGED <<transfers, transfermutex, obj, dlvars, work, target, hit, index, asked, plan>>

AddCheckUrl ==
    /\ at[Main] = "addUrl"
    /\ transfermutex = None
    /\ IF FindByURL(RawUrlOf[target[Main]]) # 0
       THEN Goto(Main, "ready")               \* "Duplicate URL"
       ELSE Goto(Main, "addFind")
    /\ UNCHANGED <<transfers, transfermutex, obj, dlvars, work, target, hit, index, asked, plan>>

\* FindDownloader returns: some manager made a Downloader for the URL, or none
\* did.  Until then the main thread is in FindDownloader; the manager of HTTP
\* fetches the headers first and waits for that in WaitForCompletion.
AddFind ==
    /\ at[Main] = "addFind"
    /\ \/ /\ obj' = [obj EXCEPT ![target[Main]] = "live"]
          /\ Goto(Main, "addRegister")
       \/ /\ Goto(Main, "ready")              \* "Failed to find suitable downloader"
          /\ UNCHANGED obj
    /\ UNCHANGED <<transfers, transfermutex, dlvars, work, target, hit, index, asked, plan>>

\* RegisterDownload that puts nothing on the list.
AddRegisterNothing ==
    /\ at[Main] = "addRegister"
    /\ transfermutex = None
    /\ Goto(Main, "addStart")
    /\ UNCHANGED <<transfers, transfermutex, obj, dlvars, work, target, hit, index, asked, plan>>

AddRegister ==
    /\ at[Main] = "addRegister"
    /\ transfermutex = None
    /\ transfers' = Append(transfers, target[Main])
    /\ Goto(Main, "addStart")
    /\ UNCHANGED <<transfermutex, obj, dlvars, work, target, hit, index, asked, plan>>

AddStart ==
    LET d == target[Main]
    IN  /\ at[Main] = "addStart"
        /\ status' = [status EXCEPT ![d] = "QUEUED"]
        /\ at' = [at EXCEPT ![Main] = "ready", ![d] = "begin"]
        /\ UNCHANGED <<transfers, transfermutex, obj, cancel, reapstatus, callbacks,
                       work, target, hit, index, asked, plan>>

-------------------------------------------------------------------------------
(* CancelDownload, RemoveDownload and DeferredRemove, on any thread: main    *)
(* runs CancelDownload for a client, a download's own thread runs it from    *)
(* dlDone, and the deferred worker runs DeferredRemove.                      *)

\* Where a thread goes on when CancelDownload returns to it.
Home(t) == IF t = Main THEN "ready" ELSE "complete"
AfterRemove(t) == IF t = Deferred THEN "idle" ELSE "cancelRelock"

\* By uuid first, then by URL.
Sought(d) ==
    IF UuidOf[d] # NoUuid /\ FindByUUID(UuidOf[d]) # 0
    THEN FindByUUID(UuidOf[d])
    ELSE FindByURL(UrlOf[d])

CancelFind(t, d) ==
    /\ transfermutex = None
    /\ LET k == Sought(d)
           e == transfers[k]
       IN  IF k = 0
           THEN /\ Goto(t, Home(t))           \* "Could not find download to cancel"
                /\ UNCHANGED <<transfermutex, target, asked>>
           ELSE /\ Goto(t, "cancelRegister") /\ Set(t, e)
                /\ transfermutex' = t
                /\ asked' = asked \cup {e}
    /\ UNCHANGED <<transfers, obj, dlvars, work, hit, index>>

ClientCancel(d) ==
    /\ at[Main] = "ready"
    /\ plan.cancels[d] > 0
    /\ plan' = [plan EXCEPT !.cancels[d] = @ - 1]
    /\ CancelFind(Main, d)

CancelRegister(t) ==
    LET e == target[t]
    IN  /\ at[t] = "cancelRegister"
        /\ \/ /\ reapstatus[e] = "OK"
              /\ callbacks' = [callbacks EXCEPT ![e] = @ + 1]
              /\ Goto(t, "cancelFlag")
              /\ UNCHANGED transfermutex
           \/ /\ reapstatus[e] # "OK"         \* already completed, remove immediately
              /\ transfermutex' = None
              /\ Goto(t, "removeBegin")
              /\ UNCHANGED callbacks
        /\ UNCHANGED <<transfers, obj, status, cancel, reapstatus, work, target, hit,
                       index, asked, plan>>

CancelFlag(t) ==
    /\ at[t] = "cancelFlag"
    /\ cancel' = [cancel EXCEPT ![target[t]] = TRUE]
    /\ transfermutex' = None
    /\ Goto(t, Home(t))
    /\ UNCHANGED <<transfers, obj, status, reapstatus, callbacks, work, target, hit,
                   index, asked, plan>>

\* RemoveDownload reads the download's name and user before it takes the lock.
RemoveBegin(t) ==
    /\ at[t] = "removeBegin"
    /\ Goto(t, "removeLock")
    /\ UNCHANGED <<transfers, transfermutex, obj, dlvars, work, target, hit, index, asked, plan>>

RemoveLock(t) ==
    /\ at[t] = "removeLock"
    /\ transfermutex = None
    /\ LET h == FindByURL(UrlOf[target[t]])
       IN  IF h = 0
           THEN /\ Goto(t, AfterRemove(t))    \* "Download not found"
                /\ UNCHANGED <<transfermutex, hit>>
           ELSE /\ Goto(t, "removeReap")
                /\ hit' = [hit EXCEPT ![t] = h]
                /\ transfermutex' = t
    /\ UNCHANGED <<transfers, obj, dlvars, work, target, index, asked, plan>>

\* RemoveDownload that does not wait until the download may be reaped.
RemoveAtOnce(t) ==
    /\ at[t] = "removeReap"
    /\ transfers' = RemoveAt(transfers, hit[t])
    /\ obj' = [obj EXCEPT ![target[t]] = "freed"]
    /\ transfermutex' = None
    /\ Goto(t, AfterRemove(t))
    /\ UNCHANGED <<dlvars, work, target, hit, index, asked, plan>>

\* RemoveDownload that polls ReapOK once and gives up.
RemoveGivesUp(t) ==
    /\ at[t] = "removeReap"
    /\ IF ReapOK(target[t])
       THEN /\ transfers' = RemoveAt(transfers, hit[t])
            /\ obj' = [obj EXCEPT ![target[t]] = "freed"]
       ELSE UNCHANGED <<transfers, obj>>
    /\ transfermutex' = None
    /\ Goto(t, AfterRemove(t))
    /\ UNCHANGED <<dlvars, work, target, hit, index, asked, plan>>

\* The loop on ReapOK with the lock held, then erase and delete.
RemoveReap(t) ==
    /\ at[t] = "removeReap"
    /\ ReapOK(target[t])
    /\ transfers' = RemoveAt(transfers, hit[t])
    /\ obj' = [obj EXCEPT ![target[t]] = "freed"]
    /\ transfermutex' = None
    /\ Goto(t, AfterRemove(t))
    /\ UNCHANGED <<dlvars, work, target, hit, index, asked, plan>>

CancelRelock(t) ==
    /\ at[t] = "cancelRelock"
    /\ transfermutex = None
    /\ Goto(t, Home(t))
    /\ UNCHANGED <<transfers, transfermutex, obj, dlvars, work, target, hit, index, asked, plan>>

CancelOrRemove(t) ==
    \/ CancelRegister(t) \/ CancelFlag(t) \/ CancelRelock(t)
    \/ RemoveBegin(t) \/ RemoveLock(t) \/ RemoveReap(t)

DeferredTake ==
    /\ at[Deferred] = "idle"
    /\ work # <<>>
    /\ Set(Deferred, Head(work))
    /\ work' = Tail(work)
    /\ Goto(Deferred, "removeBegin")
    /\ UNCHANGED <<transfers, transfermutex, obj, dlvars, hit, index, asked, plan>>

-------------------------------------------------------------------------------
(* Run and Complete, on the download's own thread.                           *)

\* Cancelled before it could start, or off to curl_easy_perform.
RunBegin(d) ==
    /\ at[d] = "begin"
    /\ IF status[d] = "QUEUED" /\ ~cancel[d]
       THEN status' = [status EXCEPT ![d] = "INPROGRESS"] /\ Goto(d, "transfer")
       ELSE status' = [status EXCEPT ![d] = "FINISHED"] /\ Goto(d, "signal")
    /\ UNCHANGED <<transfers, transfermutex, obj, cancel, reapstatus, callbacks, work,
                   target, hit, index, asked, plan>>

TransferEnds(d) ==
    /\ at[d] = "transfer"
    /\ status' = [status EXCEPT ![d] = "FINISHED"]
    /\ Goto(d, "signal")
    /\ UNCHANGED <<transfers, transfermutex, obj, cancel, reapstatus, callbacks, work,
                   target, hit, index, asked, plan>>

\* SignalDone or SignalFailed; both are connected to dlDone when the policy
\* says so, and dlDone calls CancelDownload with the download's own uuid and URL.
RunSignal(d) ==
    /\ at[d] = "signal"
    /\ \/ /\ ~AutoRemove(d)
          /\ Goto(d, "complete")
          /\ UNCHANGED <<transfers, transfermutex, obj, dlvars, work, target, hit, index, asked>>
       \/ /\ AutoRemove(d)
          /\ CancelFind(d, d)
    /\ UNCHANGED plan

CompleteEnter(d) ==
    /\ at[d] = "complete"
    /\ reapstatus' = [reapstatus EXCEPT ![d] = "CALLINPROGRESS"]
    /\ Goto(d, "invoke")
    /\ UNCHANGED <<transfers, transfermutex, obj, status, cancel, callbacks, work,
                   target, hit, index, asked, plan>>

\* InvokeCallbacks with a payload that was lost.
InvokeWithNothing(d) ==
    /\ at[d] = "invoke"
    /\ work' = work \o [k \in 1..callbacks[d] |-> None]
    /\ Goto(d, "finish")
    /\ UNCHANGED <<transfers, transfermutex, obj, dlvars, target, hit, index, asked, plan>>

\* InvokeCallbacks that calls nobody.
InvokeNobody(d) ==
    /\ at[d] = "invoke"
    /\ Goto(d, "finish")
    /\ UNCHANGED <<transfers, transfermutex, obj, dlvars, work, target, hit, index, asked, plan>>

InvokeCallbacks(d) ==
    /\ at[d] = "invoke"
    /\ work' = work \o [k \in 1..callbacks[d] |-> d]
    /\ Goto(d, "finish")
    /\ UNCHANGED <<transfers, transfermutex, obj, dlvars, target, hit, index, asked, plan>>

\* Complete that does not get to CALLDONE.
CompleteHalfway(d) ==
    /\ at[d] = "finish"
    /\ Goto(d, "ended")
    /\ UNCHANGED <<transfers, transfermutex, obj, dlvars, work, target, hit, index, asked, plan>>

CompleteFinish(d) ==
    /\ at[d] = "finish"
    /\ reapstatus' = [reapstatus EXCEPT ![d] = "CALLDONE"]
    /\ Goto(d, "ended")
    /\ UNCHANGED <<transfers, transfermutex, obj, status, cancel, callbacks, work,
                   target, hit, index, asked, plan>>

Run(d) == \/ RunBegin(d) \/ TransferEnds(d) \/ RunSignal(d)
          \/ CompleteEnter(d) \/ InvokeCallbacks(d) \/ CompleteFinish(d)
          \/ CancelOrRemove(d)

-------------------------------------------------------------------------------
(* ShutDown, on the main thread, the lock held throughout.                   *)

ShutDownLock ==
    /\ plan.stop
    /\ at[Main] = "ready"
    /\ transfermutex = None
    /\ transfermutex' = Main
    /\ Goto(Main, "stop")
    /\ UNCHANGED <<transfers, obj, dlvars, work, target, hit, index, asked, plan>>

ShutDownStop ==
    /\ at[Main] = "stop"
    /\ index <= Len(transfers)
    /\ cancel' = [cancel EXCEPT ![transfers[index]] = TRUE]
    /\ Goto(Main, "stopReap")
    /\ UNCHANGED <<transfers, transfermutex, obj, status, reapstatus, callbacks, work,
                   target, hit, index, asked, plan>>

ShutDownReap ==
    /\ at[Main] = "stopReap"
    /\ ReapOK(transfers[index])
    /\ obj' = [obj EXCEPT ![transfers[index]] = "freed"]
    /\ index' = index + 1
    /\ Goto(Main, "stop")
    /\ UNCHANGED <<transfers, transfermutex, dlvars, work, target, hit, asked, plan>>

ShutDownEnd ==
    /\ at[Main] = "stop"
    /\ index > Len(transfers)
    /\ transfers' = <<>>
    /\ transfermutex' = None
    /\ Goto(Main, "exited")
    /\ UNCHANGED <<obj, dlvars, work, target, hit, index, asked, plan>>

-------------------------------------------------------------------------------
(* ListDownloads and GetDownloadByUUID, on the main thread: one answer for   *)
(* each download of the list, with the lock held throughout.                 *)

ListLock ==
    /\ at[Main] = "ready"
    /\ transfermutex = None
    /\ transfermutex' = Main
    /\ Goto(Main, "list")
    /\ UNCHANGED <<transfers, obj, dlvars, work, target, hit, index, asked, plan>>

SendDownload ==
    /\ at[Main] = "list"
    /\ index <= Len(transfers)
    /\ index' = index + 1
    /\ UNCHANGED <<transfers, transfermutex, obj, dlvars, work, at, target, hit, asked, plan>>

ListEnd ==
    /\ at[Main] = "list"
    /\ index > Len(transfers)
    /\ index' = 1
    /\ transfermutex' = None
    /\ Goto(Main, "ready")
    /\ UNCHANGED <<transfers, obj, dlvars, work, target, hit, asked, plan>>

\* One uuid: nothing is sent of a download when "uuid not found".
GetDownloadByUUID(d) ==
    /\ at[Main] = "ready"
    /\ transfermutex = None
    /\ LET k == FindByUUID(UuidOf[d])
       IN  /\ k # 0
           /\ Set(Main, transfers[k])
           /\ transfermutex' = Main
           /\ Goto(Main, "listOne")
    /\ UNCHANGED <<transfers, obj, dlvars, work, hit, index, asked, plan>>

SendOne ==
    /\ at[Main] = "listOne"
    /\ transfermutex' = None
    /\ Goto(Main, "ready")
    /\ UNCHANGED <<transfers, obj, dlvars, work, target, hit, index, asked, plan>>

-------------------------------------------------------------------------------
ListSteps == SendDownload \/ ListEnd \/ SendOne
AddSteps == AddCheckUrl \/ AddFind \/ AddRegister \/ AddStart
ShutDownSteps == ShutDownStop \/ ShutDownReap \/ ShutDownEnd

Next == \/ \E d \in Downloads : AddCheckUuid(d) \/ ClientCancel(d) \/ Run(d)
                                  \/ GetDownloadByUUID(d)
        \/ AddSteps \/ ListLock \/ ListSteps \/ ShutDownLock \/ ShutDownSteps
        \/ CancelOrRemove(Main)
        \/ DeferredTake \/ CancelOrRemove(Deferred)

Spec == Init /\ [][Next]_vars

(* Every thread that can go on does.  In particular a transfer ends, which   *)
(* is up to the server, and the deferred worker takes what is queued (see    *)
(* AsyncWorker for when it does not).  A thread that waits for the lock gets  *)
(* it although clients list the downloads again and again.  No client has to *)
(* send a request, and FindDownloader need not return: its WaitForCompletion *)
(* may miss the end of the probe (see Completion), whose server may be silent.*)
Fairness == /\ \A d \in Downloads : SF_vars(Run(d))
            /\ WF_vars(/\ at[Main] # "addFind"
                       /\ AddSteps \/ ListSteps \/ ShutDownSteps \/ CancelOrRemove(Main))
            /\ SF_vars(DeferredTake \/ CancelOrRemove(Deferred))

FairSpec == Spec /\ Fairness

-------------------------------------------------------------------------------
\* A cancel that names download d may find download e.
Reaches(d, e) == UuidOf[d] = UuidOf[e] \/ UrlOf[d] = UrlOf[e]

\* Each download has one remover at most: one client's cancel, its policy, or
\* the shutdown.
OneRemoverEach(p) ==
    /\ \A c, d, e \in Downloads :
          /\ Reaches(c, e) /\ p.cancels[c] > 0
          /\ Reaches(d, e) /\ p.cancels[d] > 0
          => c = d /\ p.cancels[c] = 1
    /\ \A d, e \in Downloads : Reaches(d, e) /\ p.policy[e] # 0 => p.cancels[d] = 0
    /\ p.stop => \A d \in Downloads : p.policy[d] = 0 /\ p.cancels[d] = 0

CancelPCs == {"cancelRegister", "cancelFlag", "removeBegin", "removeLock",
              "removeReap", "cancelRelock"}
MainPCs == {"ready", "addUrl", "addFind", "addRegister", "addStart",
            "list", "listOne", "stop", "stopReap", "exited"} \cup CancelPCs
RunPCs == {"unborn", "begin", "transfer", "signal", "complete", "invoke", "finish",
           "ended"} \cup CancelPCs

ThreadTypes == /\ at \in [Threads -> MainPCs \cup RunPCs \cup {"idle"}]
               /\ target \in [Threads -> Downloads \cup {None}]
               /\ hit \in [Threads -> Nat]
               /\ index \in Nat
ListTypes == /\ transfers \in Seq(Downloads)
             /\ transfermutex \in Threads \cup {None}
             /\ work \in Seq(Downloads)
             /\ asked \in SUBSET Downloads
DownloadTypes ==
    /\ obj \in [Downloads -> {"none", "live", "freed"}]
    /\ status \in [Downloads -> {"NOTSTARTED", "QUEUED", "INPROGRESS", "FINISHED"}]
    /\ cancel \in [Downloads -> BOOLEAN]
    /\ reapstatus \in [Downloads -> {"OK", "CALLINPROGRESS", "CALLDONE"}]
    /\ callbacks \in [Downloads -> Nat]
PlanType == plan \in [policy : [Downloads -> Nat], cancels : [Downloads -> Nat],
                      stop : BOOLEAN]

TypeOK == ThreadTypes /\ ListTypes /\ DownloadTypes /\ PlanType

(* The objects a thread's next step dereferences.                            *)
Uses(t) ==
    (IF at[t] \in {"addRegister", "addStart", "cancelRegister", "cancelFlag",
                   "removeBegin", "removeReap", "listOne"}
       \/ (at[t] = "removeLock" /\ transfers # <<>>)
     THEN {target[t]} ELSE {})
    \cup (IF t \in Downloads /\ at[t] \notin {"unborn", "ended"} THEN {t} ELSE {})
    \cup (IF (at[t] \in {"stop", "list"} /\ index <= Len(transfers)) \/ at[t] = "stopReap"
          THEN {transfers[index]} ELSE {})

(* No thread ever uses a deleted download: not the thread that transfers it, *)
(* not a removal that is queued or under way, not a walk of the list by      *)
(* whoever gets the lock next.  "CALLDONE - We have done our callbacks, reap *)
(* is ok" (Downloader.h:64).                                                 *)
NoUseAfterFree ==
    /\ \A t \in Threads : \A d \in Uses(t) : obj[d] = "live"
    /\ transfermutex = None => \A d \in ToSet(transfers) : obj[d] = "live"

(* Every download that exists is on the list, where clients can see and      *)
(* cancel it, except while AddDownload is still at work on it: removals and  *)
(* completions never leave an object behind.                                 *)
NoOrphans ==
    \A d \in Downloads :
        obj[d] = "live" => \/ d \in ToSet(transfers)
                           \/ at[Main] = "addRegister" /\ target[Main] = d

(* "Avoid duplicate concurrent downloads" (FtdApp.cpp:184): no two listed    *)
(* downloads fetch the same URL.                                             *)
NoDuplicateUrl ==
    \A j, k \in DOMAIN transfers :
        UrlOf[transfers[j]] = UrlOf[transfers[k]] => j = k

(* A download whose removal was asked for, by a client or by its policy, is  *)
(* deleted in the end, even if the main thread stays in FindDownloader.      *)
AskedIsRemoved == \A d \in Downloads : d \in asked ~> obj[d] = "freed"

(* Nothing but FindDownloader keeps the main thread for ever: not the lock,  *)
(* not a removal that waits for ReapOK, not the shutdown.  Otherwise the next *)
(* client is served.                                                         *)
MainReturns == at[Main] # "ready" ~> at[Main] \in {"ready", "addFind", "exited"}

(* Shutting down ends: ShutDown's loop, unlike WaitForCompletion, is meant   *)
(* not to "hang between check if ok to wait and actual wait" (FtdApp.cpp:655)*)
(* It does not end while a download that removes itself finishes.            *)
ShutDownReturns == at[Main] = "stop" ~> at[Main] = "exited"

-------------------------------------------------------------------------------
(* The list the clients see.                                                 *)

Freed == {d \in Downloads : obj[d] = "freed"}

DL == INSTANCE DownloadList WITH listed <- ToSet(transfers) \ Freed,
                                 gone <- Freed,
                                 closing <- at[Main] \in {"stop", "stopReap", "exited"}

(* FtdApp and its threads implement the DownloadList: nothing leaves the     *)
(* list unasked, nothing is left out of it, nothing is deleted twice.        *)
ImplementsDownloadList == DL!Spec
===============================================================================
