----------------------- MODULE TorrentDownloaderProofs ------------------------
(***************************************************************************)
(* Proofs about TorrentDownloader: the types; that the manager's thread    *)
(* does under dlmutex what it does to a torrent that exists, if it came    *)
(* from a file; and that a torrent that was deleted is left alone by       *)
(* everybody but the deferred work queued for it.                          *)
(*                                                                         *)
(* The argument is about Complete.  DownloadDone calls it with dlmutex held, *)
(* and the alert that leads there comes once; DoCancel calls it when the   *)
(* torrent has left the session; and an add that failed when it never got  *)
(* there.  So when a download may be reaped, no alert of its end is left,  *)
(* and what remains is to take it off the manager's list, with dlmutex.    *)
(***************************************************************************)
EXTENDS TorrentDownloader, TLAPS

-------------------------------------------------------------------------------
(* The inductive invariant.                                                  *)

\* The steps of DownloadDone and of the signal after it.
Completing == {"done", "done2", "done3", "signal"}

\* No alert says that the torrent is whole.
NoneFinished == \A i \in DOMAIN alerts : alerts[i] # "finished"

LockInv == dlmutex = IF at["manager"] \in Locked THEN "manager" ELSE Nobody

AlertInv ==
    /\ \A i, j \in DOMAIN alerts :
          alerts[i] = "finished" /\ alerts[j] = "finished" => i = j
    /\ ~whole => NoneFinished
    /\ at["manager"] \in Completing => whole /\ NoneFinished

TableInv ==
    /\ freed => ~listed
    /\ at["adder"] = "mapping" \/ mapped => handle # "none"
    /\ cancel => status # "NOTSTARTED"

\* A torrent from a file, until DirWatcher registers it with FtdApp.
AddInv == source = "file" =>
    /\ at["adder"] \in {"adding", "addfailed", "addfailed2", "mapping", "added", "over",
                      "dead"}
    /\ at["adder"] \notin {"over", "dead"} =>
          /\ at["main"] = "idle" /\ at["worker"] = "idle" /\ queue = <<>>
          /\ ~inapp /\ ~registered /\ ~freed /\ ~cancel
    /\ at["adder"] = "adding" => ~whole
    /\ at["adder"] \in {"adding", "addfailed"} => reap = "OK"
    /\ at["adder"] \in {"adding", "addfailed", "addfailed2"} => handle = "none"
    /\ at["adder"] \in {"adding", "addfailed", "addfailed2", "mapping"} =>
          ~mapped /\ at["manager"] \notin Completing
    /\ at["adder"] \in {"adding", "mapping"} => status = "NOTSTARTED"
    /\ at["adder"] = "added" /\ status = "FAILED" => reap = "DONE"

\* A torrent from a file that has completed, and one that is deleted.
ReapInv == source = "file" =>
    /\ at["worker"] \in {"cunmap", "cstatus", "complete", "complete2"} => handle # "valid"
    /\ reap = "DONE" /\ handle = "valid" => whole /\ NoneFinished
    /\ freed => reap = "DONE"
    /\ \A x \in {"main", "worker"} : at[x] \in {"delete", "unmap", "unlist"} => reap = "DONE"
    /\ freed => at["manager"] \notin Locked

TorrentInv == TypeOK /\ LockInv /\ AlertInv /\ TableInv /\ AddInv /\ ReapInv

-------------------------------------------------------------------------------
(* Types.                                                                    *)

(* The work and the alerts are lists of the kinds there are.                 *)
LEMMA WorkAndAlerts ==
  ASSUME TypeOK
  PROVE  /\ \A w \in {"cleanup", "cancel", "remove"} :
               Append(queue, w) \in Seq({"cleanup", "cancel", "remove"})
         /\ queue # <<>> => Tail(queue) \in Seq({"cleanup", "cancel", "remove"})
         /\ \A a \in {"finished", "resume"} :
               Append(alerts, a) \in Seq({"finished", "resume"})
         /\ alerts # <<>> => Tail(alerts) \in Seq({"finished", "resume"})
  BY DEF TypeOK, ListTypes

(* Every step keeps the types.                                               *)
LEMMA TypeKeeps ==
  ASSUME TypeOK, [Next]_vars
  PROVE  TypeOK'
<1>1. CASE Adder
  <2>1. ThreadTypes'
    BY <1>1 DEF TypeOK, ThreadTypes, Adder, HttpDone, HttpFailed, AddTorrent,
         Progressed, AddFails, RegisterHandle, AddCleanup, RegisterDownload,
         DiscardDownload, FetchOver, CompleteBegin, CompleteEnd, Step, Labels
  <2>2. StateTypes'
    BY <1>1 DEF TypeOK, StateTypes, Adder, HttpDone, HttpFailed, AddTorrent, Progressed,
         AddFails, RegisterHandle, AddCleanup, RegisterDownload, DiscardDownload,
         FetchOver, CompleteBegin, CompleteEnd, Rest, object, session
  <2>3. FlagTypes'
    BY <1>1 DEF TypeOK, FlagTypes, Adder, HttpDone, HttpFailed, AddTorrent, Progressed,
         AddFails, RegisterHandle, AddCleanup, RegisterDownload, DiscardDownload,
         FetchOver, CompleteBegin, CompleteEnd, Rest, object, session, tables
  <2>4. ListTypes'
    <3>1. /\ \/ queue' = queue
             \/ queue' = Append(queue, "cleanup") \/ queue' = Append(queue, "remove")
          /\ alerts' = alerts
      BY <1>1 DEF Adder, HttpDone, HttpFailed, AddTorrent, Progressed, AddFails,
           RegisterHandle, AddCleanup, RegisterDownload, DiscardDownload, FetchOver,
           CompleteBegin, CompleteEnd, Rest, session
    <3> QED
      BY <3>1, WorkAndAlerts DEF TypeOK, ListTypes
  <2> QED
    BY <2>1, <2>2, <2>3, <2>4 DEF TypeOK
<1>2. CASE Main
  <2>1. ThreadTypes'
    BY <1>2 DEF TypeOK, ThreadTypes, Main, RegisterCallback, CancelTest, CancelSet,
         CancelWork, CancelEnd, GetInfo, WaitResume, Step, Labels
  <2>2. StateTypes'
    BY <1>2 DEF TypeOK, StateTypes, Main, RegisterCallback, CancelTest, CancelSet,
         CancelWork, CancelEnd, GetInfo, WaitResume, Rest, session, Threads
  <2>3. FlagTypes'
    BY <1>2 DEF TypeOK, FlagTypes, Main, RegisterCallback, CancelTest, CancelSet,
         CancelWork, CancelEnd, GetInfo, WaitResume, Rest, session, tables
  <2>4. ListTypes'
    BY <1>2 DEF TypeOK, ListTypes, Main, RegisterCallback, CancelTest, CancelSet,
         CancelWork, CancelEnd, GetInfo, WaitResume, Rest, session
  <2> QED
    BY <2>1, <2>2, <2>3, <2>4 DEF TypeOK
<1>3. CASE Worker
  <2>1. ThreadTypes'
    BY <1>3 DEF TypeOK, ThreadTypes, ListTypes, Worker, TakeWork, DeferredCleanup,
         FetchReap, DoCancel, UnregisterHandle, CancelDone, CompleteBegin,
         CompleteEnd, Step, Labels
  <2>2. StateTypes'
    BY <1>3 DEF TypeOK, StateTypes, Worker, TakeWork, DeferredCleanup, FetchReap,
         DoCancel, UnregisterHandle, CancelDone, CompleteBegin, CompleteEnd, Rest,
         object, session
  <2>3. FlagTypes'
    BY <1>3 DEF TypeOK, FlagTypes, Worker, TakeWork, DeferredCleanup, FetchReap,
         DoCancel, UnregisterHandle, CancelDone, CompleteBegin, CompleteEnd, Rest,
         object, session, tables
  <2>4. ListTypes'
    <3>1. /\ \/ queue' = queue \/ queue' = Append(queue, "remove")
             \/ queue # <<>> /\ queue' = Tail(queue)
          /\ alerts' = alerts
      BY <1>3 DEF Worker, TakeWork, DeferredCleanup, FetchReap, DoCancel,
           UnregisterHandle, CancelDone, CompleteBegin, CompleteEnd, Rest, session
    <3> QED
      BY <3>1, WorkAndAlerts DEF TypeOK, ListTypes
  <2> QED
    BY <2>1, <2>2, <2>3, <2>4 DEF TypeOK
<1>4. CASE Manager
  <2>1. ThreadTypes'
    BY <1>4 DEF TypeOK, ThreadTypes, Manager, Alerts, FinishedAlert,
         DownloadDoneThrows, DownloadDone, DoneSignalled, ResumeAlert, ResumeWritten,
         UpdateBegin, UpdateEnd, Progressed, CompleteBegin, CompleteEnd, Step, Labels
  <2>2. StateTypes'
    BY <1>4 DEF TypeOK, StateTypes, Manager, Alerts, FinishedAlert, DownloadDoneThrows,
         DownloadDone, DoneSignalled, ResumeAlert, ResumeWritten, UpdateBegin,
         UpdateEnd, Progressed, CompleteBegin, CompleteEnd, Rest, object, session,
         Threads
  <2>3. FlagTypes'
    BY <1>4 DEF TypeOK, FlagTypes, Manager, Alerts, FinishedAlert, DownloadDoneThrows,
         DownloadDone, DoneSignalled, ResumeAlert, ResumeWritten, UpdateBegin,
         UpdateEnd, Progressed, CompleteBegin, CompleteEnd, Rest, object, session,
         tables
  <2>4. ListTypes'
    <3>1. /\ queue' = queue \/ queue' = Append(queue, "remove")
          /\ alerts' = alerts \/ (alerts # <<>> /\ alerts' = Tail(alerts))
      BY <1>4 DEF Manager, Alerts, FinishedAlert, DownloadDoneThrows, NextAlert,
           DownloadDone, DoneSignalled, ResumeAlert, ResumeWritten, UpdateBegin,
           UpdateEnd, Progressed, CompleteBegin, CompleteEnd, Rest, session
    <3> QED
      BY <3>1, WorkAndAlerts DEF TypeOK, ListTypes
  <2> QED
    BY <2>1, <2>2, <2>3, <2>4 DEF TypeOK
<1>5. CASE TorrentFinishes \/ ClientCancels \/ ListDownloads \/ ShutDown
  <2>1. ThreadTypes'
    BY <1>5 DEF TypeOK, ThreadTypes, TorrentFinishes, ClientCancels, ListDownloads,
         ShutDown, Step, Labels
  <2>2. StateTypes'
    BY <1>5 DEF TypeOK, StateTypes, TorrentFinishes, ClientCancels, ListDownloads,
         ShutDown, Rest, object, session, Threads
  <2>3. FlagTypes'
    BY <1>5 DEF TypeOK, FlagTypes, TorrentFinishes, ClientCancels, ListDownloads,
         ShutDown, Rest, object, session, tables
  <2>4. ListTypes'
    <3>1. /\ queue' = queue
          /\ \/ alerts' = alerts
             \/ alerts' = Append(alerts, "finished") \/ alerts' = Append(alerts, "resume")
      BY <1>5 DEF TorrentFinishes, ClientCancels, ListDownloads, ShutDown, Rest,
           session
    <3> QED
      BY <3>1, WorkAndAlerts DEF TypeOK, ListTypes
  <2> QED
    BY <2>1, <2>2, <2>3, <2>4 DEF TypeOK
<1>6. CASE \E x \in {"main", "worker"} : RemoveDownload(x)
  <2>1. ThreadTypes'
    BY <1>6 DEF TypeOK, ThreadTypes, RemoveDownload, RemoveBegin, RemoveReap,
         Destroy, UnregisterHandle, DestroyEnd, Step, Labels
  <2>2. StateTypes'
    BY <1>6 DEF TypeOK, StateTypes, RemoveDownload, RemoveBegin, RemoveReap,
         Destroy, UnregisterHandle, DestroyEnd, Unlock, Rest, session, Threads
  <2>3. FlagTypes'
    BY <1>6 DEF TypeOK, FlagTypes, RemoveDownload, RemoveBegin, RemoveReap, Destroy,
         UnregisterHandle, DestroyEnd, Rest, session, tables
  <2>4. ListTypes'
    <3>1. /\ queue' = queue \/ queue' = Append(queue, "cancel")
          /\ alerts' = alerts
      BY <1>6 DEF RemoveDownload, RemoveBegin, RemoveReap, Destroy,
           UnregisterHandle, DestroyEnd, Rest, session
    <3> QED
      BY <3>1, WorkAndAlerts DEF ListTypes
  <2> QED
    BY <2>1, <2>2, <2>3, <2>4 DEF TypeOK
<1>7. CASE UNCHANGED vars
  <2>1. ThreadTypes'
    BY <1>7 DEF TypeOK, ThreadTypes, vars
  <2>2. StateTypes'
    BY <1>7 DEF TypeOK, StateTypes, vars, object, session
  <2>3. FlagTypes'
    BY <1>7 DEF TypeOK, FlagTypes, vars, object, session, tables
  <2>4. ListTypes'
    BY <1>7 DEF TypeOK, ListTypes, vars, session
  <2> QED
    BY <2>1, <2>2, <2>3, <2>4 DEF TypeOK
<1> QED
  BY <1>1, <1>2, <1>3, <1>4, <1>5, <1>6, <1>7 DEF Next

(* A torrent is new.                                                         *)
LEMMA InitTypes == Init => TypeOK
<1> SUFFICES ASSUME Init PROVE TypeOK
  OBVIOUS
<1>1. ThreadTypes
  BY DEF Init, ThreadTypes, Labels
<1>2. StateTypes
  BY DEF Init, StateTypes
<1>3. FlagTypes
  BY Zenon DEF Init, FlagTypes
<1>4. ListTypes
  BY DEF Init, ListTypes
<1> QED
  BY <1>1, <1>2, <1>3, <1>4 DEF TypeOK

(* Every variable keeps its type.                                            *)
THEOREM TorrentTypeCorrect == Spec => []TypeOK
  BY InitTypes, TypeKeeps, PTL DEF Spec

-------------------------------------------------------------------------------
(* Every step keeps the invariant.                                           *)

(* What is taken from the alerts and what is added to them.                  *)
LEMMA AlertsMove ==
  ASSUME TypeOK
  PROVE  /\ alerts # <<>> => /\ Tail(alerts) \in Seq({"finished", "resume"})
                             /\ 1 \in DOMAIN alerts /\ alerts[1] = Head(alerts)
                             /\ \A i \in DOMAIN Tail(alerts) :
                                   i + 1 \in DOMAIN alerts /\ Tail(alerts)[i] = alerts[i + 1]
         /\ \A a : \A i \in DOMAIN Append(alerts, a) :
               \/ i \in DOMAIN alerts /\ Append(alerts, a)[i] = alerts[i]
               \/ i = Len(alerts) + 1 /\ Append(alerts, a)[i] = a
  BY DEF TypeOK, ListTypes, ListTypes

(* dlmutex is taken and given back by the manager's thread only.             *)
LEMMA LockInvKeeps ==
  ASSUME TorrentInv, [Next]_vars
  PROVE  LockInv'
<1>1. CASE Adder
  BY <1>1 DEF TorrentInv, LockInv, TypeOK, ThreadTypes, Threads, Adder, HttpDone,
       HttpFailed, AddTorrent, Progressed, AddFails, RegisterHandle, AddCleanup,
       RegisterDownload, DiscardDownload, FetchOver, CompleteBegin, CompleteEnd,
       Step
<1>2. CASE Main
  BY <1>2 DEF TorrentInv, LockInv, TypeOK, ThreadTypes, Threads, Main,
       RegisterCallback, CancelTest, CancelSet, CancelWork, CancelEnd, GetInfo,
       WaitResume, Step
<1>3. CASE Worker
  BY <1>3 DEF TorrentInv, LockInv, TypeOK, ThreadTypes, Threads, Worker, TakeWork,
       DeferredCleanup, FetchReap, DoCancel, UnregisterHandle, CancelDone,
       CompleteBegin, CompleteEnd, Step
<1>4. CASE Manager
  BY <1>4 DEF TorrentInv, LockInv, TypeOK, ThreadTypes, Threads, Locked, Manager,
       Alerts, FinishedAlert, DownloadDoneThrows, DownloadDone, DoneSignalled, ResumeAlert,
       ResumeWritten, UpdateBegin, UpdateEnd, Progressed, CompleteBegin, CompleteEnd, Step
<1>5. CASE TorrentFinishes \/ ClientCancels \/ ListDownloads \/ ShutDown
  BY <1>5 DEF TorrentInv, LockInv, TypeOK, ThreadTypes, Threads, TorrentFinishes,
       ClientCancels, ListDownloads, ShutDown, Step
<1>6. CASE \E x \in {"main", "worker"} : RemoveDownload(x)
  BY <1>6 DEF TorrentInv, LockInv, TypeOK, ThreadTypes, Threads, RemoveDownload,
       RemoveBegin, RemoveReap, Destroy, UnregisterHandle, DestroyEnd, Step
<1>7. CASE UNCHANGED vars
  BY <1>7 DEF TorrentInv, LockInv, vars
<1> QED
  BY <1>1, <1>2, <1>3, <1>4, <1>5, <1>6, <1>7 DEF Next

(* The torrent finishes once.                                                *)
LEMMA AlertInvKeeps ==
  ASSUME TorrentInv, [Next]_vars
  PROVE  AlertInv'
<1>1. CASE Adder
  BY <1>1 DEF TorrentInv, AlertInv, TypeOK, ThreadTypes, Threads, NoneFinished,
       Adder, HttpDone, HttpFailed, AddTorrent, Progressed, AddFails, RegisterHandle,
       AddCleanup, RegisterDownload, DiscardDownload, FetchOver, CompleteBegin,
       CompleteEnd, Step, Rest, session
<1>2. CASE Main
  BY <1>2 DEF TorrentInv, AlertInv, TypeOK, ThreadTypes, Threads, NoneFinished,
       Main, RegisterCallback, CancelTest, CancelSet, CancelWork, CancelEnd,
       GetInfo, WaitResume, Step, Rest, session
<1>3. CASE Worker
  BY <1>3 DEF TorrentInv, AlertInv, TypeOK, ThreadTypes, Threads, NoneFinished,
       Worker, TakeWork, DeferredCleanup, FetchReap, DoCancel, UnregisterHandle,
       CancelDone, CompleteBegin, CompleteEnd, Step, Rest, session
<1>4. CASE Manager
  <2>1. CASE FinishedAlert \/ ResumeAlert
    <3>1. /\ alerts # <<>> /\ alerts' = Tail(alerts) /\ whole' = whole
          /\ FinishedAlert => Head(alerts) = "finished"
          /\ at' = [at EXCEPT !["manager"] = at'["manager"]]
          /\ ResumeAlert => at'["manager"] \in {"idle", "notify"}
      BY <2>1 DEF FinishedAlert, DownloadDoneThrows, ResumeAlert, NextAlert, Step,
           TorrentInv, TypeOK, ThreadTypes
    <3>2. \A i \in DOMAIN alerts' : /\ i \in Nat /\ i + 1 \in DOMAIN alerts
                                   /\ i + 1 # 1 /\ alerts'[i] = alerts[i + 1]
      BY <3>1
    <3>3. 1 \in DOMAIN alerts /\ alerts[1] = Head(alerts)
      BY <3>1
    <3>4. FinishedAlert => whole /\ NoneFinished'
      BY <3>1, <3>2, <3>3 DEF TorrentInv, AlertInv, NoneFinished
    <3>5. ResumeAlert => at'["manager"] \notin Completing
      BY <3>1 DEF Completing
    <3>6. \A i, j \in DOMAIN alerts' :
             alerts'[i] = "finished" /\ alerts'[j] = "finished" => i = j
      BY <3>2 DEF TorrentInv, AlertInv
    <3>7. ~whole' => NoneFinished'
      BY <3>1 DEF TorrentInv, AlertInv, NoneFinished
    <3> QED
      BY <2>1, <3>1, <3>4, <3>5, <3>6, <3>7 DEF AlertInv
  <2>2. CASE DownloadDone \/ DoneSignalled \/ ResumeWritten \/ UpdateBegin \/ UpdateEnd
             \/ CompleteBegin("manager", "done2", "done3", "signal") \/ CompleteEnd("manager", "done3", "signal")
    BY <2>2 DEF TorrentInv, AlertInv, TypeOK, ThreadTypes, Threads, Completing,
         NoneFinished, DownloadDone, DoneSignalled, ResumeWritten, UpdateBegin,
         UpdateEnd, Progressed, CompleteBegin, CompleteEnd, Step, Rest, session
  <2>3. CASE DownloadDoneThrows
    <3>1. /\ alerts # <<>> /\ alerts' = Tail(alerts) /\ whole' = whole
          /\ at'["manager"] = "dead"
      BY <2>3 DEF DownloadDoneThrows, NextAlert, Threads
    <3>2. \A i \in DOMAIN alerts' : /\ i \in Nat /\ i + 1 \in DOMAIN alerts
                                   /\ i + 1 # 1 /\ alerts'[i] = alerts[i + 1]
      BY <3>1, AlertsMove DEF TorrentInv, TypeOK, ListTypes
    <3> QED
      BY <3>1, <3>2 DEF TorrentInv, AlertInv, NoneFinished, Completing
  <2> QED
    BY <1>4, <2>1, <2>2, <2>3 DEF Manager, Alerts
<1>5. CASE TorrentFinishes \/ ClientCancels \/ ListDownloads \/ ShutDown
  <2>1. at'["manager"] = at["manager"]
    BY <1>5 DEF TorrentFinishes, ClientCancels, ListDownloads, ShutDown, Step,
         TorrentInv, TypeOK, ThreadTypes, Threads
  <2>2. \/ UNCHANGED <<alerts, whole>>
        \/ alerts' = Append(alerts, "resume") /\ whole' = whole
        \/ alerts' = Append(alerts, "finished") /\ ~whole /\ whole'
    BY <1>5 DEF TorrentFinishes, ClientCancels, ListDownloads, ShutDown, Rest,
         session
  <2>3. \A i \in DOMAIN alerts' :
           \/ i \in DOMAIN alerts /\ alerts'[i] = alerts[i]
           \/ i = Len(alerts) + 1 /\ (alerts'[i] = "finished" => ~whole /\ whole')
    BY <2>2
  <2> QED
    BY <2>1, <2>2 DEF TorrentInv, AlertInv, NoneFinished
<1>6. CASE \E x \in {"main", "worker"} : RemoveDownload(x)
  BY <1>6 DEF TorrentInv, AlertInv, TypeOK, ThreadTypes, Threads, NoneFinished,
       RemoveDownload, RemoveBegin, RemoveReap, Destroy, UnregisterHandle,
       DestroyEnd, Step, Rest, session
<1>7. CASE UNCHANGED vars
  BY <1>7 DEF TorrentInv, AlertInv, NoneFinished, vars, session
<1> QED
  BY <1>1, <1>2, <1>3, <1>4, <1>5, <1>6, <1>7 DEF Next

(* What is in the tables.                                                    *)
LEMMA TableInvKeeps ==
  ASSUME TorrentInv, [Next]_vars
  PROVE  TableInv'
<1>1. CASE Adder
  BY <1>1 DEF TorrentInv, TableInv, TypeOK, ThreadTypes, Adder, HttpDone,
       HttpFailed, AddTorrent, Progressed, AddFails, RegisterHandle, AddCleanup,
       RegisterDownload, DiscardDownload, FetchOver, CompleteBegin, CompleteEnd,
       Step, Rest, object, session, tables
<1>2. CASE Main
  BY <1>2 DEF TorrentInv, TableInv, TypeOK, ThreadTypes, Threads, Main,
       RegisterCallback, CancelTest, CancelSet, CancelWork, CancelEnd, GetInfo,
       WaitResume, Step, Rest, session, tables
<1>3. CASE Worker
  BY <1>3 DEF TorrentInv, TableInv, TypeOK, ThreadTypes, Threads, Worker, TakeWork,
       DeferredCleanup, FetchReap, DoCancel, UnregisterHandle, CancelDone,
       CompleteBegin, CompleteEnd, Step, Rest, object, session, tables
<1>4. CASE Manager
  BY <1>4 DEF TorrentInv, TableInv, TypeOK, ThreadTypes, Threads, Manager, Alerts,
       FinishedAlert, DownloadDoneThrows, DownloadDone, DoneSignalled, ResumeAlert, ResumeWritten,
       UpdateBegin, UpdateEnd, Progressed, CompleteBegin, CompleteEnd, Step, Rest, object,
       session, tables
<1>5. CASE TorrentFinishes \/ ClientCancels \/ ListDownloads \/ ShutDown
  BY <1>5 DEF TorrentInv, TableInv, TypeOK, ThreadTypes, Threads, TorrentFinishes,
       ClientCancels, ListDownloads, ShutDown, Step, Rest, object, session, tables
<1>6. CASE \E x \in {"main", "worker"} : RemoveDownload(x)
  BY <1>6 DEF TorrentInv, TableInv, TypeOK, ThreadTypes, Threads, RemoveDownload,
       RemoveBegin, RemoveReap, Destroy, UnregisterHandle, DestroyEnd, Step, Rest,
       session, tables
<1>7. CASE UNCHANGED vars
  BY <1>7 DEF TorrentInv, TableInv, vars, object, session, tables
<1> QED
  BY <1>1, <1>2, <1>3, <1>4, <1>5, <1>6, <1>7 DEF Next

(* Nobody touches a torrent from a file before it is registered.             *)
LEMMA AddInvKeeps ==
  ASSUME TorrentInv, [Next]_vars
  PROVE  AddInv'
<1>1. CASE Adder
  <2>1. CASE HttpDone \/ HttpFailed \/ AddCleanup \/ FetchOver
    BY <2>1 DEF TorrentInv, AddInv, Step, Rest, HttpDone, HttpFailed, AddCleanup,
         FetchOver
  <2>2. CASE AddTorrent \/ AddFails
    BY <2>2 DEF TorrentInv, AddInv, TypeOK, ThreadTypes, Threads, Step, Rest,
         object, session, tables, AddTorrent, Progressed, AddFails
  <2>3. CASE RegisterHandle
    BY <2>3 DEF TorrentInv, AddInv, TypeOK, ThreadTypes, Threads, Step, object,
         RegisterHandle
  <2>4. CASE RegisterDownload \/ DiscardDownload
    BY <2>4 DEF TorrentInv, AddInv, TypeOK, ThreadTypes, Threads, Step,
         RegisterDownload, DiscardDownload
  <2>5. CASE CompleteBegin("adder", "httpfailed", "httpfailed2", "returning")
         \/ CompleteEnd("adder", "httpfailed2", "returning")
    BY <2>5 DEF TorrentInv, AddInv, Step, Rest, CompleteBegin, CompleteEnd
  <2>6. CASE CompleteBegin("adder", "addfailed", "addfailed2", "added")
    BY <2>6 DEF TorrentInv, AddInv, TypeOK, ThreadTypes, Threads, Step, Rest, session,
         tables, CompleteBegin
  <2>7. CASE CompleteEnd("adder", "addfailed2", "added")
    BY <2>7 DEF TorrentInv, AddInv, Step, Rest, session, tables, CompleteEnd
  <2> QED
    BY <1>1, <2>1, <2>2, <2>3, <2>4, <2>5, <2>6, <2>7 DEF Adder
<1>2. CASE Main
  BY <1>2 DEF TorrentInv, AddInv, TypeOK, ThreadTypes, Threads, Main,
       RegisterCallback, CancelTest, CancelSet, CancelWork, CancelEnd, GetInfo,
       WaitResume, Step, Rest
<1>3. CASE Worker
  BY <1>3 DEF TorrentInv, AddInv, TypeOK, ThreadTypes, Threads, Worker, TakeWork,
       DeferredCleanup, FetchReap, DoCancel, UnregisterHandle, CancelDone,
       CompleteBegin, CompleteEnd, Step, Rest
<1>4. CASE Manager
  <2>1. CASE FinishedAlert \/ ResumeAlert
    BY <2>1 DEF TorrentInv, AddInv, TypeOK, ThreadTypes, Threads, Step, object,
         tables, FinishedAlert, DownloadDoneThrows, ResumeAlert
  <2>2. CASE DownloadDone \/ DoneSignalled
    BY <2>2 DEF TorrentInv, AddInv, TypeOK, ThreadTypes, Threads, Step, Rest,
         session, tables, DownloadDone, DoneSignalled, Completing
  <2>3. CASE ResumeWritten
    BY <2>3 DEF TorrentInv, AddInv, TypeOK, ThreadTypes, Threads, Rest, session,
         tables, ResumeWritten, Completing
  <2>4. CASE UpdateBegin \/ UpdateEnd
    BY <2>4 DEF TorrentInv, AddInv, TypeOK, ThreadTypes, Threads, Step, Rest,
         session, tables, UpdateBegin, UpdateEnd, Progressed, Completing
  <2>5. CASE CompleteBegin("manager", "done2", "done3", "signal")
         \/ CompleteEnd("manager", "done3", "signal")
    BY <2>5 DEF TorrentInv, AddInv, TypeOK, ThreadTypes, Threads, Step, Rest,
         session, tables, CompleteBegin, CompleteEnd, Completing
  <2>6. CASE DownloadDoneThrows
    BY <2>6 DEF TorrentInv, AddInv, Threads, object, tables, DownloadDoneThrows,
         Completing
  <2> QED
    BY <1>4, <2>1, <2>2, <2>3, <2>4, <2>5, <2>6 DEF Manager, Alerts
<1>5. CASE TorrentFinishes \/ ClientCancels \/ ListDownloads \/ ShutDown
  BY <1>5 DEF TorrentInv, AddInv, TypeOK, ThreadTypes, Threads, TorrentFinishes,
       ClientCancels, ListDownloads, ShutDown, Step, Rest, object, tables
<1>6. CASE \E x \in {"main", "worker"} : RemoveDownload(x)
  BY <1>6 DEF TorrentInv, AddInv, TypeOK, ThreadTypes, Threads, RemoveDownload,
       RemoveBegin, RemoveReap, Destroy, UnregisterHandle, DestroyEnd, Step, Rest
<1>7. CASE UNCHANGED vars
  BY <1>7 DEF TorrentInv, AddInv, vars, object, session, tables
<1> QED
  BY <1>1, <1>2, <1>3, <1>4, <1>5, <1>6, <1>7 DEF Next

(* Complete comes last for a torrent from a file.                            *)
LEMMA ReapInvKeeps ==
  ASSUME TorrentInv, [Next]_vars
  PROVE  ReapInv'
<1>1. CASE Adder
  BY <1>1 DEF TorrentInv, ReapInv, TypeOK, ThreadTypes, Threads, LockInv, Nobody,
       AddInv, NoneFinished, Adder, HttpDone, HttpFailed, AddTorrent, Progressed, AddFails,
       RegisterHandle, AddCleanup, RegisterDownload, DiscardDownload, FetchOver,
       CompleteBegin, CompleteEnd, Step, Rest, object, session
<1>2. CASE Main
  BY <1>2 DEF TorrentInv, ReapInv, TypeOK, ThreadTypes, Threads, NoneFinished, Main,
       RegisterCallback, CancelTest, CancelSet, CancelWork, CancelEnd, GetInfo,
       WaitResume, Step, Rest, session
<1>3. CASE Worker
  BY <1>3 DEF TorrentInv, ReapInv, TypeOK, ThreadTypes, StateTypes, ListTypes,
       Threads, LockInv, Locked, TableInv, NoneFinished, Worker, TakeWork,
       DeferredCleanup, FetchReap, DoCancel, UnregisterHandle, CancelDone,
       CompleteBegin, CompleteEnd, Step, Rest, object, session, tables
<1>4. CASE Manager
  <2>1. CASE FinishedAlert \/ ResumeAlert
    <3>1. /\ alerts # <<>> /\ alerts' = Tail(alerts)
          /\ FinishedAlert => \/ Head(alerts) = "finished" /\ mapped
                              \/ at'["manager"] = at["manager"]
          /\ \A x \in {"main", "worker"} : at'[x] = at[x]
          /\ UNCHANGED <<source, whole, handle, reap, freed>>
      BY <2>1 DEF FinishedAlert, DownloadDoneThrows, ResumeAlert, NextAlert, Step,
           object, TorrentInv, TypeOK, ThreadTypes, Threads
    <3>2. NoneFinished => NoneFinished'
      BY <3>1 DEF NoneFinished
    <3>3. Head(alerts) = "finished" => ~NoneFinished
      BY <3>1 DEF TorrentInv, NoneFinished
    <3>4. source = "file" /\ freed => at'["manager"] \notin Locked
      BY <2>1, <3>1, <3>3 DEF FinishedAlert, DownloadDoneThrows, ResumeAlert, Step,
           TorrentInv, TypeOK, ThreadTypes, StateTypes, TableInv, ReapInv, Locked
    <3> QED
      BY <3>1, <3>2, <3>4 DEF TorrentInv, ReapInv
  <2>2. CASE CompleteEnd("manager", "done3", "signal")
    BY <2>2 DEF CompleteEnd, Step, Rest, session, TorrentInv, AlertInv, ReapInv,
         Completing, NoneFinished, Locked
  <2>3. CASE \/ DownloadDone \/ DoneSignalled \/ CompleteBegin("manager", "done2", "done3", "signal")
             \/ UpdateBegin \/ UpdateEnd
    BY <2>3 DEF DownloadDone, DoneSignalled, CompleteBegin, UpdateBegin, UpdateEnd,
         Progressed, Step, Rest, session, TorrentInv, TypeOK, ThreadTypes, Threads,
         TableInv, ReapInv, NoneFinished, Locked
  <2>4. CASE ResumeWritten
    BY <2>4 DEF ResumeWritten, Rest, session, TorrentInv, TypeOK, ThreadTypes,
         Threads, ReapInv, NoneFinished, Locked
  <2>5. CASE DownloadDoneThrows
    <3>1. /\ alerts # <<>> /\ alerts' = Tail(alerts)
          /\ NoneFinished => NoneFinished'
          /\ \A x \in Threads : at'[x] = "dead"
          /\ UNCHANGED <<source, whole, handle, reap, freed>>
      BY <2>5, AlertsMove DEF DownloadDoneThrows, NextAlert, object, TorrentInv, TypeOK,
           NoneFinished
    <3> QED
      BY <3>1 DEF TorrentInv, ReapInv, Threads, Locked
  <2> QED
    BY <1>4, <2>1, <2>2, <2>3, <2>4, <2>5 DEF Manager, Alerts
<1>5. CASE TorrentFinishes \/ ClientCancels \/ ListDownloads \/ ShutDown
  <2>1. /\ UNCHANGED <<source, reap, freed, handle>>
        /\ at'["worker"] = at["worker"] /\ at'["manager"] = at["manager"]
        /\ at'["main"] \notin {"delete", "unmap", "unlist"} \/ at'["main"] = at["main"]
    BY <1>5 DEF TorrentFinishes, ClientCancels, ListDownloads, ShutDown, Step, Rest,
         object, session, TorrentInv, TypeOK, ThreadTypes, Threads
  <2>2. \/ UNCHANGED <<alerts, whole>>
        \/ alerts' = Append(alerts, "resume") /\ whole' = whole
        \/ handle = "valid" /\ ~whole
    BY <1>5 DEF TorrentFinishes, ClientCancels, ListDownloads, ShutDown, Rest, session
  <2>3. alerts' = Append(alerts, "resume") => (NoneFinished => NoneFinished')
    BY DEF NoneFinished
  <2>4. UNCHANGED alerts => (NoneFinished => NoneFinished')
    BY DEF NoneFinished
  <2> QED
    BY <2>1, <2>2, <2>3, <2>4 DEF TorrentInv, ReapInv
<1>6. CASE \E x \in {"main", "worker"} : RemoveDownload(x)
  BY <1>6 DEF TorrentInv, ReapInv, TypeOK, ThreadTypes, Threads, LockInv, Nobody,
       TableInv, NoneFinished, RemoveDownload, RemoveBegin, RemoveReap, ReapOK,
       Destroy, UnregisterHandle, DestroyEnd, Step, Rest, session
<1>7. CASE UNCHANGED vars
  BY <1>7 DEF TorrentInv, ReapInv, NoneFinished, vars, object, session
<1> QED
  BY <1>1, <1>2, <1>3, <1>4, <1>5, <1>6, <1>7 DEF Next

(* The invariant holds from the moment a torrent is made.                    *)
THEOREM TorrentInvariant == Spec => []TorrentInv
<1>1. ASSUME Init PROVE TorrentInv
  <2>1. TypeOK /\ LockInv /\ AlertInv /\ TableInv
    BY <1>1, InitTypes DEF Init, LockInv, AlertInv, TableInv, Threads, Locked,
         Completing, NoneFinished
  <2>2. AddInv /\ ReapInv
    BY <1>1 DEF Init, AddInv, ReapInv, Threads, Completing
  <2> QED
    BY <2>1, <2>2 DEF TorrentInv
<1>2. ASSUME TorrentInv, [Next]_vars PROVE TorrentInv'
  BY <1>2, TypeKeeps, LockInvKeeps, AlertInvKeeps, TableInvKeeps, AddInvKeeps,
       ReapInvKeeps DEF TorrentInv
<1> QED
  BY <1>1, <1>2, PTL DEF Spec

(* The manager's thread never has dlmutex for a torrent from a file that has  *)
(* been deleted.                                                             *)
THEOREM ManagerFindsLive == Spec => []ManagerUsesLive
<1>1. TorrentInv => ManagerUsesLive
  BY DEF TorrentInv, ReapInv, ManagerUsesLive
<1> QED
  BY <1>1, TorrentInvariant, PTL

-------------------------------------------------------------------------------
(* Who may use a torrent that has been deleted.                              *)

\* The main thread has found the torrent in the list and has transfermutex.
Holding == {"register", "ctest", "cset", "cwork", "cend", "seeding", "downloading",
            "noinfo", "saved", "asleep"}
Deleting == {"reap", "delete", "unmap", "unlist"}

HoldInv ==
    /\ at["main"] \in Holding \cup Deleting => transfermutex = "main"
    /\ at["worker"] \in Deleting => transfermutex = "worker"
    /\ at["main"] \in Holding => inapp
    /\ inapp => ~freed
    /\ at["main"] \in Deleting \cup {"remove"} => ~freed
    /\ \A x \in {"main", "worker"} : at[x] \in {"delete", "unmap", "unlist"} => ~inapp

\* FtdApp::Remove is in the deferred work q.
Queued(q) == \E i \in DOMAIN q : q[i] = "remove"

\* A removal is the main thread's or the worker's, not both.
RemoverInv ==
    /\ registered => asked = "cancel" /\ at["main"] \notin {"register", "remove"} \cup Deleting
    /\ at["worker"] \in Deleting \cup {"remove"} => registered
    /\ Queued(queue) => registered
    /\ asked = "none" => at["main"] \in {"idle", "seeding", "downloading", "noinfo", "dead"}
    /\ at["main"] \in {"register", "remove"} => asked = "cancel"

\* The one "resume" alert is on its way, and the main thread with it.
ResumeInv ==
    /\ \A i \in DOMAIN alerts : alerts[i] = "resume" =>
          /\ at["main"] \in {"saved", "asleep", "dead"} /\ at["manager"] # "notify"
          /\ \A j \in DOMAIN alerts : alerts[j] = "resume" => i = j
    /\ at["manager"] = "notify" => at["main"] \in {"saved", "asleep"}

\* Where the main and the manager's threads can be.
RoleInv ==
    /\ at["main"] \in {"idle", "dead", "remove"} \cup Holding \cup Deleting
    /\ at["manager"] \in {"idle", "dead", "notify"} \cup Locked
    /\ at["main"] = "dead" => at["manager"] = "dead"

OwnerInv == RoleInv /\ HoldInv /\ RemoverInv /\ ResumeInv

(* What is taken from the deferred work and what is added to it.             *)
LEMMA WorkMoves ==
  ASSUME TypeOK
  PROVE  /\ queue # <<>> => /\ Head(queue) \in {"cleanup", "cancel", "remove"}
                            /\ Head(queue) = "remove" \/ Queued(Tail(queue)) => Queued(queue)
         /\ \A w : Queued(Append(queue, w)) => Queued(queue) \/ w = "remove"
  BY DEF TypeOK, ListTypes, Queued

(* No step takes the main or the manager's thread anywhere else.             *)
LEMMA RoleInvKeeps ==
  ASSUME TorrentInv, OwnerInv, [Next]_vars
  PROVE  RoleInv'
<1>1. CASE Adder
  BY <1>1 DEF TorrentInv, TypeOK, ThreadTypes, Threads, Nobody, OwnerInv, RoleInv,
       HoldInv, AddInv, Holding, Deleting, Locked, Adder, HttpDone, HttpFailed,
       AddTorrent, Progressed, AddFails, RegisterHandle, AddCleanup, RegisterDownload,
       DiscardDownload, FetchOver, CompleteBegin, CompleteEnd, Step, Rest, object,
       session, tables
<1>2. CASE Main
  BY <1>2 DEF TorrentInv, TypeOK, ThreadTypes, Threads, Nobody, OwnerInv, RoleInv,
       HoldInv, AddInv, Holding, Deleting, Locked, Main, RegisterCallback, CancelTest,
       CancelSet, CancelWork, CancelEnd, GetInfo, WaitResume, Step, Rest, object,
       session, tables
<1>3. CASE Worker
  BY <1>3 DEF TorrentInv, TypeOK, ThreadTypes, Threads, Nobody, OwnerInv, RoleInv,
       HoldInv, AddInv, Holding, Deleting, Locked, Worker, TakeWork, DeferredCleanup,
       FetchReap, DoCancel, UnregisterHandle, CancelDone, CompleteBegin, CompleteEnd,
       Step, Rest, object, session, tables
<1>4. CASE Manager
  <2>1. CASE Manager /\ ~DownloadDoneThrows
    BY <2>1 DEF TorrentInv, TypeOK, ThreadTypes, Threads, Nobody, OwnerInv, RoleInv,
         HoldInv, AddInv, Holding, Deleting, Locked, Manager, Alerts, FinishedAlert,
         NextAlert, DownloadDone, DoneSignalled, ResumeAlert, ResumeWritten, UpdateBegin,
         UpdateEnd, Progressed, CompleteBegin, CompleteEnd, Step, Rest, object, session, tables
  <2>2. CASE DownloadDoneThrows
    BY <2>2 DEF TorrentInv, OwnerInv, RoleInv, Threads, DownloadDoneThrows, NextAlert,
         object, tables
  <2> QED
    BY <1>4, <2>1, <2>2
<1>5. CASE TorrentFinishes \/ ClientCancels \/ ListDownloads \/ ShutDown
  BY <1>5 DEF TorrentInv, TypeOK, ThreadTypes, Threads, Nobody, OwnerInv, RoleInv,
       HoldInv, AddInv, Holding, Deleting, Locked, TorrentFinishes, ClientCancels,
       ListDownloads, ShutDown, Step, Rest, object, session, tables
<1>6. CASE \E x \in {"main", "worker"} : RemoveDownload(x)
  BY <1>6 DEF TorrentInv, TypeOK, ThreadTypes, Threads, Nobody, OwnerInv, RoleInv,
       HoldInv, AddInv, Holding, Deleting, Locked, RemoveDownload, RemoveBegin,
       RemoveReap, Destroy, UnregisterHandle, DestroyEnd, Unlock, Step, Rest, object,
       session, tables
<1>7. CASE UNCHANGED vars
  BY <1>7 DEF TorrentInv, TypeOK, ThreadTypes, Threads, Nobody, OwnerInv, RoleInv,
       HoldInv, AddInv, Holding, Deleting, Locked, vars, Step, Rest, object, session,
       tables
<1> QED
  BY <1>1, <1>2, <1>3, <1>4, <1>5, <1>6, <1>7 DEF Next

(* transfermutex keeps a torrent in the list while the main thread uses it.  *)
LEMMA HoldInvKeeps ==
  ASSUME TorrentInv, OwnerInv, [Next]_vars
  PROVE  HoldInv'
<1>1. CASE Adder
  BY <1>1, WorkMoves DEF TorrentInv, TypeOK, ThreadTypes, Threads, Nobody, OwnerInv,
       HoldInv, RemoverInv, AddInv, Holding, Deleting, Adder, HttpDone, HttpFailed,
       AddTorrent, Progressed, AddFails, RegisterHandle, AddCleanup, RegisterDownload,
       DiscardDownload, FetchOver, CompleteBegin, CompleteEnd, Step, Rest, object,
       session, tables
<1>2. CASE Main
  BY <1>2, WorkMoves DEF TorrentInv, TypeOK, ThreadTypes, Threads, Nobody, OwnerInv,
       HoldInv, RemoverInv, AddInv, Holding, Deleting, Main, RegisterCallback,
       CancelTest, CancelSet, CancelWork, CancelEnd, GetInfo, WaitResume, Step, Rest,
       object, session, tables
<1>3. CASE Worker
  BY <1>3, WorkMoves DEF TorrentInv, TypeOK, ThreadTypes, Threads, Nobody, OwnerInv,
       HoldInv, RemoverInv, AddInv, Holding, Deleting, Worker, TakeWork,
       DeferredCleanup, FetchReap, DoCancel, UnregisterHandle, CancelDone,
       CompleteBegin, CompleteEnd, Step, Rest, object, session, tables
<1>4. CASE Manager
  <2>1. CASE Manager /\ ~DownloadDoneThrows
    BY <2>1, WorkMoves DEF TorrentInv, TypeOK, ThreadTypes, Threads, Nobody, OwnerInv,
         HoldInv, RemoverInv, AddInv, Holding, Deleting, Manager, Alerts, FinishedAlert,
         NextAlert, DownloadDone, DoneSignalled, ResumeAlert, ResumeWritten, UpdateBegin,
         UpdateEnd, Progressed, CompleteBegin, CompleteEnd, Step, Rest, object, session, tables
  <2>2. CASE DownloadDoneThrows
    BY <2>2 DEF TorrentInv, OwnerInv, HoldInv, Threads, DownloadDoneThrows, NextAlert,
         object, tables, Holding, Deleting
  <2> QED
    BY <1>4, <2>1, <2>2
<1>5. CASE TorrentFinishes \/ ClientCancels \/ ListDownloads \/ ShutDown
  BY <1>5, WorkMoves DEF TorrentInv, TypeOK, ThreadTypes, Threads, Nobody, OwnerInv,
       HoldInv, RemoverInv, AddInv, Holding, Deleting, TorrentFinishes, ClientCancels,
       ListDownloads, ShutDown, Step, Rest, object, session, tables
<1>6. CASE \E x \in {"main", "worker"} : RemoveDownload(x)
  BY <1>6, WorkMoves DEF TorrentInv, TypeOK, ThreadTypes, Threads, Nobody, OwnerInv,
       HoldInv, RemoverInv, AddInv, Holding, Deleting, RemoveDownload, RemoveBegin,
       RemoveReap, Destroy, UnregisterHandle, DestroyEnd, Unlock, Step, Rest, object,
       session, tables
<1>7. CASE UNCHANGED vars
  BY <1>7, WorkMoves DEF TorrentInv, TypeOK, ThreadTypes, Threads, Nobody, OwnerInv,
       HoldInv, RemoverInv, AddInv, Holding, Deleting, vars, Step, Rest, object,
       session, tables
<1> QED
  BY <1>1, <1>2, <1>3, <1>4, <1>5, <1>6, <1>7 DEF Next

(* Only a registered callback gives the removal to the worker.               *)
LEMMA RemoverInvKeeps ==
  ASSUME TorrentInv, OwnerInv, [Next]_vars
  PROVE  RemoverInv'
<1>1. CASE Adder
  <2>1. Queued(queue') => registered'
    <3>1. /\ \/ queue' = queue \/ queue' = Append(queue, "cleanup")
             \/ registered /\ queue' = Append(queue, "remove")
          /\ registered' = registered
      BY <1>1 DEF OwnerInv, RemoverInv, Adder, HttpDone, HttpFailed, AddTorrent,
           Progressed, AddFails, RegisterHandle, AddCleanup, RegisterDownload,
           DiscardDownload, FetchOver, CompleteBegin, CompleteEnd, Step, Rest, object
    <3> QED
      BY <3>1, WorkMoves DEF TorrentInv, OwnerInv, RemoverInv
  <2>2. registered' => asked' = "cancel" /\ at'["main"] \notin {"register", "remove"} \cup Deleting
    BY <1>1, WorkMoves DEF TorrentInv, TypeOK, ThreadTypes, Threads, Nobody, OwnerInv,
         RemoverInv, AddInv, HoldInv, Deleting, Adder, HttpDone, HttpFailed,
         AddTorrent, Progressed, AddFails, RegisterHandle, AddCleanup, RegisterDownload,
         DiscardDownload, FetchOver, CompleteBegin, CompleteEnd, Step, Rest, object,
         session, tables
  <2>3. at'["worker"] \in Deleting \cup {"remove"} => registered'
    BY <1>1, WorkMoves DEF TorrentInv, TypeOK, ThreadTypes, Threads, Nobody, OwnerInv,
         RemoverInv, AddInv, HoldInv, Deleting, Adder, HttpDone, HttpFailed,
         AddTorrent, Progressed, AddFails, RegisterHandle, AddCleanup, RegisterDownload,
         DiscardDownload, FetchOver, CompleteBegin, CompleteEnd, Step, Rest, object,
         session, tables
  <2>4. asked' = "none" => at'["main"] \in {"idle", "seeding", "downloading", "noinfo", "dead"}
    BY <1>1, WorkMoves DEF TorrentInv, TypeOK, ThreadTypes, Threads, Nobody, OwnerInv,
         RemoverInv, AddInv, HoldInv, Deleting, Adder, HttpDone, HttpFailed,
         AddTorrent, Progressed, AddFails, RegisterHandle, AddCleanup, RegisterDownload,
         DiscardDownload, FetchOver, CompleteBegin, CompleteEnd, Step, Rest, object,
         session, tables
  <2>5. at'["main"] \in {"register", "remove"} => asked' = "cancel"
    BY <1>1, WorkMoves DEF TorrentInv, TypeOK, ThreadTypes, Threads, Nobody, OwnerInv,
         RemoverInv, AddInv, HoldInv, Deleting, Adder, HttpDone, HttpFailed,
         AddTorrent, Progressed, AddFails, RegisterHandle, AddCleanup, RegisterDownload,
         DiscardDownload, FetchOver, CompleteBegin, CompleteEnd, Step, Rest, object,
         session, tables
  <2> QED
    BY <2>1, <2>2, <2>3, <2>4, <2>5 DEF RemoverInv
<1>2. CASE Main
  <2>1. Queued(queue') => registered'
    <3>1. /\ queue' = queue \/ queue' = Append(queue, "cancel")
          /\ Queued(queue) => registered'
      BY <1>2 DEF OwnerInv, RemoverInv, Main, RegisterCallback, CancelTest, CancelSet,
           CancelWork, CancelEnd, GetInfo, WaitResume, Step, Rest
    <3> QED
      BY <3>1, WorkMoves DEF TorrentInv, OwnerInv, RemoverInv
  <2>2. registered' => asked' = "cancel" /\ at'["main"] \notin {"register", "remove"} \cup Deleting
    BY <1>2, WorkMoves DEF TorrentInv, TypeOK, ThreadTypes, Threads, Nobody, OwnerInv,
         RemoverInv, AddInv, HoldInv, Deleting, Main, RegisterCallback, CancelTest,
         CancelSet, CancelWork, CancelEnd, GetInfo, WaitResume, Step, Rest, object,
         session, tables
  <2>3. at'["worker"] \in Deleting \cup {"remove"} => registered'
    BY <1>2, WorkMoves DEF TorrentInv, TypeOK, ThreadTypes, Threads, Nobody, OwnerInv,
         RemoverInv, AddInv, HoldInv, Deleting, Main, RegisterCallback, CancelTest,
         CancelSet, CancelWork, CancelEnd, GetInfo, WaitResume, Step, Rest, object,
         session, tables
  <2>4. asked' = "none" => at'["main"] \in {"idle", "seeding", "downloading", "noinfo", "dead"}
    BY <1>2, WorkMoves DEF TorrentInv, TypeOK, ThreadTypes, Threads, Nobody, OwnerInv,
         RemoverInv, AddInv, HoldInv, Deleting, Main, RegisterCallback, CancelTest,
         CancelSet, CancelWork, CancelEnd, GetInfo, WaitResume, Step, Rest, object,
         session, tables
  <2>5. at'["main"] \in {"register", "remove"} => asked' = "cancel"
    BY <1>2, WorkMoves DEF TorrentInv, TypeOK, ThreadTypes, Threads, Nobody, OwnerInv,
         RemoverInv, AddInv, HoldInv, Deleting, Main, RegisterCallback, CancelTest,
         CancelSet, CancelWork, CancelEnd, GetInfo, WaitResume, Step, Rest, object,
         session, tables
  <2> QED
    BY <2>1, <2>2, <2>3, <2>4, <2>5 DEF RemoverInv
<1>3. CASE Worker
  <2>1. Queued(queue') => registered'
    BY <1>3, WorkMoves DEF TorrentInv, TypeOK, ThreadTypes, Threads, Nobody, OwnerInv,
         RemoverInv, AddInv, HoldInv, Deleting, Worker, TakeWork, DeferredCleanup,
         FetchReap, DoCancel, UnregisterHandle, CancelDone, CompleteBegin, CompleteEnd,
         Step, Rest, object, session, tables
  <2>2. registered' => asked' = "cancel" /\ at'["main"] \notin {"register", "remove"} \cup Deleting
    BY <1>3, WorkMoves DEF TorrentInv, TypeOK, ThreadTypes, Threads, Nobody, OwnerInv,
         RemoverInv, AddInv, HoldInv, Deleting, Worker, TakeWork, DeferredCleanup,
         FetchReap, DoCancel, UnregisterHandle, CancelDone, CompleteBegin, CompleteEnd,
         Step, Rest, object, session, tables
  <2>3. at'["worker"] \in Deleting \cup {"remove"} => registered'
    BY <1>3, WorkMoves DEF TorrentInv, TypeOK, ThreadTypes, Threads, Nobody, OwnerInv,
         RemoverInv, AddInv, HoldInv, Deleting, Worker, TakeWork, DeferredCleanup,
         FetchReap, DoCancel, UnregisterHandle, CancelDone, CompleteBegin, CompleteEnd,
         Step, Rest, object, session, tables
  <2>4. asked' = "none" => at'["main"] \in {"idle", "seeding", "downloading", "noinfo", "dead"}
    BY <1>3, WorkMoves DEF TorrentInv, TypeOK, ThreadTypes, Threads, Nobody, OwnerInv,
         RemoverInv, AddInv, HoldInv, Deleting, Worker, TakeWork, DeferredCleanup,
         FetchReap, DoCancel, UnregisterHandle, CancelDone, CompleteBegin, CompleteEnd,
         Step, Rest, object, session, tables
  <2>5. at'["main"] \in {"register", "remove"} => asked' = "cancel"
    BY <1>3, WorkMoves DEF TorrentInv, TypeOK, ThreadTypes, Threads, Nobody, OwnerInv,
         RemoverInv, AddInv, HoldInv, Deleting, Worker, TakeWork, DeferredCleanup,
         FetchReap, DoCancel, UnregisterHandle, CancelDone, CompleteBegin, CompleteEnd,
         Step, Rest, object, session, tables
  <2> QED
    BY <2>1, <2>2, <2>3, <2>4, <2>5 DEF RemoverInv
<1>4. CASE Manager
  <2>1. CASE Manager /\ ~DownloadDoneThrows
    BY <2>1, WorkMoves DEF TorrentInv, TypeOK, ThreadTypes, Threads, Nobody, OwnerInv,
         RemoverInv, AddInv, HoldInv, Deleting, Manager, Alerts, FinishedAlert,
         NextAlert, DownloadDone, DoneSignalled, ResumeAlert, ResumeWritten, UpdateBegin,
         UpdateEnd, Progressed, CompleteBegin, CompleteEnd, Step, Rest, object, session, tables
  <2>2. CASE DownloadDoneThrows
    BY <2>2 DEF TorrentInv, OwnerInv, RemoverInv, Threads, DownloadDoneThrows,
         NextAlert, object, tables, Deleting
  <2> QED
    BY <1>4, <2>1, <2>2
<1>5. CASE TorrentFinishes \/ ClientCancels \/ ListDownloads \/ ShutDown
  BY <1>5, WorkMoves DEF TorrentInv, TypeOK, ThreadTypes, Threads, Nobody, OwnerInv,
       RemoverInv, AddInv, HoldInv, Deleting, TorrentFinishes, ClientCancels,
       ListDownloads, ShutDown, Step, Rest, object, session, tables
<1>6. CASE \E x \in {"main", "worker"} : RemoveDownload(x)
  <2>1. Queued(queue') => registered'
    <3>1. /\ queue' = queue \/ queue' = Append(queue, "cancel")
          /\ registered' = registered
      BY <1>6 DEF OwnerInv, RemoverInv, RemoveDownload, RemoveBegin, RemoveReap,
           Destroy, UnregisterHandle, DestroyEnd, Unlock, Step, Rest
    <3> QED
      BY <3>1, WorkMoves DEF TorrentInv, OwnerInv, RemoverInv
  <2>2. registered' => asked' = "cancel" /\ at'["main"] \notin {"register", "remove"} \cup Deleting
    BY <1>6, WorkMoves DEF TorrentInv, TypeOK, ThreadTypes, Threads, Nobody, OwnerInv,
         RemoverInv, AddInv, HoldInv, Deleting, RemoveDownload, RemoveBegin,
         RemoveReap, Destroy, UnregisterHandle, DestroyEnd, Unlock, Step, Rest, object,
         session, tables
  <2>3. at'["worker"] \in Deleting \cup {"remove"} => registered'
    BY <1>6, WorkMoves DEF TorrentInv, TypeOK, ThreadTypes, Threads, Nobody, OwnerInv,
         RemoverInv, AddInv, HoldInv, Deleting, RemoveDownload, RemoveBegin,
         RemoveReap, Destroy, UnregisterHandle, DestroyEnd, Unlock, Step, Rest, object,
         session, tables
  <2>4. asked' = "none" => at'["main"] \in {"idle", "seeding", "downloading", "noinfo", "dead"}
    BY <1>6, WorkMoves DEF TorrentInv, TypeOK, ThreadTypes, Threads, Nobody, OwnerInv,
         RemoverInv, AddInv, HoldInv, Deleting, RemoveDownload, RemoveBegin,
         RemoveReap, Destroy, UnregisterHandle, DestroyEnd, Unlock, Step, Rest, object,
         session, tables
  <2>5. at'["main"] \in {"register", "remove"} => asked' = "cancel"
    BY <1>6, WorkMoves DEF TorrentInv, TypeOK, ThreadTypes, Threads, Nobody, OwnerInv,
         RemoverInv, AddInv, HoldInv, Deleting, RemoveDownload, RemoveBegin,
         RemoveReap, Destroy, UnregisterHandle, DestroyEnd, Unlock, Step, Rest, object,
         session, tables
  <2> QED
    BY <2>1, <2>2, <2>3, <2>4, <2>5 DEF RemoverInv
<1>7. CASE UNCHANGED vars
  BY <1>7, WorkMoves DEF TorrentInv, TypeOK, ThreadTypes, Threads, Nobody, OwnerInv,
       RemoverInv, AddInv, HoldInv, Deleting, vars, Step, Rest, object, session, tables
<1> QED
  BY <1>1, <1>2, <1>3, <1>4, <1>5, <1>6, <1>7 DEF Next

(* The alert is handled once, and the main thread waits for it.              *)
LEMMA ResumeInvKeeps ==
  ASSUME TorrentInv, OwnerInv, [Next]_vars
  PROVE  ResumeInv'
<1>1. CASE Adder
  BY <1>1, AlertsMove DEF TorrentInv, TypeOK, ThreadTypes, Threads, Nobody, OwnerInv,
       ResumeInv, RemoverInv, HoldInv, Deleting, Holding, Adder, HttpDone, HttpFailed,
       AddTorrent, Progressed, AddFails, RegisterHandle, AddCleanup, RegisterDownload,
       DiscardDownload, FetchOver, CompleteBegin, CompleteEnd, Step, Rest, object,
       session, tables
<1>2. CASE Main
  BY <1>2, AlertsMove DEF TorrentInv, TypeOK, ThreadTypes, Threads, Nobody, OwnerInv,
       ResumeInv, RemoverInv, HoldInv, Deleting, Holding, Main, RegisterCallback,
       CancelTest, CancelSet, CancelWork, CancelEnd, GetInfo, WaitResume, Step, Rest,
       object, session, tables
<1>3. CASE Worker
  BY <1>3, AlertsMove DEF TorrentInv, TypeOK, ThreadTypes, Threads, Nobody, OwnerInv,
       ResumeInv, RemoverInv, HoldInv, Deleting, Holding, Worker, TakeWork,
       DeferredCleanup, FetchReap, DoCancel, UnregisterHandle, CancelDone,
       CompleteBegin, CompleteEnd, Step, Rest, object, session, tables
<1>4. CASE Manager
  <2>1. CASE FinishedAlert
    BY <1>4, <2>1, AlertsMove DEF TorrentInv, TypeOK, ThreadTypes, Threads, OwnerInv,
         ResumeInv, FinishedAlert, DownloadDoneThrows, NextAlert, Step, object
  <2>2. CASE ResumeAlert
    BY <1>4, <2>2, AlertsMove DEF TorrentInv, TypeOK, ThreadTypes, Threads, OwnerInv,
         RoleInv, ResumeInv, ResumeAlert, NextAlert, Step, object
  <2>3. CASE ResumeWritten
    BY <1>4, <2>3 DEF TorrentInv, TypeOK, ThreadTypes, Threads, OwnerInv, ResumeInv,
         ResumeWritten, Rest, session
  <2>4. CASE DownloadDone \/ DoneSignalled \/ UpdateBegin \/ UpdateEnd
    BY <1>4, <2>4 DEF TorrentInv, TypeOK, ThreadTypes, Threads, OwnerInv, ResumeInv,
         DownloadDone, DoneSignalled, UpdateBegin, UpdateEnd, Progressed, Step, Rest, session
  <2>5. CASE CompleteBegin("manager", "done2", "done3", "signal") \/ CompleteEnd("manager", "done3", "signal")
    BY <1>4, <2>5 DEF TorrentInv, TypeOK, ThreadTypes, Threads, OwnerInv, ResumeInv,
         CompleteBegin, CompleteEnd, Step, Rest, session
  <2>6. CASE DownloadDoneThrows
    BY <2>6, AlertsMove DEF TorrentInv, TypeOK, ThreadTypes, Threads, OwnerInv,
         ResumeInv, DownloadDoneThrows, NextAlert
  <2> QED
    BY <1>4, <2>1, <2>2, <2>3, <2>4, <2>5, <2>6 DEF Manager, Alerts
<1>5. CASE TorrentFinishes \/ ClientCancels \/ ListDownloads \/ ShutDown
  <2>1. CASE TorrentFinishes
    BY <2>1, AlertsMove DEF TorrentInv, TypeOK, ThreadTypes, Threads, OwnerInv,
         ResumeInv, TorrentFinishes
  <2>2. CASE ClientCancels \/ ListDownloads
    BY <2>2 DEF TorrentInv, TypeOK, ThreadTypes, Threads, OwnerInv, ResumeInv,
         ClientCancels, ListDownloads, Step, Rest, session
  <2>3. CASE ShutDown
    BY <2>3, AlertsMove DEF TorrentInv, TypeOK, ThreadTypes, Threads, OwnerInv,
         ResumeInv, ShutDown, Step
  <2> QED
    BY <1>5, <2>1, <2>2, <2>3
<1>6. CASE \E x \in {"main", "worker"} : RemoveDownload(x)
  BY <1>6, AlertsMove DEF TorrentInv, TypeOK, ThreadTypes, Threads, Nobody, OwnerInv,
       ResumeInv, RemoverInv, HoldInv, Deleting, Holding, RemoveDownload, RemoveBegin,
       RemoveReap, Destroy, UnregisterHandle, DestroyEnd, Unlock, Step, Rest, object,
       session, tables
<1>7. CASE UNCHANGED vars
  BY <1>7, AlertsMove DEF TorrentInv, TypeOK, ThreadTypes, Threads, Nobody, OwnerInv,
       ResumeInv, RemoverInv, HoldInv, Deleting, Holding, vars, Step, Rest, object,
       session, tables
<1> QED
  BY <1>1, <1>2, <1>3, <1>4, <1>5, <1>6, <1>7 DEF Next

(* Once a torrent is deleted, neither the main thread nor, if it came from a *)
(* file, the watcher or the manager's thread goes on to use it: what uses it *)
(* after that is deferred work, and the thread that fetched it and the alerts*)
(* of its own (torrent_fetch).                                               *)
OnlyWorkUsesFreed ==
    \A x \in Threads : Uses(x) /\ freed => x = "worker" \/ (source = "http" /\ x # "main")

(* OnlyWorkUsesFreed, whatever clients, alerts and the fetch do.              *)
THEOREM DeletedIsLeftAlone == Spec => []OnlyWorkUsesFreed
<1>1. Init => OwnerInv
  BY DEF Init, OwnerInv, RoleInv, HoldInv, RemoverInv, Queued, ResumeInv, Holding,
       Deleting, Threads
<1>2. TorrentInv /\ OwnerInv /\ [Next]_vars => OwnerInv'
  BY RoleInvKeeps, HoldInvKeeps, RemoverInvKeeps, ResumeInvKeeps DEF OwnerInv
<1>3. TorrentInv /\ OwnerInv => OnlyWorkUsesFreed
  <2> SUFFICES ASSUME TorrentInv, OwnerInv, NEW x \in Threads, Uses(x), freed
               PROVE  x = "worker" \/ (source = "http" /\ x # "main")
    BY DEF OnlyWorkUsesFreed
  <2>1. CASE x = "main"
    BY <2>1 DEF OwnerInv, RoleInv, HoldInv, Uses
  <2>2. CASE x = "manager" /\ source = "file"
    BY <2>2 DEF TorrentInv, ReapInv, OwnerInv, RoleInv, HoldInv, ResumeInv, Holding,
         Uses
  <2>3. CASE x = "adder" /\ source = "file"
    BY <2>3 DEF TorrentInv, AddInv, Uses
  <2> QED
    BY <2>1, <2>2, <2>3, TorrentAssumption DEF TorrentInv, TypeOK, StateTypes, Threads
<1> QED
  BY <1>1, <1>2, <1>3, TorrentInvariant, PTL DEF Spec

===============================================================================
