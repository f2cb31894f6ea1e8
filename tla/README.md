# File transfer daemon: specifications, model checking and proofs

`filetransferdaemon` (`src/bubba-ftd`) fetches files for the users of a small
server: a web interface sends it requests over a Unix socket, it downloads over
HTTP, FTP or BitTorrent or takes over an upload from a CGI, and it reports what
it is doing. This directory holds TLA+ modules for the parts of it where
several threads meet, the TLC runs that check them, and TLAPS proofs.

## 1. The system

### Threads

| thread | code | what it does |
|---|---|---|
| main | `filetransferdaemon.cpp` `main` | accepts one client at a time, serves one request, shuts down |
| one per HTTP/FTP transfer | `CurlDownloader::Run` | `curl_easy_perform`, judge, signal, `Complete` |
| one per upload | `SocketFdDownloader::Run` | handshake with the CGI, parse the form, move the files |
| deferred worker | `AsyncWorker::Run` | calls deferred functions: removals, torrent clean-up |
| torrent manager | `TorrentDownloadManager::Run` | polls libtorrent's alerts |
| directory watcher | `DirWatcher::Run` | starts torrents that appear in watched directories |
| signal handlers | `EConfig::SigHandler`, `sighandler` | reload a configuration, ask for shutdown |

### Components, their state and operations

* **Downloader** (`Downloader.cpp`): one transfer. State: `status` (`dlstatus`), `cancel`,
  `reapstatus` (`callbackstate`), the completion callbacks, a condition. Operations: start,
  cancel, stop, `Complete`, `RegisterCompletionCallback`, `WaitForCompletion`, `ReapOK`.
  Correct when a callback that was accepted is called once before the object may be deleted,
  and nobody waits for ever.
* **AsyncWorker / DeferredWork** (libeutils): a list under a mutex, a condition, one worker
  thread. Operations: add at either end, get, flush, destroy. Correct when every unit is
  processed once, in order, and none is stuck.
* **FtdApp** (`FtdApp.cpp`): the registry. State: `transfers`, per user, under
  `transfermutex`; the list of download managers. Operations: add, cancel, remove (deferred
  or at once), list, throttles, shut down. Correct when no thread uses a deleted download,
  none is orphaned or removed unasked, duplicates are refused, removals happen and shutdown
  ends.
* **CurlDownloader** (`CurlDownloader.cpp`): a Downloader over libcurl. State: the easy
  handle, `dest` and `mydest`, headers. Correct when status, file and signal agree in the
  end.
* **SocketFdDownloader and upload.cgi** (`SocketFdDownloader.cpp`, `upload.cpp`): an upload
  whose request body the CGI hands over as a file descriptor, after a handshake on a socket
  of the CGI's own. State: status, cancel, the parser's, temporary files, files at their
  destination. Correct when both sides end, stay in step, and a failed or cancelled upload
  leaves nothing behind and delivers nothing partial.
* **ECGI** (libeutils): the multipart parser over a buffer that is refilled. Correct when
  each part is what was sent, whatever the sizes of the reads.
* **TorrentDownloader and its manager** (`TorrentDownloader.cpp`, on top of
  libtorrent): a Downloader on a libtorrent handle, with an inner HTTP fetch of the .torrent
  file. State: the handle, `handle_map`, `downloaders`, `torrentfilename`, resume data.
  Correct when it is removed once, no alert or deferred clean-up uses it later, and what is
  in the session is found again after a restart.
* **DirWatcher** (`DirWatcher.cpp`): inotify watches, torrents to start, failed ones.
  Correct when every valid file put into a watched directory is started, once, and no file
  of a user's is deleted but by his own request.
* **Request loop** (`filetransferdaemon.cpp`, `Commands.h`) and its clients
  (`ftdclient.cpp`, `ipc.php`): one request, at most one answer, per connection.
* **EConfig** (libeutils, `FtdConfig.cpp`): a configuration in memory, reloaded on a signal,
  written back under a file lock, shared by processes.
* **Url** (libeutils): splitting and percent-encoding.
* Sockets, strings, users, files, JSON, libsigc++, `MsgQueue.cpp`: wrappers, conversions,
  third-party or unused code.

### How they interact

A request on the socket makes the main thread call FtdApp. Adding asks each manager's
filter for a Downloader (the HTTP filter runs a whole header probe and waits for it),
lists it and starts its thread. Cancelling registers `FtdApp::Remove` as a completion
callback and sets `cancel`; when the transfer's thread completes, it calls `Remove`,
which only adds `DeferredRemove` to the deferred work, since a thread cannot delete
the object it runs in; the worker then takes `transfermutex`, waits for `ReapOK` and
deletes the object. If the registration is refused, because the transfer has already
completed, the canceller removes at once. A download with a removal policy does the
same from its own thread, through its `SignalDone` or `SignalFailed` (`dlDone`).

An upload's thread connects to the CGI that announced it, receives the descriptor of the
request's body, its boundary and its length, and runs ECGI on it; each callback of the
parser asks whether the upload has been cancelled. A torrent that comes from a URL owns a
CurlDownloader whose signals write the .torrent file and add it to the session; one that
comes from a file is made by DirWatcher. libtorrent answers through alerts that the
manager polls and maps to objects through `handle_map`.

### What is hard about it

Tests that are followed by a wait in another step (`WaitForCompletion`,
`AsyncWorker::Run`); two mutexes around one state (`cbmutex`, `reapmutex`); polling
with `transfermutex` held; objects that several threads know by pointer and one
deletes; flags read without locks while libcurl runs; the order of signals, files and
status at the end of a transfer; two processes that each may stop in the middle of a
handshake; a boundary that lies across two reads; one `status` written by four threads;
files that must tell the next process what this one was doing. `PROJECT.json` lists each
hazard with its line.

## 2. Modules

| module | what it is | code |
|---|---|---|
| `OneShot` | abstract: an event that happens once and tells its subscribers | what `Downloader.h` promises |
| `Completion` | the completion protocol of one Downloader, any number of threads | `Downloader.cpp` |
| `CompletionProofs` | its theorems | |
| `WorkQueue` | abstract: a work queue with one consumer | what `AsyncWorker.h` promises |
| `AsyncWorker` | list, lock, condition, worker and destructor | `AsyncWorker.cpp`, `DeferredWork.cpp`, `Condition.cpp` |
| `AsyncWorkerProofs` | its theorems | |
| `DownloadList` | abstract: the list of downloads the clients see | `FtdApp`'s commands |
| `FtdApp` | the registry with the main, transfer and deferred threads; composes the above | `FtdApp.cpp`, `CurlDownloader::Run` |
| `FtdAppProofs` | its theorems | |
| `CurlDownloader` | one transfer: thread, libcurl callbacks, file, signals | `CurlDownloader.cpp` |
| `CurlDownloaderProofs` | its theorems | |
| `Ecgi` | the multipart parser and its buffer | `ECGI.cpp` |
| `EcgiProofs` | its theorem | |
| `SocketFdUpload` | CGI, daemon's thread, cancellers; extends `Ecgi` | `SocketFdDownloader.cpp`, `upload.cpp` |
| `SocketFdUploadProofs` | its theorems | |
| `TorrentDownloader` | one torrent between four threads | `TorrentDownloader.cpp`, `FtdApp.cpp`, `DirWatcher.cpp` |
| `TorrentDownloaderProofs` | its theorems | |
| `TorrentFiles` | a directory of .torrent files over crashes and restarts | `DirWatcher.cpp`, `TorrentDownloader.cpp`, `filetransferdaemon.cpp` |
| `TorrentFilesProofs` | its theorems | |
| `MC...` | values of the constants for TLC | |

**Completion.** One action per critical section or blocking call. `cbmutex` is a
variable, since it is held across the callbacks; `reapmutex` and the condition's lock
guard single steps. A payload is the thread that registered it, since the daemon
registers a single function. `Start` and `Abandon` are the owner's choice of starting a
new object or giving it up, the second disjunct of `ReapOK`.

**AsyncWorker.** A unit is added by a thread of its own in two steps, push and notify;
the worker tests `Size()` and waits in two steps. Spurious wakeups may happen and are
never relied on. `Cancel` changes nothing: SIGALRM runs a handler on the worker's thread and
`pthread_cond_wait` resumes. After `~DeferredWork`, the worker calls the base class's
`ProcessElem`, which does none of the work.

**FtdApp.** An object is not yet created, live or freed, and each thread has a program
counter through `AddDownload`, `ListDownloads`, `GetDownloadByUUID`, `CancelDownload`,
`RemoveDownload`, `ShutDown` or `Run`. A loop on `ReapOK` is a step guarded by `ReapOK`; a
listing sends one answer per step with the lock held. The completion protocol is taken at
the level of `OneShot`: registering, and calling all callbacks, are one step each, which is
what `ImplementsOneShot` licenses. The deferred work is a sequence, which is what
`ImplementsWorkQueue` licenses for safety; that the worker takes what is queued is an
assumption here (see the run `async_worker_lost`). `AddFind` is the header probe of
`CurlDownloadManager::Filter`, on the main thread without the lock: it may take any time, and
no fairness makes it end, because its `WaitForCompletion` may hang (`completion_wait`, or a
server that is silent). `MainReturns` is about everything else. `Uses` says which objects the
next step of each thread dereferences. `Plans` is the bound on what clients ask for: the
policies of their requests, how often each is cancelled, and whether the daemon is told to
stop. One user is modelled: the lists of several users are separate but for the lock and the
URL test of `AddDownload`. Only clients add here: DirWatcher's thread, which calls
`RegisterDownload` without the tests of `AddDownload` (`DirWatcher.cpp:194`), is in
`TorrentDownloader` and `TorrentFiles`.

**CurlDownloader.** Between two callbacks libcurl and the server may do anything. A
write stays in the stream's buffer, writes it out, or fails; the file may fail to open, which
nobody looks at. `CbProgress` reads `cancel` twice, and a cancel can come between. `mode` says
where the content goes, `size` how much there is of it, nothing included.

**Ecgi.** A form is the number, kinds and sizes of its parts and the offset of each
boundary; the buffer is two offsets into it, the first byte not yet consumed and the
first not yet read. An action is one call of `parse`'s states: reading a part's headers,
refilling, searching the boundary, handing over a piece. A read gives any number of bytes
from one on. The code misreads some parts: one whose header the end of the buffer cuts
(`HeaderCut`, if it does not throw), a field that was read in pieces and the part after it
(`EndOfField`), and a file when a short read makes `max_read` -1 (`TakeLess`; less than that
it throws). The model goes on as the code does, from the offset at which the code goes on, and
the history variable `spoilt` records the parts that were hit: those, and those whose boundary
was passed over unseen. Of all others everything is claimed. Outside the model: what the code
finds behind the end of what it read (a boundary left from an earlier filling), the zeros it
writes over its own buffer (`readString`, `ECGI.cpp:404`), `UrlDecode`, two parts of one
name, data that hold a boundary, URL-encoded forms, cookies.

**SocketFdUpload.** The CGI listens, answers the daemon, hands over the descriptor, sends
boundary and length and waits for the verdict; it may be killed at any moment, and what is sent
to it then is lost. A channel is a sequence of messages, and a receive takes all that has come,
as on a stream. When boundary or length is not what was sent, `parse` becomes "astray", from which
`Run` may go on as after any parse; the properties that speak of the form's parts claim nothing
then. `CancelStatus` and `CancelFlag` are the two halves of `CancelDownload`,
which takes no lock. Each file is renamed or copied and its temporary file removed one by one; each
of these may fail, and a copy that fails may leave a piece (`torn`). An exception that `Run` does
not catch (a directory that is not there, a negative length) ends the daemon (`Crash`).

**TorrentDownloader.** The thread that adds it, the main thread (cancels, listings,
shutdown), the deferred worker and the alert thread, with `dlmutex` and `transfermutex` as
locks, and the session's alerts in order. Listing is `GetInfo`, which writes `status`. When
`handle.name()` throws, in the alert thread, nothing catches it and the daemon ends
(`DownloadDoneThrows`).

**TorrentFiles.** What a restart finds is `disk` and `content`; `Crash` resets everything
else. An object is named by its file and by who made it, a client's fetch or the watcher. A
fetch has what it received in memory (`stream`) and adds the torrent from there, whatever became
of the file: `WriteTorrent` may make none, or not write it whole, and `torn` records those. The
watcher scans first and reads events later; the scan may find the file of a fetch under way, and
`raced` records that. Assumed: the directory exists, users put files but do not rewrite them, so
that the watcher makes one object of a file at a time, cancels come after a fetch is over
(`TorrentDownloader` has the earlier ones), and resume data goes with its file.

Definitions whose comment says what the code does *not* do (a missing lock, a
callback left out) are faulty variants of the definition after them. A property is worth
checking when it fails with one of them in place; `PROJECT.json` pairs them.

## 3. Runs

| run | instance | shows |
|---|---|---|
| `completion` | 2 completers, 3 registrars, 1 waiter; 25 988 states | `ReapAfterExactlyOneCall`, `QuiescentWhenReapable`, refinement of `OneShot`, `AcceptedIsCalled`, `SleeperReturns` |
| `completion_wait` | the same | violation: `WaitForCompletion` can miss the only broadcast |
| `async_worker` | 3 units, one urgent; 15 058 states | `OnePlace`, refinement of `WorkQueue`, `NextNotifyRecovers`, `AwakeWorkerDrains` |
| `async_worker_lost` | the same, with a worker that nobody destroys | violation: an added unit can wait for ever |
| `ftdapp` | 3 add requests (two share a uuid, two a URL, one has no uuid), listings, and every plan with at most one remover per download; 61 194 states | `NoUseAfterFree`, `NoOrphans`, `NoDuplicateUrl`, refinement of `DownloadList`, `AskedIsRemoved`, `MainReturns` |
| `ftdapp_twice` | 2 requests, one download cancelled twice | violation: the second removal uses a freed object |
| `ftdapp_stop_auto` | 2 requests, one with a removal policy, shutdown | violation: deadlock of `ShutDown` and `dlDone` |
| `curl` | all three modes, no chunk, 1 or 3; 1 176 states | `DownloadedIsWhole`, `CancelInTimeWins`, `NoLeftovers`, `OneTrueSignal`, `TransferCompletes` |
| `upload` | five forms of one or two parts, one without a name, one canceller, 2 attempts to connect; 369 131 states | `PartsAreExact`, `DeliveredIsExact`, `NoTempsLeft`, `SignalFitsFiles`, `HandshakeIsExact`, `UploadCompletes`, `CgiIsAnswered` |
| `torrent` | one torrent, from a URL or a file, one removal; 23 968 states | `ManagerUsesLive`, `CancelRemoves`, `WholeCompletes` |
| `torrent_fetch` | a torrent from a URL | violation: it failed and completed, a cancel removes it, and its fetch's thread or the queued clean-up still uses it |
| `torrent_files` | a file of the daemon's, a user's, and a hidden one of a user without a home; two torrents; 30 735 states | `SurvivesCrash`, `UsersFilesStay`, `OwnFilesStay`, `RestartResumes`, `NewFileStarts`, `CancelForgets` |

Type correctness is checked in the runs of `FtdApp`, `TorrentDownloader` and `TorrentFiles`,
and proved for every module with theorems.

### Bounds, and why they are enough

Two completers are what it takes for one to lose, three registrars for acceptances
before, during and after `Complete` in one behaviour and a list of more than one
element. Three units give the worker one in its hands, one queued and one being added
at the front. Three add requests reach every refusal of `AddDownload` and a list with a
download before and one after another. Three chunks are one in the buffer, one on disk and one
refused; none is a content that needs no write. The upload's lengths are shrunk alike: a boundary
of 2, headers of 2, a margin of 6 and a buffer of 12 put a boundary wholly inside, across the end
of and beyond one filling, and headers before and across it, for parts that fit, just do not, and
need the buffer twice; reads of any size, from one byte on, give a `max_read` of more, of 0, of -1
and of less. The margin is larger than a boundary by the CR LF before it and by two bytes more, as
128 is in the code for the boundaries browsers send. One canceller: a second one repeats the
first's steps. Two attempts to connect are one that is repeated and one that is the last (11 in
the code). Three files are one of each kind the code treats differently, two torrents a file that
is a duplicate and one that is not.

`ftdapp` takes all plans with one remover per download (`OneRemoverEach`: a client *or*
the policy, once), because the code is only correct then: `ftdapp_twice` takes that
restriction away. In the same way a plan with a shutdown has no removals: a shutdown after a cancel deletes a download
whose removal is still queued (`FtdApp.cpp:664`), and with a removal policy it
deadlocks (`ftdapp_stop_auto`).

CHECK_DEADLOCK is off where the modelled life is finite: all requests
served, the object deleted, the upload over, the daemon stopped.

### Fairness

Weak fairness of each thread: kernel threads that can run do. No fairness of the
environment: no client has to send anything, nobody starts a download, puts a file or
restarts the daemon, no spurious wakeup happens, a crash never has to come. What is more, or
less, than that:

* `FtdApp`: none for the header probe of `AddFind`, which may never end; the rest of the main
  thread goes on.
* `FtdApp`, `TorrentDownloader`: a thread that waits for a mutex which others take and
  release again and again gets it in the end (strong fairness). Clients may list for ever, and a weakly fair
  waiter would be disabled whenever a listing holds the lock.
* `CurlDownloader`, `ServedSpec`: libcurl serves the socket between two progress callbacks,
  and the server answers or hangs up (strong fairness).

In `FtdApp` a transfer is assumed to end; `CurlDownloader` is where that is looked at.
In `SocketFdUpload` the CGI's program and the daemon's thread go on while they live, and a
receive from a peer that is gone returns with nothing.

### What the violations mean

Each is a disagreement between a comment of the code and what the code does, quoted in
`PROJECT.json`. Also seen while modelling, in the model as in the code unless noted, without a
run:

* FtdApp: `policy && DLP_AUTOREMOVE` (`FtdApp.cpp:220`) is true of `DLP_HIDE` too. The URL as
  sent is compared with normalised ones (`FtdApp.cpp:185`), so that a URL that `SetUrl` changes
  is listed twice when it is sent twice; `RemoveDownload` of the second then finds the first
  (`FtdApp.cpp:396`): it erases that entry and deletes the other object, which stays listed.
* Curl: neither the opening of the file (`CurlDownloader.cpp:201`) nor the final flush (289) is
  looked at, so that a transfer may be reported DOWNLOADED with its last bytes missing, or, if the
  content is empty, without a file; a failed header probe unlinks "/" and its name
  (`CurlDownloader.cpp:330`); a cancel is not acted on while the server is silent
  (`CurlDownloader.cpp:65`), and the probe of a request to add then keeps the main thread (384).
  `~AsyncWorker` does not end a sleeping worker.
* Parser: the headers of a part that the end of the buffer cuts are taken as they are
  (`ECGI.cpp:353`); a field that is read in pieces gets the next part's name and costs it two bytes
  (241); a read shorter than the margin makes `max_read` negative (477), which ends in an exception,
  caught for a file and not for a field, or moves a file back by a byte.
* Uploads: the CGI takes the daemon's success for an error and its error for success
  (`upload.cpp:194`), and goes on as after a success when the reply to its request is no
  answer at all (`upload.cpp:156`); the CGI of an upload the daemon has given up stays in
  `Accept`; the descriptor is not closed when the parser throws
  (`SocketFdDownloader.cpp:153`); a destination that cannot be written to is still "done", and so
  is an upload of which a copy failed, with a piece of the file at the destination and its source
  removed (264-279); exceptions other than `runtime_error*`, of a directory that is not there or a
  string of negative length, end the daemon (155); files without a name leave their temporaries
  (`ECGI.cpp:252`, 277); a cancel that tests the status before the verdict and writes after it
  leaves CANCELINPROGRESS behind. The daemon's last two answers may be one message.
* Torrents: a listing may set DOWNLOADED before the finished alert is handled, and a
  client's cancel then does nothing; a listing that overwrites CANCELDONE makes the
  destructor queue a clean-up of the object it deletes; `handle_map` may keep a deleted
  object; `handle.name()` throws for a torrent that was just removed, which nothing catches and
  which ends the daemon (424, 846); `WriteResumeData` asks and then waits, so it may miss the answer, at shutdown with `transfermutex` held.
* Torrent files: what is put between the scan and `AddWatches` waits for the next restart;
  hidden files of users are not loaded by a restart; of two files with one torrent, the
  second brings it back after a cancel and a restart; the daemon's files that are cut short
  by a crash, or duplicates, stay for ever; a stop right after a cancel keeps the file; a
  stop during a fetch loses the torrent; that users' files stay (`UsersFilesStay`) is what
  `debian/changelog:127` asks for; the scan may take the file of a fetch under way, and a
  failing one of the two objects then deletes the other's file; `WriteTorrent` that gets no
  file goes on without one, and one that cannot write it whole leaves what it wrote (233-246): the
  torrent is downloaded, and gone after a restart.

## 4. Proofs

For every value of the constants, from the named assumptions only
(`ThreadsAssumption`: the roles are disjoint; `ItemsAssumption`: `None` is no unit;
`CurlAssumption`: numbers of chunks are natural, the modes are known ones; `EcgiAssumption`: a
boundary and headers have two bytes at least, the margin is larger than a boundary by four, the
buffer is larger than its margin, and the boundaries are where the parts end;
`UploadAssumption`: one attempt to connect at least; `AppAssumption`: threads and downloads have
names of their own; `FilesAssumption`: finitely many files, of which the daemon's, the hidden ones
and those of users without a home are kinds; `TorrentAssumption`: where torrents come from).

**CompletionProofs.** `ReapAfterExactlyOneCall` is not inductive. `IInv` adds who
holds `cbmutex` (`MutexInv`), that one completer at most wins the test of `reapstatus` and how far it is
(`WinnerInv`), that what was delivered is a prefix of the list and all of it
after `InvokeCallbacks` (`DeliveryInv`), that the list holds the accepted registrars once
each (`ListInv`), and the heart of the argument, `PushInv`: a registrar that saw `OK`
under `cbmutex` is ahead of `InvokeCallbacks`, which needs `cbmutex` as well, so that reading
`reapstatus` without `reapmutex` does no harm. There is one lemma per conjunct, with one
step per action. From `IInv` follow `ReapIsSafe`, `ReapIsQuiet`, `ListIsStable` and
`Refinement`. Two more theorems say how far the answers of a Downloader can be relied on:
what `ReapOK` said, read without a lock that its reader keeps, stays true
(`ReapableForGood`), and the hang that `completion_wait` finds is for good: a waiter that
sleeps after `Complete`'s one broadcast is woken by nothing but a spurious wakeup
(`MissedBroadcastIsFinal`).

**AsyncWorkerProofs.** `OnePlace` with `TypeOK` is inductive; three lemmas about the
elements of appended, prepended and shortened sequences carry it. `Refinement` follows step
by step: waking, testing and notifying are stutters of `WorkQueue`. `ForgottenUntilAdded` is
the theorem behind `async_worker_lost`: when the worker sleeps over queued work and no notify
is due, all stays as it is until a unit is added, the list is flushed or a wakeup comes for
free.

**CurlDownloaderProofs.** For a content of any length, an empty one included, and a file that
opens or does not. The properties speak of the end of
a transfer, so `IInv` says what holds on the way: which statuses each place of `Run` allows
(`StatusInv`), that nothing says "cancelled" unless it is and that a cancel in time keeps
`Run` out of the success branch (`CancelInv`), that every accepted chunk is in the buffer or
in the destination, and that a destination that is not good accepted none or failed at its last
flush (`ContentInv`), that the file belongs to the transfer from its opening to
its unlinking (`FileInv`), and that one signal lies between the verdict and `Complete`
(`SignalInv`). One lemma per conjunct; `CancelInTimeWins`, `DownloadedIsWhole`, `NoLeftovers`
and `OneTrueSignal` follow from `IInv`.

**EcgiProofs.** For any form, any buffer and reads of any size. The argument is about
offsets: the parser stands at a boundary, behind a part's headers or inside its data, what
it handed over of a part that is not spoilt is the part's beginning up to where it stands, and what
it may hand over next ends before the next boundary, found or not: where none is found the margin
is kept, and a boundary that is only half there is inside the margin. That a misread part does not
harm another needs two facts: a boundary that `cur` has passed without its being found belongs to a
part that is spoilt (`Unread`), and `cur` never falls back behind the boundary of the current
part, not even by the byte of a negative `max_read` (`Past`).

**SocketFdUploadProofs.** For any number of cancellers and attempts. The parser's
invariant carries over, since all other steps leave its variables alone or are
steps of it. `UInv` adds that a cancel that has been seen stays seen (`CancelSeen`), that the
status, the signal and the files at each place of `Run` are those its judgement allows
(`ParseJudged`, `SignalJudged`, `TempsJudged`; of a file either the whole or a piece is at the
destination, since its temporary file is gone with the first attempt) and that attempts are bounded
(`TriesLeft`); `HandInv` says which messages can be under way when the CGI and the daemon are where
they are. From them follow `DeliveryExact`, `VerdictFits`, `TempsGone` and `HandshakeExact`.

**FtdAppProofs.** For any number of downloads, any uuids and URLs. Two invariants, for two
kinds of clients.

Whatever the clients ask for, `CoreInv` holds: the types, that the holder of `transfermutex`
is where `Holds` says (`LockInv`), that the download `AddDownload` is at has no thread yet
(`NewInv`), and that a removal with the lock waits at an entry (`EntryInv`). From it follow
`AppTypeCorrect` and `NobodyElseChangesTheList`. `UrlsAreUnique` needs one thing more of the
clients (`UrlsAsSent`): a URL that is added more than once is sent as `Url` would write it,
since `AddDownload` looks for the URL as sent among normalised ones (`FtdApp.cpp:185`).
The argument is about the gaps between its three locked walks of the list: what the first two
found out stays true until the third (`UrlInv`), because only the main thread makes the list
grow (`Rewrites`, `OthersLeaveUrls`).

That no deleted download is used, that none is left behind and that the list is a
`DownloadList` hold for clients that are `Considerate`: in addition, each download has at
most one remover (`OneRemoverEach`, else see `ftdapp_twice` and `ftdapp_stop_auto`). Both are
hypotheses of theorems and no assumptions of the module, because the code enforces neither.
These properties rest on `AppInv`, which adds to the core: nothing asks twice
for the removal of a download, and once it is found nothing that could find it again is left
in the plan (`PlanInv`); where a download's thread is fits its object and its states
(`ThreadInv`); no two entries can be taken for one another (`DistinctInv`), and the list holds
exactly the objects that live, except the one being added (`ListedInv`); a removal is in one
place, at the thread that asks, registered as a callback, in the deferred work, or at the
thread that carries it out (`RequestInv`, `WorkInv`); and nothing moves the entry a removal
waits for (`HitInv`). There is one lemma per action. What `CancelDownload` looks for is a
minimum of a set of positions (`FirstOf`), and that a set of numbers has one is `MinIsIn`, by an
induction that is carried out on a set of numbers (`SetInduction`), since the library's takes an
operator. `Refinement` then shows that every step is an `Add`, an `Ask`, a `Remove` or a
stutter of `DownloadList`.

Between the two stands what holds of clients that ask as they like, with any number of
removals of one download:

* `NoThreadOutlivesItsDownload`, for any clients: whatever deletes a download, its own
  thread has ended. `LifeInv` ties the places of a thread to its object's states: a removal
  passes `ReapOK` only when the thread is behind `Complete` (`FarInv`, `LateInv`), and a
  download that was not started has no thread to come (`StartedInv`).
* `SecondRemovalsAreAllThatFails`, for `UrlsAsSent`: nothing but a removal, and only of its own
  target, ever uses a deleted download, and whoever may take `transfermutex` finds none in
  the list. What `ftdapp_twice` finds is therefore all that goes wrong when a download is
  cancelled twice: no listing, no cancel of another download, no callback and no walk of
  `ShutDown` meets a freed entry. `PlacesInv` says where threads can be, `LiveInv` that the
  list's entries, and what `transfermutex` protects, live.
* `DeadlockIsForever`, for any clients: the state that `ftdapp_stop_auto` reaches, the
  holder of `transfermutex` polling a download whose thread waits for it, has no way out.
* `NoCircularWait`, for `Considerate` clients: a download that the holder of `transfermutex`
  polls can complete without that lock. `RemovalsAreNotLost`: a download whose removal was asked
  for is deleted or its removal is still on its way, in one of the places `Pending` lists.
  These are what safety can say of `MainReturns` and `AskedIsRemoved`.

**TorrentFilesProofs.** For any files and torrents, over any number of crashes and restarts.
That the session's files are there (`UserInv`), and hold what the session has unless they are
torn (`IntactInv`), is easy of users' files, which have one object each. One of the daemon's own
may have two, its fetch's and the watcher's: `OwnInv` says what a fetch has on disk at each of its
places, that a file with both objects is in `raced` (only the scan finds it, because the loop skips
the daemon's own), and that it is there until one of the two is freed. From this follow `TorrentsSurviveCrash`, `UsersFilesAreKept` and
`OwnFilesAreKept`, the last two by way of `FilesGoWithObjects`: a file is only deleted with an
object of it. What the formulas except is what the code loses: files that were not written whole,
and of raced files the other object's.

**TorrentDownloaderProofs.** `ManagerUsesLive` is about the alert thread, which has no
reference of its own: it finds the object in `handle_map`. The invariant says that the torrent
finishes once (`AlertInv`), that nobody touches one from a file before it is registered
(`AddInv`), and that when `Complete` has been called the alert of its end has been handled or
cannot be about it any more (`ReapInv`). The hypothesis that it comes from a file is needed, see
`torrent_fetch`. `DeletedIsLeftAlone` says who goes on to use a torrent that was deleted: never
the main thread, and of a torrent from a file neither the watcher nor the manager's thread,
only deferred work (a clean-up that the destructor queued itself). It rests on `HoldInv`
(`transfermutex` keeps the torrent while the main thread uses it), `RemoverInv` (a removal
belongs to one thread) and `ResumeInv` (the alert `ShutDown` waits for is handled while it
waits).

Only model-checked: liveness (`ENABLED` and fairness are beyond the prover here), that is
`AcceptedIsCalled`, `SleeperReturns`, `NextNotifyRecovers`, `AwakeWorkerDrains`,
`AskedIsRemoved`, `MainReturns`, `TransferCompletes`, `UploadCompletes`,
`CgiIsAnswered`, `CancelRemoves`, `WholeCompletes`, `RestartResumes`, `NewFileStarts` and
`CancelForgets`. Every other property of a passing run is a theorem. What a recursive
definition computes for every input cannot be proved either; no module with theorems reaches
a RECURSIVE operator.

## 5. Not modelled, and the plan

* **Request loop and clients.** A sequential loop whose effect on the registry is FtdApp's.
  Its own hazards are single lines: `buf[r]=0` one byte behind a full buffer
  (`filetransferdaemon.cpp:216`), CANCEL_DOWNLOAD that is never answered (244-246), a
  SIGTERM between the test and `accept` that waits for the next client (277).
* **EConfig.** A signal handler that changes standard containers other threads are reading
  (`EConfig.cpp:50`) is undefined behaviour without a useful set of outcomes; the file is
  truncated before it is locked (283), its size read before the lock (318), and a reload
  that fails leaves an empty configuration. A model would only list violations.
* **Url**, strings, users, file helpers, socket wrappers: conversions and wrappers without
  state.
* **Throttle commands, DHT state, rate settings**: numbers passed on to libtorrent.
* **libcurl, libtorrent, libsigc++, the JSON code**: third-party. libsigc++ and the JSON
  library are in the tree and are most of its lines (45 thousand, of which the daemon itself
  is about a tenth); template functors and a parser of a data format hold no protocol of
  this program, so that the share of lines a faithful model maps stays small.
* `MsgQueue.cpp`: unused. Texts, logging, formatting.

Left of the plan, in this order: the request loop with signals; the watch on `/home`;
percent-encoding against a definition.
