---------------------------- MODULE CurlDownloader ----------------------------
(***************************************************************************)
(* One HTTP or FTP transfer: CurlDownloader of CurlDownloader.cpp, its     *)
(* thread (Run), the two callbacks libcurl calls on that thread, and the   *)
(* threads that start, cancel and delete it.                               *)
(*                                                                         *)
(* A transfer writes to a file of its own ("file"), to a stream its owner  *)
(* passed to SetStream ("stream", the .torrent file of a torrent), or asks *)
(* for headers only ("headers", the probe of CurlDownloadManager::Filter). *)
(*                                                                         *)
(* The content is a number of chunks, none for an empty one.  libcurl and  *)
(* the server are external: between two callbacks anything they may do is a *)
(* choice.  CancelDownload takes no lock, so a cancel falls between any two *)
(* reads of the flag, inside CbProgress too.  The end of Run, Complete, is *)
(* one step here; module Completion has the detail.                        *)
(***************************************************************************)
EXTENDS Naturals, Sequences

CONSTANTS Sizes,   \* bound: how many chunks the server may send, 0 for an empty body
          Modes    \* which of "file", "stream", "headers" to look at

ASSUME CurlAssumption == Sizes \subseteq Nat /\ Modes \subseteq {"file", "stream", "headers"}

VARIABLES mode,      \* where the content goes
          size,      \* how many chunks it has
          status,    \* Downloader::status
          cancel,    \* Downloader::cancel
          at,        \* where Run is
          received,  \* chunks libcurl has handed to WriteContent
          buffered,  \* chunks in dest's buffer
          kept,      \* chunks in the file, or in the stream
          good,      \* dest->good()
          file,      \* the file at path/name: "absent", "own" or "foreign"
          res,       \* the result of curl_easy_perform
          signals,   \* history: the signals emitted
          intime     \* history: cancelled before Run judged the result

given == <<mode, size>>
content == <<received, buffered, kept, good>>
vars == <<given, status, cancel, at, content, file, res, signals, intime>>

(* AddDownload picks a name no file has; the probe's name comes from the URL *)
(* and its path is the root directory.                                       *)
Init == /\ mode \in Modes
        /\ size \in Sizes
        /\ status = "NOTSTARTED"
        /\ cancel = FALSE
        /\ at = "unborn"
        /\ received = 0 /\ buffered = 0 /\ kept = 0
        /\ good = FALSE
        /\ file \in IF mode = "headers" THEN {"absent", "foreign"} ELSE {"absent"}
        /\ res = "none"
        /\ signals = <<>>
        /\ intime = FALSE

\* The constructor sets mydest, and only SetStream clears it.
MyDest == mode # "stream"

Unlinked == IF MyDest THEN "absent" ELSE file

-------------------------------------------------------------------------------
(* The threads that own the transfer.                                        *)

\* The fstream that StartDownload makes may fail to open.
StartDownload ==
    /\ at = "unborn"
    /\ status' = "QUEUED"
    /\ at' = "begin"
    /\ \/ /\ mode = "file"
          /\ \/ file' = "own" /\ good' = TRUE
             \/ UNCHANGED <<file, good>>
       \/ mode = "stream" /\ good' = TRUE /\ UNCHANGED file
       \/ mode = "headers" /\ UNCHANGED <<file, good>>
    /\ UNCHANGED <<given, cancel, received, buffered, kept, res, signals, intime>>

BeforeJudge == {"begin", "perform", "progress", "judge"}

CancelDownload ==
    /\ at \notin {"unborn", "deleted"}
    /\ ~cancel
    /\ cancel' = TRUE
    /\ intime' = (at \in BeforeJudge)
    /\ UNCHANGED <<given, status, at, content, file, res, signals>>

\* ReapOK and delete.
Destroy ==
    /\ at = "ended"
    /\ at' = "deleted"
    /\ cancel' = TRUE
    /\ UNCHANGED <<given, status, content, file, res, signals, intime>>

-------------------------------------------------------------------------------
(* Run, up to curl_easy_perform, and the callbacks inside it.                *)

RunBegin ==
    /\ at = "begin"
    /\ \/ /\ ~cancel
          /\ status' = "INPROGRESS"
          /\ at' = "perform"
          /\ UNCHANGED res
       \/ /\ cancel
          /\ res' = "obsolete"
          /\ at' = "judge"
          /\ UNCHANGED status
    /\ UNCHANGED <<given, cancel, content, file, signals, intime>>

\* CbProgress returns 0, "go on", when it finds the download cancelled, and
\* asks UpdateProgress otherwise.
CbProgress ==
    /\ at = "perform"
    /\ at' = IF cancel THEN "perform" ELSE "progress"
    /\ UNCHANGED <<given, status, cancel, content, file, res, signals, intime>>

UpdateProgress ==
    /\ at = "progress"
    /\ \/ /\ cancel
          /\ status' = "CANCELINPROGRESS"
          /\ res' = "error"
          /\ at' = "judge"
       \/ /\ ~cancel
          /\ at' = "perform"
          /\ UNCHANGED <<status, res>>
    /\ UNCHANGED <<given, cancel, content, file, signals, intime>>

Refuse == /\ res' = "error"
          /\ at' = "judge"
          /\ UNCHANGED <<buffered, kept>>

\* WriteContent that tells libcurl all is well whatever write did.
WriteSwallowsFailure ==
    /\ at = "perform"
    /\ mode # "headers"
    /\ received < size
    /\ received' = received + 1
    /\ \/ (cancel \/ ~good) /\ Refuse /\ UNCHANGED good
       \/ ~cancel /\ good /\ good' \in BOOLEAN /\ UNCHANGED <<buffered, kept, res, at>>
    /\ UNCHANGED <<given, status, cancel, file, signals, intime>>

\* A returned 0 makes libcurl give up.  A write to a file stays in the buffer,
\* or writes the buffer out, or fails.
WriteContent ==
    /\ at = "perform"
    /\ mode # "headers"
    /\ received < size
    /\ received' = received + 1
    /\ \/ (cancel \/ ~good) /\ Refuse /\ UNCHANGED good
       \/ /\ ~cancel /\ good
          /\ \/ /\ mode = "file"
                /\ buffered' = buffered + 1
                /\ UNCHANGED <<kept, good, res, at>>
             \/ /\ kept' = kept + buffered + 1
                /\ buffered' = 0
                /\ UNCHANGED <<good, res, at>>
             \/ mode = "file" /\ good' = FALSE /\ Refuse
    /\ UNCHANGED <<given, status, cancel, file, signals, intime>>

\* The whole answer has arrived; a response code above 299 makes it an error.
TransferEnds ==
    /\ at = "perform"
    /\ mode = "headers" \/ received = size
    /\ res' \in {"ok", "error"}
    /\ at' = "judge"
    /\ UNCHANGED <<given, status, cancel, content, file, signals, intime>>

\* No connection, a lost connection, a timeout.
TransferFails ==
    /\ at = "perform"
    /\ res' = "error"
    /\ at' = "judge"
    /\ UNCHANGED <<given, status, cancel, content, file, signals, intime>>

-------------------------------------------------------------------------------
(* Run, from the result of curl_easy_perform to Complete.                    *)

Settle(s) == status' = s /\ at' = "signal"

\* Run that takes only the status for a sign of a cancel.
JudgeStatusOnly ==
    /\ at = "judge"
    /\ \/ (status = "CANCELINPROGRESS" \/ res = "obsolete") /\ Settle("CANCELDONE")
       \/ /\ status # "CANCELINPROGRESS"
          /\ \/ res = "ok" /\ at' = "flush" /\ UNCHANGED status
             \/ res = "error" /\ Settle("FAILED")
    /\ UNCHANGED <<given, cancel, content, file, res, signals, intime>>

Judge ==
    /\ at = "judge"
    /\ LET cancelled == cancel \/ status = "CANCELINPROGRESS"
       IN  \/ (cancelled \/ res = "obsolete") /\ Settle("CANCELDONE")
           \/ ~cancelled /\ res = "ok" /\ at' = "flush" /\ UNCHANGED status
           \/ ~cancelled /\ res = "error" /\ Settle("FAILED")
    /\ UNCHANGED <<given, cancel, content, file, res, signals, intime>>

\* The result of flush is not looked at.
Flush ==
    /\ at = "flush"
    /\ \/ kept' = kept + buffered /\ buffered' = 0 /\ UNCHANGED good
       \/ buffered > 0 /\ good' = FALSE /\ UNCHANGED <<kept, buffered>>
    /\ Settle("DOWNLOADED")
    /\ UNCHANGED <<given, cancel, received, file, res, signals, intime>>

EmitDone ==
    /\ at = "signal"
    /\ status \in {"DOWNLOADED", "CANCELDONE"}
    /\ signals' = Append(signals, "done")
    /\ at' = IF status = "DOWNLOADED" THEN "complete" ELSE "unlink"
    /\ UNCHANGED <<given, status, cancel, content, file, res, intime>>

\* A cancelled transfer that leaves its file, as if it were the caller's.
UnlinkNothing ==
    /\ at = "unlink"
    /\ at' = "complete"
    /\ UNCHANGED <<given, status, cancel, content, file, res, signals, intime>>

UnlinkCancelled ==
    /\ at = "unlink"
    /\ file' = Unlinked
    /\ at' = "complete"
    /\ UNCHANGED <<given, status, cancel, content, res, signals, intime>>

UnlinkFailed ==
    /\ at = "signal"
    /\ status = "FAILED"
    /\ file' = Unlinked
    /\ at' = "emitfailed"
    /\ UNCHANGED <<given, status, cancel, content, res, signals, intime>>

\* A failed transfer that reports success.
EmitDoneAnyway ==
    /\ at = "emitfailed"
    /\ signals' = Append(signals, "done")
    /\ at' = "complete"
    /\ UNCHANGED <<given, status, cancel, content, file, res, intime>>

\* A failed transfer that returns without Complete.
EmitAndReturn ==
    /\ at = "emitfailed"
    /\ signals' = Append(signals, "failed")
    /\ at' = "returned"
    /\ UNCHANGED <<given, status, cancel, content, file, res, intime>>

EmitFailed ==
    /\ at = "emitfailed"
    /\ signals' = Append(signals, "failed")
    /\ at' = "complete"
    /\ UNCHANGED <<given, status, cancel, content, file, res, intime>>

Complete ==
    /\ at = "complete"
    /\ at' = "ended"
    /\ UNCHANGED <<given, status, cancel, content, file, res, signals, intime>>

-------------------------------------------------------------------------------
Progress == CbProgress \/ UpdateProgress
Server == WriteContent \/ TransferEnds \/ TransferFails
Rest == \/ RunBegin \/ Judge \/ Flush
        \/ EmitDone \/ UnlinkCancelled \/ UnlinkFailed \/ EmitFailed \/ Complete

Next == StartDownload \/ CancelDownload \/ Destroy \/ Progress \/ Server \/ Rest

Spec == Init /\ [][Next]_vars

(* Run goes on whenever it can, and libcurl calls CbProgress about once a    *)
(* second, traffic or not.  Whether the server ever sends anything is not    *)
(* the daemon's to say: no transaction timeout is set (m_timeout is 0).      *)
FairSpec == Spec /\ WF_vars(Progress) /\ WF_vars(Rest)

(* The same with a server that answers or hangs up in the end, between any   *)
(* two progress callbacks if need be.                                        *)
ServedSpec == FairSpec /\ SF_vars(Server)

-------------------------------------------------------------------------------
TypeOK ==
    /\ mode \in Modes
    /\ size \in Sizes
    /\ status \in {"NOTSTARTED", "QUEUED", "INPROGRESS", "CANCELINPROGRESS",
                   "DOWNLOADED", "CANCELDONE", "FAILED"}
    /\ cancel \in BOOLEAN
    /\ at \in BeforeJudge \cup {"unborn", "flush", "signal", "unlink", "emitfailed",
                                "complete", "ended", "deleted"}
    /\ received \in 0..size /\ buffered \in 0..size /\ kept \in 0..size
    /\ good \in BOOLEAN
    /\ file \in {"absent", "own", "foreign"}
    /\ res \in {"none", "ok", "error", "obsolete"}
    /\ signals \in Seq({"done", "failed"})
    /\ intime \in BOOLEAN

Completed == at \in {"complete", "ended", "deleted"}

(* What a transfer that reports DOWNLOADED has delivered: all that the server *)
(* sent, in a file that is in place; or, since the code looks neither at the  *)
(* opening of the file (CurlDownloader.cpp:201) nor at its last flush (289),  *)
(* a file without what that flush should have written, or no file at all, but *)
(* that only of an empty content.  In both cases the destination is not good. *)
DownloadedIsWhole ==
    (status = "DOWNLOADED" /\ mode # "headers") =>
        \/ good /\ kept = size /\ (mode = "file" => file = "own")
        \/ /\ mode = "file" /\ ~good
           /\ \/ file = "own" /\ buffered > 0 /\ kept + buffered = size
              \/ file = "absent" /\ size = 0

(* A cancel that comes before Run looks at the result wins, whatever the     *)
(* transfer was doing: the download never counts as downloaded or failed.    *)
CancelInTimeWins == intime => status \notin {"DOWNLOADED", "FAILED"}

(* Once the transfer completes, the file of a download that failed or was    *)
(* cancelled is gone: nobody else will remove it.                            *)
NoLeftovers == (Completed /\ status # "DOWNLOADED") => file # "own"

(* Whoever listens hears exactly one signal, "failed" exactly for a failed   *)
(* transfer, and "done" of a transfer nobody cancelled means it has all its  *)
(* content (TorrentDownloader::HttpDone reads the stream then).              *)
OneTrueSignal ==
    Completed =>
        /\ signals = <<IF status = "FAILED" THEN "failed" ELSE "done">>
        /\ (signals = <<"done">> /\ ~cancel) => status = "DOWNLOADED"

(* With a server that does not hang, every started transfer completes, so    *)
(* that the threads waiting to reap it go on.                                *)
TransferCompletes == at = "begin" ~> Completed

-------------------------------------------------------------------------------
(* The inductive invariant behind the safety properties.                     *)

(* How far Run is determines what status may be.                             *)
StatusInv ==
    /\ at = "unborn" => status = "NOTSTARTED"
    /\ at = "begin" => status = "QUEUED"
    /\ at \in {"perform", "progress", "flush"} => status = "INPROGRESS"
    /\ at = "judge" => status \in {"QUEUED", "INPROGRESS", "CANCELINPROGRESS"}
    /\ at = "unlink" => status = "CANCELDONE"
    /\ at = "emitfailed" => status = "FAILED"
    /\ at = "signal" \/ Completed => status \in {"DOWNLOADED", "CANCELDONE", "FAILED"}

(* Nothing says "cancelled" unless it is, and a cancel in time is never      *)
(* overtaken by the success branch.                                          *)
CancelInv ==
    /\ (status \in {"CANCELINPROGRESS", "CANCELDONE"} \/ res = "obsolete") => cancel
    /\ intime => cancel /\ at \notin {"unborn", "flush"}
    /\ at = "judge" => res \in {"ok", "error", "obsolete"}
    /\ (at = "judge" /\ res = "ok") => status = "INPROGRESS"
    /\ intime => status \notin {"DOWNLOADED", "FAILED"}

(* What libcurl has handed over and was accepted is in the buffer or beyond  *)
(* it; a destination that could not be opened accepts nothing, and a stream  *)
(* of the caller's everything at once.                                       *)
ContentInv ==
    /\ kept + buffered <= received
    /\ at \in {"unborn", "begin"} => received = 0
    /\ mode = "stream" => buffered = 0 /\ (at # "unborn" => good)
    /\ (at \in {"perform", "progress"} /\ mode # "headers") =>
          kept + buffered = received /\ (good \/ received = 0)
    /\ (at = "flush" \/ (at = "judge" /\ res = "ok")) /\ mode # "headers"
          => kept + buffered = size /\ (good \/ size = 0)
    /\ (status = "DOWNLOADED" /\ mode # "headers") =>
          /\ kept + buffered = size
          /\ IF good THEN buffered = 0 ELSE mode = "file" /\ (buffered > 0 \/ size = 0)

(* The file is the transfer's own from the time it is opened until it is     *)
(* unlinked; it is not there when it could not be opened.                    *)
FileInv ==
    /\ IF mode = "file" THEN file # "foreign" ELSE file # "own"
    /\ at = "unborn" => ~good /\ file # "own"
    /\ (mode = "file" /\ good /\ at \in BeforeJudge \cup {"flush"}) => file = "own"
    /\ (mode = "file" /\ file = "own" /\ status # "DOWNLOADED") =>
          good \/ (at = "judge" /\ res # "ok") \/ at \in {"signal", "unlink"}
    /\ (mode = "file" /\ status = "DOWNLOADED") =>
          (file = "own" <=> good \/ buffered > 0)
    /\ at = "emitfailed" \/ (Completed /\ status # "DOWNLOADED") => file # "own"

(* The one signal is emitted on the way from "signal" to "complete".         *)
SignalInv ==
    signals = IF Completed \/ at = "unlink"
              THEN <<IF status = "FAILED" THEN "failed" ELSE "done">>
              ELSE <<>>

(* What every step of Next preserves (CurlDownloaderProofs).                 *)
IInv == TypeOK /\ StatusInv /\ CancelInv /\ ContentInv /\ FileInv /\ SignalInv
===============================================================================
