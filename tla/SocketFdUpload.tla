---------------------------- MODULE SocketFdUpload ----------------------------
(***************************************************************************)
(* One upload: the CGI program of upload.cpp, which hands its standard     *)
(* input to the daemon over a socket, the thread SocketFdDownloader::Run   *)
(* that takes it and parses the form with the parser of Ecgi, and the      *)
(* threads that cancel.                                                    *)
(*                                                                         *)
(* The two channels are byte streams: a Receive takes all that has come.   *)
(* Send and Receive cannot fail visibly (Socket.cpp compares an unsigned   *)
(* result with 0, and SIGPIPE is ignored): a peer that is gone is seen as  *)
(* an empty Receive.  The upload has a user, as every upload of the CGI.   *)
(***************************************************************************)
EXTENDS Ecgi, Sequences

CONSTANTS Cancellers,  \* the threads that call CancelDownload, once each
          Retries      \* bound: attempts to connect (11, a second apart)

ASSUME UploadAssumption == Retries \in Nat \ {0}

VARIABLES cgi,       \* where the CGI is
          run,       \* where SocketFdDownloader::Run is
          toRun,     \* what the CGI sent that the daemon has not received
          toCgi,     \* what the daemon sent that the CGI has not received
          tries,     \* failed attempts to connect, as long as none succeeded
          shaken,    \* what Run received for the boundary and for the length
          err,       \* Run's err
          status,    \* Downloader::status
          gone,      \* parts whose temporary file is renamed or unlinked
          delivered, \* parts whose file is at its destination
          torn,      \* parts of whose file a piece is at its destination
          told,      \* the signals emitted
          can        \* where each canceller is

link == <<cgi, toRun, toCgi, tries, shaken>>
files == <<gone, delivered, torn, told>>
uploadVars == <<vars, link, run, err, status, files, can>>

UploadInit ==
    /\ Init
    /\ cgi = "start" /\ run = "idle"
    /\ toRun = <<>> /\ toCgi = <<>>
    /\ tries = 0
    /\ shaken = <<>>
    /\ err = FALSE
    /\ status = "NOTSTARTED"
    /\ gone = {} /\ delivered = {} /\ torn = {}
    /\ told = <<>>
    /\ can = [c \in Cancellers |-> "idle"]

\* The temporary files that are there, and those of them in ECGI::filenames.
Left == {k \in FormParts : temp[k] # "none"} \ gone
Temps == {k \in Left : temp[k] = "listed"}

CgiGone == cgi \in {"dead", "saidok", "saidfailed"}

\* What is sent to a CGI that is gone is lost.
Tell(m) == toCgi' = IF CgiGone THEN toCgi ELSE Append(toCgi, m)

-------------------------------------------------------------------------------
(* The CGI.                                                                  *)

\* ADD_DOWNLOAD accepted: the downloader is started, and answered for.
CgiAdd ==
    /\ cgi = "start"
    /\ status = "NOTSTARTED"
    /\ cgi' = "added"
    /\ run' = "connect"
    /\ status' = "QUEUED"
    /\ UNCHANGED <<vars, toRun, toCgi, tries, shaken, err, files, can>>

\* A refusal is reported; no answer at all passes for success.
CgiNotAdded ==
    /\ cgi = "start"
    /\ cgi' \in {"saidok", "saidfailed"}
    /\ UNCHANGED <<vars, toRun, toCgi, tries, shaken, run, err, status, files, can>>

\* Accept: only now does the socket listen.
CgiListen ==
    /\ cgi = "added"
    /\ cgi' = "listening"
    /\ UNCHANGED <<vars, toRun, toCgi, tries, shaken, run, err, status, files, can>>

CgiSendFd ==
    /\ cgi = "listening"
    /\ run = "recvfd"
    /\ toRun' = Append(toRun, "fd")
    /\ cgi' = "fdsent"
    /\ UNCHANGED <<vars, toCgi, tries, shaken, run, err, status, files, can>>

\* Receive, which must give "!", and the next thing to send.
CgiAnswered(from, what, next) ==
    /\ cgi = from
    /\ toCgi # <<>>
    /\ IF Head(toCgi) = "!"
       THEN cgi' = next /\ toRun' = toRun \o what
       ELSE cgi' = "saidfailed" /\ UNCHANGED toRun
    /\ toCgi' = <<>>
    /\ UNCHANGED <<vars, tries, shaken, run, err, status, files, can>>

\* The CGI that sends the length at once with the boundary.
CgiSendBoth == CgiAnswered("fdsent", <<"boundary", "length">>, "lsent")

CgiSendBoundary == CgiAnswered("fdsent", <<"boundary">>, "bsent")
CgiSendLength == CgiAnswered("bsent", <<"length">>, "lsent")
CgiWait == CgiAnswered("lsent", <<>>, "waiting")

\* "if (strncmp(rbuf, "err", 3)) throw": any other answer is a failure.  When
\* the answer came together with the last "!", the end of the stream is what
\* this Receive sees, and rbuf still begins with "!".
CgiVerdict ==
    /\ cgi = "waiting"
    /\ toCgi # <<>> \/ run \in {"completed", "crashed"}
    /\ cgi' = IF toCgi # <<>> /\ Head(toCgi) = "err" THEN "saidok" ELSE "saidfailed"
    /\ toCgi' = <<>>
    /\ UNCHANGED <<vars, toRun, tries, shaken, run, err, status, files, can>>

\* The web server kills the CGI.
CgiKilled ==
    /\ cgi # "start" /\ ~CgiGone
    /\ cgi' = "dead"
    /\ toCgi' = <<>>
    /\ UNCHANGED <<vars, toRun, tries, shaken, run, err, status, files, can>>

-------------------------------------------------------------------------------
(* SocketFdDownloader::Run.                                                  *)

\* An exception that is no runtime_error* ends the daemon, with all its threads.
Crash == run' = "crashed" /\ can' = [c \in Cancellers |-> "dead"]

RunConnect ==
    /\ run = "connect"
    /\ IF cgi = "listening"
       THEN run' = "recvfd" /\ tries' = 0 /\ UNCHANGED err
       ELSE /\ tries' = tries + 1
            /\ IF tries' = Retries THEN run' = "report" /\ err' = TRUE
               ELSE UNCHANGED <<run, err>>
    /\ UNCHANGED <<vars, cgi, toRun, toCgi, shaken, status, files, can>>

\* ReceiveFd that waits for a descriptor whoever is at the other end.
RunReceiveFdWaits ==
    /\ run = "recvfd"
    /\ toRun # <<>>
    /\ toRun' = <<>>
    /\ Tell("!")
    /\ run' = "recvboundary"
    /\ UNCHANGED <<vars, cgi, tries, shaken, err, status, files, can>>

\* ReceiveFd that does not answer.
RunReceiveFdSilent ==
    /\ run = "recvfd"
    /\ toRun # <<>>
    /\ toRun' = <<>>
    /\ run' = "recvboundary"
    /\ UNCHANGED <<vars, cgi, toCgi, tries, shaken, err, status, files, can>>

\* ReceiveFd, and the first "!".  A closed socket is "Protocol failure".
RunReceiveFd ==
    /\ run = "recvfd"
    /\ \/ /\ toRun # <<>>
          /\ toRun' = <<>>
          /\ Tell("!")
          /\ run' = "recvboundary"
          /\ UNCHANGED err
       \/ /\ toRun = <<>> /\ CgiGone
          /\ Tell("err")
          /\ err' = TRUE
          /\ run' = "report"
          /\ UNCHANGED toRun
    /\ UNCHANGED <<vars, cgi, tries, shaken, status, files, can>>

\* Receive of the boundary and of the length: what came, or nothing.
RunReceive(from, next) ==
    /\ run = from
    /\ toRun # <<>> \/ CgiGone
    /\ shaken' = Append(shaken, toRun)
    /\ toRun' = <<>>
    /\ Tell("!")
    /\ run' = next
    /\ UNCHANGED <<cgi, tries, err, status, files, can>>

RunReceiveBoundary == RunReceive("recvboundary", "recvlength") /\ UNCHANGED vars

\* An upload whose boundary or length is not what was sent goes astray.
HandshakeOK == shaken' = << <<"boundary">>, <<"length">> >>

RunReceiveLength ==
    /\ RunReceive("recvlength", "parsing")
    /\ parse' = IF HandshakeOK THEN parse ELSE "astray"
    /\ UNCHANGED <<form, pos, tp, data, cancel>>

\* The directory for the temporary files cannot be made, or not be given to the
\* user.
NoUploadDirectory ==
    /\ run = "parsing"
    /\ state = "EMPTY" /\ parse = "chunk"
    /\ Crash
    /\ UNCHANGED <<vars, link, err, status, files>>

RunParse ==
    /\ run = "parsing"
    /\ ParseStep
    /\ UNCHANGED <<link, run, err, status, files, can>>

Final3 == {"CANCELDONE", "DOWNLOADED", "FAILED"}

\* FilterFields: the field may be an UPLOADPATH that cannot be written to, or
\* that does not exist.
FilterFields ==
    /\ run = "parsing"
    /\ FieldAdded
    /\ \/ UNCHANGED <<cancel, status>>
       \/ status \notin Final3 /\ status' = "CANCELINPROGRESS" /\ cancel' = TRUE
    /\ UNCHANGED <<link, run, err, files, can>>

NoUploadPath ==
    /\ run = "parsing"
    /\ parse = "added"
    /\ Crash
    /\ UNCHANGED <<vars, link, err, status, files>>

RunUncaught ==
    /\ run = "parsing"
    /\ parse \in {"uncaught", "astray"}
    /\ Crash
    /\ UNCHANGED <<vars, link, err, status, files>>

RunThrew ==
    /\ run = "parsing"
    /\ parse \in {"threw", "astray"}
    /\ Tell("err")
    /\ err' = TRUE
    /\ run' = "report"
    /\ UNCHANGED <<vars, cgi, toRun, tries, shaken, status, files, can>>

\* parse returned; up to four seconds pass here.
RunParsed ==
    /\ run = "parsing"
    /\ parse \in {"done", "cancelled", "astray"}
    /\ run' = "report"
    /\ UNCHANGED <<vars, link, err, status, files, can>>

\* What is sent when no CGI ever was connected is lost.
RunReport ==
    /\ run = "report"
    /\ IF tries = Retries THEN UNCHANGED toCgi ELSE Tell("imdone")
    /\ run' = "judge"
    /\ UNCHANGED <<vars, cgi, toRun, tries, shaken, err, status, files, can>>

\* RunJudge that asks the parser, not the status.
RunJudgeCancel ==
    /\ run = "judge"
    /\ run' = IF err \/ parse = "threw" THEN "cleanup" ELSE "good"
    /\ UNCHANGED <<vars, link, err, status, files, can>>

\* RunJudge that forgets to clean up when the parser threw.
RunJudgeNoCleanUp ==
    /\ run = "judge"
    /\ run' = IF status = "CANCELINPROGRESS" THEN "cleanup" ELSE IF err THEN "bad" ELSE "good"
    /\ UNCHANGED <<vars, link, err, status, files, can>>

RunJudge ==
    /\ run = "judge"
    /\ run' = IF err \/ status = "CANCELINPROGRESS" THEN "cleanup" ELSE "good"
    /\ UNCHANGED <<vars, link, err, status, files, can>>

CleanUp ==
    /\ run = "cleanup"
    /\ gone' = gone \cup Temps
    /\ run' = "bad"
    /\ UNCHANGED <<vars, link, err, status, delivered, torn, told, can>>

\* The status is looked at once more, after the clean up.
RunFailed ==
    /\ run = "bad"
    /\ status' = IF status = "CANCELINPROGRESS" THEN "CANCELDONE" ELSE "FAILED"
    /\ told' = Append(told, "failed")
    /\ run' = "complete"
    /\ UNCHANGED <<vars, link, err, gone, delivered, torn, can>>

RunDownloaded ==
    /\ run = "good"
    /\ status' = "DOWNLOADED"
    /\ run' = "fix"
    /\ UNCHANGED <<vars, link, err, files, can>>

-------------------------------------------------------------------------------
(* FixFiles.                                                                 *)

FixNotWritable ==
    /\ run = "fix" /\ gone = {}
    /\ gone' = Temps
    /\ run' = "fixed"
    /\ UNCHANGED <<vars, link, err, status, delivered, torn, told, can>>

\* The destination is not there.
FixCrashes ==
    /\ run = "fix" /\ gone = {}
    /\ Crash
    /\ UNCHANGED <<vars, link, err, status, files>>

\* What becomes of file k at the destination: it is moved or copied there, or
\* that fails, and a copy that fails may leave a piece.  One without a name
\* would have the directory's name.
PutFile(k) ==
    \/ UNCHANGED <<delivered, torn>>
    \/ /\ took[k] = "file"
       /\ \/ delivered' = delivered \cup {k} /\ UNCHANGED torn
          \/ torn' = torn \cup {k} /\ UNCHANGED delivered

\* A failure is logged, and the temporary file is removed all the same.
FixFile ==
    /\ run = "fix"
    /\ \E k \in Temps : gone' = gone \cup {k} /\ PutFile(k)
    /\ UNCHANGED <<vars, link, run, err, status, told, can>>

\* The temporary file cannot be removed: no signal is sent.
FixThrows ==
    /\ run = "fix"
    /\ \E k \in Temps : PutFile(k)
    /\ err' = TRUE
    /\ run' = "complete"
    /\ UNCHANGED <<vars, link, status, gone, told, can>>

FixDone ==
    /\ run = "fix"
    /\ Temps = {}
    /\ run' = "fixed"
    /\ UNCHANGED <<vars, link, err, status, files, can>>

SignalDone ==
    /\ run = "fixed"
    /\ told' = Append(told, "done")
    /\ run' = "complete"
    /\ UNCHANGED <<vars, link, err, status, gone, delivered, torn, can>>

Complete ==
    /\ run = "complete"
    /\ run' = "completed"
    /\ UNCHANGED <<vars, link, err, status, files, can>>

-------------------------------------------------------------------------------
(* CancelDownload, without a lock: a test, a write and the parser's flag.    *)

CancelTest(c) ==
    /\ can[c] = "idle" /\ status # "NOTSTARTED"
    /\ can' = [can EXCEPT ![c] = IF status \in Final3 THEN "late" ELSE "status"]
    /\ UNCHANGED <<vars, link, run, err, status, files>>

\* CancelDownload that stops the parser and forgets the status.
CancelFlagOnly(c) ==
    /\ can[c] = "status"
    /\ cancel' = TRUE
    /\ can' = [can EXCEPT ![c] = "flag"]
    /\ UNCHANGED <<form, parse, pos, tp, data, link, run, err, status, files>>

CancelStatus(c) ==
    /\ can[c] = "status"
    /\ status' = "CANCELINPROGRESS"
    /\ can' = [can EXCEPT ![c] = "flag"]
    /\ UNCHANGED <<vars, link, run, err, files>>

CancelFlag(c) ==
    /\ can[c] = "flag"
    /\ CancelUpload
    /\ can' = [can EXCEPT ![c] = "done"]
    /\ UNCHANGED <<link, run, err, status, files>>

-------------------------------------------------------------------------------
CgiStep == \/ CgiAdd \/ CgiNotAdded \/ CgiListen \/ CgiSendFd
           \/ CgiSendBoundary \/ CgiSendLength \/ CgiWait \/ CgiVerdict

RunStep == \/ RunConnect \/ RunReceiveFd \/ RunReceiveBoundary \/ RunReceiveLength
           \/ NoUploadDirectory \/ RunParse \/ FilterFields \/ NoUploadPath
           \/ RunUncaught \/ RunThrew \/ RunParsed \/ RunReport
           \/ RunJudge \/ CleanUp \/ RunFailed \/ RunDownloaded
           \/ FixNotWritable \/ FixCrashes \/ FixFile \/ FixThrows \/ FixDone
           \/ SignalDone \/ Complete

Cancel(c) == CancelTest(c) \/ CancelStatus(c) \/ CancelFlag(c)

UploadNext == \/ CgiStep \/ CgiKilled \/ RunStep
              \/ \E c \in Cancellers : Cancel(c)

UploadSpec == UploadInit /\ [][UploadNext]_uploadVars

(* Both processes run, and the web server goes on feeding the form or ends   *)
(* it.  Nobody has to kill the CGI or to cancel, but a canceller that has    *)
(* begun goes on.                                                            *)
UploadFairSpec == /\ UploadSpec
                  /\ WF_uploadVars(CgiStep)
                  /\ WF_uploadVars(RunStep)
                  /\ \A c \in Cancellers : WF_uploadVars(CancelStatus(c) \/ CancelFlag(c))

-------------------------------------------------------------------------------
TypeOK ==
    /\ EcgiTypeOK
    /\ cgi \in {"start", "added", "listening", "fdsent", "bsent", "lsent", "waiting",
                "saidok", "saidfailed", "dead"}
    /\ run \in {"idle", "connect", "recvfd", "recvboundary", "recvlength", "parsing",
                "report", "judge", "cleanup", "bad", "good", "fix", "fixed",
                "complete", "completed", "crashed"}
    /\ toRun \in Seq({"fd", "boundary", "length"})
    /\ toCgi \in Seq({"!", "err", "imdone"})
    /\ tries \in 0..Retries
    /\ shaken \in Seq(Seq({"fd", "boundary", "length"}))
    /\ err \in BOOLEAN
    /\ status \in {"NOTSTARTED", "QUEUED", "CANCELINPROGRESS"} \cup Final3
    /\ gone \subseteq FormParts /\ delivered \subseteq FormParts /\ torn \subseteq FormParts
    /\ told \in Seq({"done", "failed"})
    /\ can \in [Cancellers -> {"idle", "late", "status", "flag", "done", "dead"}]

(* Nothing of a form reaches its destination unless the form was parsed to    *)
(* its end: never the part of a file that had come when a cancel stopped the  *)
(* parser, although parse returns then as it does at the end of the form      *)
(* (SocketFdDownloader.cpp 126, 165).  A file that was moved, or copied       *)
(* without an error, is a file of the form, byte for byte, save the parts     *)
(* that the parser misread; a copy that failed may have left a piece there,   *)
(* and of a file nothing but one of the two is there.                         *)
DeliveredIsExact ==
    parse # "astray" =>
        /\ delivered \cup torn # {} => parse = "done"
        /\ delivered \cap torn = {}
        /\ \A k \in delivered \ spoilt : Exact(k)

(* An upload that is over, with the daemon alive, has left no temporary file  *)
(* of its form behind, wherever it stopped, unless one could not be removed.  *)
(* The exception is a file part without a name: its temporary file is listed  *)
(* nowhere unless it was read in pieces up to its end (ECGI.cpp 252, 277,     *)
(* 291), and stays.                                                           *)
NoTempsLeft ==
    (run = "completed" /\ told # <<>>) =>
        Temps = {} /\ \A k \in Left : took[k] = "unnamed"

(* Who listens to the signals hears one verdict: "done" never after the form  *)
(* was cut short, and nothing is at the destination when it is "failed".      *)
SignalFitsFiles ==
    /\ Len(told) <= 1
    /\ told = <<"failed">> => delivered = {} /\ torn = {}
    /\ (told = <<"done">> /\ parse # "astray") => parse = "done" /\ ~err

(* As long as the CGI lives, what Run takes for the boundary is the boundary  *)
(* and what it takes for the length the length, although nothing on the       *)
(* stream separates them.                                                    *)
HandshakeIsExact ==
    cgi # "dead" => \A i \in DOMAIN shaken : shaken[i] = << <<"boundary", "length">>[i] >>

(* An upload that was started completes, so that it can be removed: with the  *)
(* CGI alive or killed at any point, cancelled or not, however the form is    *)
(* misread; unless an exception ends the daemon.                              *)
UploadCompletes == (run = "connect") ~> (run \in {"completed", "crashed"} \/ parse = "astray")

(* A CGI that listens before the daemon gives it up gets its answer: no side  *)
(* of the handshake waits for the other for ever.                             *)
CgiIsAnswered ==
    (cgi = "listening" /\ run = "connect") ~> (CgiGone \/ parse = "astray")
===============================================================================
