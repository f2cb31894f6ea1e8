------------------------- MODULE SocketFdUploadProofs -------------------------
(***************************************************************************)
(* Proofs about an upload, for any form, any number of cancellers and any  *)
(* interleaving of them with the CGI and the thread that parses.  The      *)
(* parser's own invariant comes from EcgiProofs; the rest of the argument  *)
(* is that a cancel writes the status before it sets the parser's flag, so *)
(* Run judges a form that was cut short by the status alone.               *)
(***************************************************************************)
EXTENDS SocketFdUpload, EcgiProofs

\* The loop of RunConnect ends with the last attempt.
TriesLeft == run \in {"idle", "connect"} => tries < Retries

\* Run has not judged the upload yet.
Early == {"connect", "recvfd", "recvboundary", "recvlength", "parsing", "report", "judge"}

\* Whoever has set the parser's flag, or is about to, has written the status.
CancelSeen ==
    /\ cgi = "start" => run = "idle"
    /\ run = "idle" => /\ status = "NOTSTARTED" /\ cancel = FALSE
                       /\ \A c \in Cancellers : can[c] = "idle"
    /\ run \in Early => \/ status = "CANCELINPROGRESS"
                        \/ cancel = FALSE /\ \A c \in Cancellers : can[c] # "flag"

ParseJudged ==
    /\ parse = "cancelled" => cancel = TRUE
    /\ run \in {"report", "judge"} /\ err = FALSE => parse \in {"done", "cancelled", "astray"}
    /\ run \in {"good", "fix", "fixed"} => err = FALSE /\ parse \in {"done", "astray"}

SignalJudged ==
    /\ run \notin {"complete", "completed"} => told = <<>>
    /\ told \in {<<>>, <<"done">>, <<"failed">>}
    /\ told = <<"done">> => err = FALSE /\ parse \in {"done", "astray"}
    /\ told = <<"failed">> => delivered = {} /\ torn = {}
    /\ delivered # {} \/ torn # {} => /\ run \in {"fix", "fixed", "complete", "completed", "crashed"}
                                     /\ parse \in {"done", "astray"}
    /\ run = "fix" => delivered \subseteq gone /\ torn \subseteq gone
    /\ delivered \cap torn = {}

TempsJudged ==
    run \in {"fixed", "bad"} \/ (run \in {"complete", "completed"} /\ told # <<>>) => Temps = {}

\* The inductive invariant.
UInv == TypeOK /\ IInv /\ CancelSeen /\ ParseJudged /\ SignalJudged /\ TempsJudged /\ TriesLeft

-------------------------------------------------------------------------------
(* The CGI's steps after ADD_DOWNLOAD touch nothing of the daemon's.          *)
LEMMA CgiQuiet ==
    ASSUME UInv,
           \/ CgiNotAdded \/ CgiListen \/ CgiSendFd \/ CgiSendBoundary \/ CgiSendLength
           \/ CgiWait \/ CgiVerdict \/ CgiKilled \/ UNCHANGED uploadVars
    PROVE  UNCHANGED <<vars, run, err, status, files, can>> /\ (cgi' = "start" => cgi = "start")
  BY DEF UInv, TypeOK, CgiNotAdded, CgiListen, CgiSendFd, CgiSendBoundary,
       CgiSendLength, CgiWait, CgiAnswered, CgiVerdict, CgiKilled, uploadVars, link

(* A step that touches nothing of the daemon's keeps every part.              *)
LEMMA QuietStep ==
    ASSUME UInv, UNCHANGED <<vars, run, err, status, files, can>>, cgi' = "start" => cgi = "start"
    PROVE  CancelSeen' /\ ParseJudged' /\ SignalJudged' /\ TempsJudged'
  BY DEF UInv, CancelSeen, Early, ParseJudged, SignalJudged, TempsJudged, Temps, Left,
       FormParts, vars, data, files

(* The parser leaves the flag alone, and stops on nothing but the flag.      *)
LEMMA ParserStops ==
    ASSUME ParseStep
    PROVE  cancel' = cancel /\ (parse' = "cancelled" => cancel) /\ form' = form
  <1>1. CASE Reading
    BY <1>1 DEF Reading, ReadFirst, ReadMore, ReadFails
  <1>2. CASE Chunk
    <2>1. CASE BoundaryNotFound \/ FinalBoundary \/ Search
      BY <2>1 DEF BoundaryNotFound, FinalBoundary, Boundary, Search
    <2>2. ASSUME NEW b, HeaderThrows(b) \/ HeaderCut(b) \/ StartOfField(b)
          PROVE  UNCHANGED <<cancel, form>> /\ parse' \in {"threw", "stat"}
      BY <2>2 DEF HeaderThrows, HeaderCut, StartOfField, Boundary
    <2> QED  BY <1>2, <2>1, <2>2 DEF Chunk
  <1>3. CASE FullField \/ FullFile \/ TakePiece \/ TakeLess \/ WriteFails
    BY <1>3 DEF FullField, FullFile, TakePiece, TakeLess, WriteFails
  <1>4. CASE EndOfField \/ EndOfFile \/ Done \/ StopOnCancel
    <2>1. CASE EndOfFile
      BY <2>1 DEF EndOfFile, LoopEnds
    <2> QED  BY <1>4, <2>1 DEF EndOfField, Done, StopOnCancel
  <1> QED  BY <1>1, <1>2, <1>3, <1>4 DEF ParseStep, Taking

(* Up to the parser.                                                         *)
LEMMA HandshakeStep ==
    ASSUME UInv,
           CgiAdd \/ RunConnect \/ RunReceiveFd \/ RunReceiveBoundary \/ RunReceiveLength
    PROVE  CancelSeen' /\ ParseJudged' /\ SignalJudged' /\ TempsJudged'
  <1> USE DEF UInv, CancelSeen, Early, ParseJudged, SignalJudged, TempsJudged, Temps, Left, FormParts,
              vars, data, link, files
  <1>1. CASE CgiAdd
    BY <1>1 DEF CgiAdd
  <1>2. CASE RunConnect
    BY <1>2 DEF RunConnect
  <1>3. CASE RunReceiveFd
    BY <1>3 DEF RunReceiveFd
  <1>4. CASE RunReceiveBoundary
    BY <1>4 DEF RunReceiveBoundary, RunReceive
  <1>5. CASE RunReceiveLength
    BY <1>5 DEF RunReceiveLength, RunReceive
  <1> QED  BY <1>1, <1>2, <1>3, <1>4, <1>5

(* From the parser to the verdict.                                           *)
LEMMA JudgeStep ==
    ASSUME UInv,
           \/ FilterFields \/ NoUploadDirectory \/ NoUploadPath \/ RunUncaught
           \/ RunThrew \/ RunParsed \/ RunReport \/ RunJudge
    PROVE  CancelSeen' /\ ParseJudged' /\ SignalJudged' /\ TempsJudged'
  <1> USE DEF UInv, CancelSeen, Early, ParseJudged, SignalJudged, TempsJudged, Temps, Left, FormParts,
              vars, data, link, files
  <1>1. CASE FilterFields
    BY <1>1 DEF FilterFields, FieldAdded, Final3
  <1>2. CASE RunThrew
    BY <1>2 DEF RunThrew
  <1>3. CASE RunParsed
    BY <1>3 DEF RunParsed
  <1>4. CASE RunReport
    BY <1>4 DEF RunReport
  <1>5. CASE RunJudge
    BY <1>5 DEF RunJudge
  <1>6. CASE NoUploadDirectory \/ NoUploadPath \/ RunUncaught
    BY <1>6 DEF NoUploadDirectory, NoUploadPath, RunUncaught, Crash
  <1> QED  BY <1>1, <1>2, <1>3, <1>4, <1>5, <1>6

(* What follows from the verdict.                                            *)
LEMMA VerdictStep ==
    ASSUME UInv,
           \/ CleanUp \/ RunFailed \/ RunDownloaded \/ FixNotWritable \/ FixCrashes
           \/ FixFile \/ FixThrows \/ FixDone \/ SignalDone \/ Complete
    PROVE  CancelSeen' /\ ParseJudged' /\ SignalJudged' /\ TempsJudged'
  <1> USE DEF UInv, CancelSeen, Early, ParseJudged, SignalJudged, TempsJudged, Temps, Left, FormParts,
              vars, data, link, files
  <1>1. CASE CleanUp
    BY <1>1 DEF CleanUp
  <1>2. CASE RunFailed
    BY <1>2 DEF RunFailed
  <1>3. CASE RunDownloaded
    BY <1>3 DEF RunDownloaded
  <1>4. CASE FixNotWritable
    BY <1>4 DEF FixNotWritable
  <1>5. CASE FixFile
    BY <1>5 DEF FixFile, PutFile
  <1>6. CASE FixThrows
    BY <1>6 DEF FixThrows, PutFile
  <1>7. CASE FixDone
    BY <1>7 DEF FixDone
  <1>8. CASE SignalDone
    BY <1>8 DEF SignalDone
  <1>9. CASE Complete
    BY <1>9 DEF Complete
  <1>10. CASE FixCrashes
    BY <1>10 DEF FixCrashes, Crash
  <1> QED  BY <1>1, <1>2, <1>3, <1>4, <1>5, <1>6, <1>7, <1>8, <1>9, <1>10

(* CancelDownload, at any moment of all this.                                *)
LEMMA CancelStep ==
    ASSUME UInv,
           \/ \E c \in Cancellers : CancelTest(c)
           \/ \E c \in Cancellers : CancelStatus(c)
           \/ \E c \in Cancellers : CancelFlag(c)
    PROVE  CancelSeen' /\ ParseJudged' /\ SignalJudged' /\ TempsJudged'
  <1> USE DEF UInv, CancelSeen, Early, ParseJudged, SignalJudged, TempsJudged, Temps, Left, FormParts,
              vars, data, link, files
  <1>1. CASE \E c \in Cancellers : CancelTest(c)
    BY <1>1 DEF CancelTest, Final3
  <1>2. CASE \E c \in Cancellers : CancelStatus(c)
    BY <1>2 DEF CancelStatus
  <1>3. CASE \E c \in Cancellers : CancelFlag(c)
    BY <1>3 DEF CancelFlag, CancelUpload
  <1> QED  BY <1>1, <1>2, <1>3

(* A step of the parser disturbs nothing of what Run will judge.              *)
LEMMA ParseQuiet ==
    ASSUME UInv, RunParse
    PROVE  CancelSeen' /\ ParseJudged' /\ SignalJudged' /\ TempsJudged'
  <1>1. /\ run = "parsing" /\ run' = "parsing"
        /\ UNCHANGED <<link, err, status, files, can, cancel, form>>
        /\ parse' = "cancelled" => cancel = TRUE
    <2>1. cancel' = cancel /\ (parse' = "cancelled" => cancel) /\ form' = form
      BY ParserStops DEF RunParse
    <2>2. cancel \in BOOLEAN
      BY DEF UInv, IInv, EcgiTypeOK
    <2> QED  BY <2>1, <2>2 DEF RunParse
  <1> QED
    BY <1>1 DEF UInv, CancelSeen, Early, ParseJudged, SignalJudged, TempsJudged, link,
         files

-------------------------------------------------------------------------------
(* The parser's invariant.  Besides the parser's own steps there is Run's    *)
(* parse of a handshake that went wrong, of which nothing is claimed.        *)
LEMMA ParserKept ==
    ASSUME UInv, [UploadNext]_uploadVars
    PROVE  IInv'
  <1>1. CASE UNCHANGED vars
    BY <1>1, Inductive DEF UInv
  <1>2. CASE RunParse
    BY <1>2, Inductive DEF UInv, RunParse
  <1>3. CASE FilterFields
    <2>1. FieldAdded /\ cancel' \in {cancel, TRUE}
      BY <1>3 DEF FilterFields
    <2> QED  BY <2>1, Inductive DEF UInv
  <1>4. CASE RunReceiveLength
    <2>1. UNCHANGED <<form, pos, tp, data, cancel>> /\ (parse' = parse \/ parse' = "astray")
      BY <1>4 DEF RunReceiveLength
    <2>2. CASE parse' = parse
      BY <2>1, <2>2, Inductive DEF UInv, vars
    <2>3. CASE parse' = "astray"
      BY <2>1, <2>3, Ends DEF UInv
    <2> QED  BY <2>1, <2>2, <2>3
  <1>5. CASE \E c \in Cancellers : CancelFlag(c)
    BY <1>5, Inductive DEF UInv, CancelFlag
  <1>6. CASE CgiStep \/ CgiKilled
    BY <1>6, <1>1 DEF CgiStep, CgiKilled, CgiAdd, CgiNotAdded, CgiListen, CgiSendFd,
       CgiSendBoundary, CgiSendLength, CgiWait, CgiAnswered, CgiVerdict
  <1>7. CASE RunStep
    <2>1. RunStep => UNCHANGED vars \/ RunParse \/ FilterFields \/ RunReceiveLength
      BY DEF RunStep, RunConnect, RunReceiveFd, RunReceiveBoundary, RunReceive,
           RunThrew, RunParsed, RunReport, RunJudge, CleanUp, RunFailed, RunDownloaded,
           FixNotWritable, FixFile, FixThrows, FixDone, SignalDone, Complete,
           NoUploadDirectory, NoUploadPath, RunUncaught, FixCrashes
    <2> QED  BY <1>7, <2>1, <1>1, <1>2, <1>3, <1>4
  <1>8. CASE \E c \in Cancellers : Cancel(c)
    BY <1>8, <1>1, <1>5 DEF Cancel, CancelTest, CancelStatus
  <1> QED
    BY <1>1, <1>6, <1>7, <1>8 DEF UploadNext, uploadVars

-------------------------------------------------------------------------------
(* Type correctness: first what the channels may hold.                       *)
LEMMA Sequence ==
    ASSUME NEW S
    PROVE  /\ <<>> \in Seq(S)
           /\ \A e \in S : <<e>> \in Seq(S)
           /\ \A s \in Seq(S), e \in S : Append(s, e) \in Seq(S)
  OBVIOUS

LEMMA Channels ==
    ASSUME TypeOK
    PROVE  /\ \A m \in {"fd", "boundary", "length"} :
                 <<m>> \in Seq({"fd", "boundary", "length"})
                 /\ Append(toRun, m) \in Seq({"fd", "boundary", "length"})
           /\ \A m \in {"!", "err", "imdone"} : Append(toCgi, m) \in Seq({"!", "err", "imdone"})
           /\ \A m \in {"done", "failed"} : Append(told, m) \in Seq({"done", "failed"})
           /\ Append(shaken, toRun) \in Seq(Seq({"fd", "boundary", "length"}))
           /\ <<>> \in Seq({"fd", "boundary", "length"}) /\ <<>> \in Seq({"!", "err", "imdone"})
  BY Sequence DEF TypeOK

LEMMA CgiTyped ==
    ASSUME UInv, EcgiTypeOK', CgiStep \/ CgiKilled
    PROVE  TypeOK'
  <1> USE DEF UInv, TypeOK, Final3, vars, link, files
  <1>0. form' = form
    BY DEF CgiStep, CgiKilled, CgiAdd, CgiNotAdded, CgiListen, CgiSendFd,
       CgiSendBoundary, CgiSendLength, CgiWait, CgiAnswered, CgiVerdict
  <1>1. CASE CgiAdd \/ CgiNotAdded \/ CgiListen \/ CgiKilled
    BY <1>0, <1>1, Channels DEF CgiAdd, CgiNotAdded, CgiListen, CgiKilled, FormParts
  <1>2. CASE CgiSendFd \/ CgiVerdict
    <2>1. /\ toRun' = toRun \/ toRun' = Append(toRun, "fd")
          /\ toCgi' = toCgi \/ toCgi' = <<>>
          /\ cgi' \in {"fdsent", "saidok", "saidfailed"}
      BY <1>2 DEF CgiSendFd, CgiVerdict
    <2>2. toRun' \in Seq({"fd", "boundary", "length"}) /\ toCgi' \in Seq({"!", "err", "imdone"})
      BY <2>1, Channels
    <2> QED  BY <1>0, <1>2, <2>1, <2>2 DEF CgiSendFd, CgiVerdict, FormParts
  <1>3. ASSUME NEW from, NEW what \in {<<"boundary">>, <<"length">>, <<>>},
               NEW next \in {"bsent", "lsent", "waiting"}, CgiAnswered(from, what, next)
        PROVE  TypeOK'
    <2>1. what \in Seq({"fd", "boundary", "length"})
      BY <1>3, Channels
    <2>2. toRun \o what \in Seq({"fd", "boundary", "length"})
      BY <2>1
    <2>3. toRun' \in Seq({"fd", "boundary", "length"}) /\ toCgi' = <<>>
          /\ cgi' \in {"bsent", "lsent", "waiting", "saidfailed"}
      BY <1>3, <2>2 DEF CgiAnswered
    <2> QED  BY <1>0, <1>3, <2>3 DEF CgiAnswered, FormParts
  <1>4. CASE CgiSendBoundary \/ CgiSendLength \/ CgiWait
    BY <1>3, <1>4 DEF CgiSendBoundary, CgiSendLength, CgiWait
  <1> QED  BY <1>1, <1>2, <1>4 DEF CgiStep

LEMMA RunTyped ==
    ASSUME UInv, EcgiTypeOK', RunStep
    PROVE  TypeOK'
  <1> USE DEF UInv, TypeOK, Final3, vars, link, files, FormParts
  <1>0. form' = form
    BY ParserStops DEF RunStep, RunConnect, RunReceiveFd, RunReceiveBoundary,
         RunReceiveLength, RunReceive, RunParse, FilterFields, FieldAdded, RunThrew,
         RunParsed, RunReport, RunJudge, CleanUp, RunFailed, RunDownloaded,
         FixNotWritable, FixFile, FixThrows, FixDone, SignalDone, Complete,
         NoUploadDirectory, NoUploadPath, RunUncaught, FixCrashes
  <1>1. CASE RunConnect
    <2>0. tries \in Nat /\ tries < Retries /\ (tries' = 0 \/ tries' = tries + 1)
      BY <1>1 DEF RunConnect, TriesLeft
    <2>1. tries' \in 0..Retries
      BY <2>0, UploadAssumption
    <2>2. err' \in BOOLEAN /\ run' \in {"recvfd", "report", "connect"}
      BY <1>1 DEF RunConnect
    <2> QED  BY <1>0, <1>1, <2>1, <2>2 DEF RunConnect
  <1>2. CASE RunReceiveFd
    <2>1. toRun' \in Seq({"fd", "boundary", "length"}) /\ toCgi' \in Seq({"!", "err", "imdone"})
      BY <1>2, Channels DEF RunReceiveFd, Tell
    <2>2. err' \in BOOLEAN /\ run' \in {"recvboundary", "report"}
      BY <1>2 DEF RunReceiveFd
    <2> QED  BY <1>0, <1>2, <2>1, <2>2 DEF RunReceiveFd
  <1>3. CASE RunReceiveBoundary \/ RunReceiveLength
    <2>1. /\ toRun' = <<>> /\ toCgi' \in {toCgi, Append(toCgi, "!")}
          /\ shaken' = Append(shaken, toRun) /\ run' \in {"recvlength", "parsing"}
      BY <1>3 DEF RunReceiveBoundary, RunReceiveLength, RunReceive, Tell
    <2>2. /\ toRun' \in Seq({"fd", "boundary", "length"}) /\ toCgi' \in Seq({"!", "err", "imdone"})
          /\ shaken' \in Seq(Seq({"fd", "boundary", "length"}))
      BY <2>1, Channels
    <2> QED
      BY <1>0, <1>3, <2>1, <2>2 DEF RunReceiveBoundary, RunReceiveLength, RunReceive
  <1>4. CASE RunParse \/ FilterFields
    BY <1>0, <1>4 DEF RunParse, FilterFields
  <1>5. CASE RunThrew \/ RunParsed \/ RunReport \/ RunJudge
    <2>1. toCgi' = toCgi \/ \E m \in {"err", "imdone"} : toCgi' = Append(toCgi, m)
      BY <1>5 DEF RunThrew, RunParsed, RunReport, RunJudge, Tell
    <2>2. toCgi' \in Seq({"!", "err", "imdone"})
      BY <2>1, Channels
    <2> QED  BY <1>0, <1>5, <2>2 DEF RunThrew, RunParsed, RunReport, RunJudge
  <1>6. CASE CleanUp \/ FixNotWritable
    BY <1>0, <1>6 DEF CleanUp, FixNotWritable, Temps, Left
  <1>7. CASE FixFile \/ FixThrows
    <2>1. gone' \subseteq FormParts /\ delivered' \subseteq FormParts /\ torn' \subseteq FormParts
      BY <1>0, <1>7 DEF FixFile, FixThrows, PutFile, Temps, Left
    <2>2. /\ run' \in {"fix", "complete"} /\ err' \in BOOLEAN
          /\ UNCHANGED <<vars, link, status, told, can>>
      BY <1>0, <1>7 DEF FixFile, FixThrows
    <2> QED  BY <1>0, <2>1, <2>2
  <1>8. CASE RunFailed \/ RunDownloaded \/ FixDone \/ SignalDone \/ Complete
    <2>1. told' = told \/ \E m \in {"done", "failed"} : told' = Append(told, m)
      BY <1>8 DEF RunFailed, RunDownloaded, FixDone, SignalDone, Complete
    <2>2. told' \in Seq({"done", "failed"})
      BY <2>1, Channels
    <2> QED  BY <1>0, <1>8, <2>2 DEF RunFailed, RunDownloaded, FixDone, SignalDone, Complete
  <1>9. CASE NoUploadDirectory \/ NoUploadPath \/ RunUncaught \/ FixCrashes
    <2>1. can' \in [Cancellers -> {"idle", "late", "status", "flag", "done", "dead"}]
          /\ run' = "crashed" /\ UNCHANGED <<vars, link, err, status, files>>
      BY <1>9 DEF NoUploadDirectory, NoUploadPath, RunUncaught, FixCrashes, Crash
    <2> QED  BY <1>0, <2>1
  <1> QED  BY <1>1, <1>2, <1>3, <1>4, <1>5, <1>6, <1>7, <1>8, <1>9 DEF RunStep

LEMMA CancelTyped ==
    ASSUME UInv, EcgiTypeOK', \E c \in Cancellers : Cancel(c)
    PROVE  TypeOK'
  <1> USE DEF UInv, TypeOK, Final3, vars, link, files, FormParts
  <1>1. ASSUME NEW c \in Cancellers, CancelTest(c) \/ CancelStatus(c) \/ CancelFlag(c)
        PROVE  TypeOK'
    BY <1>1 DEF CancelTest, CancelStatus, CancelFlag, CancelUpload
  <1> QED  BY <1>1 DEF Cancel

LEMMA TypeKept ==
    ASSUME UInv, [UploadNext]_uploadVars
    PROVE  TypeOK'
  <1>1. EcgiTypeOK'
    BY ParserKept DEF IInv
  <1>2. CASE UNCHANGED uploadVars
    BY <1>1, <1>2 DEF UInv, TypeOK, uploadVars, vars, link, files, FormParts
  <1> QED
    BY <1>1, <1>2, CgiTyped, RunTyped, CancelTyped DEF UploadNext

-------------------------------------------------------------------------------
(* RunConnect leaves the loop with its last attempt.                          *)
LEMMA TriesKept ==
    ASSUME UInv, [UploadNext]_uploadVars
    PROVE  TriesLeft'
  <1> USE DEF UInv, TypeOK, TriesLeft
  <1>1. CASE RunConnect
    <2>1. /\ tries \in Nat /\ tries < Retries
          /\ run' = "connect" => tries' = tries + 1 /\ tries' # Retries
      BY <1>1 DEF RunConnect
    <2>2. run' = "connect" => tries' < Retries
      BY <2>1, UploadAssumption
    <2> QED  BY <1>1, <2>2 DEF RunConnect
  <1>2. CASE RunStep /\ ~RunConnect
    BY <1>2 DEF RunStep, RunReceiveFd, RunReceiveBoundary, RunReceiveLength, RunReceive,
       RunParse, FilterFields, RunThrew, RunParsed, RunReport, RunJudge, CleanUp, RunFailed,
       RunDownloaded, FixNotWritable, FixFile, FixThrows, FixDone, SignalDone, Complete,
       NoUploadDirectory, NoUploadPath, RunUncaught, FixCrashes, Crash
  <1>3. CASE CgiStep \/ CgiKilled
    BY <1>3 DEF CgiStep, CgiKilled, CgiAdd, CgiNotAdded, CgiListen, CgiSendFd,
       CgiSendBoundary, CgiSendLength, CgiWait, CgiAnswered, CgiVerdict, CancelSeen
  <1>4. CASE \E c \in Cancellers : Cancel(c)
    BY <1>4 DEF Cancel, CancelTest, CancelStatus, CancelFlag, link
  <1>5. CASE UNCHANGED uploadVars
    BY <1>5 DEF uploadVars, link
  <1> QED  BY <1>1, <1>2, <1>3, <1>4, <1>5 DEF UploadNext

-------------------------------------------------------------------------------
LEMMA UploadInductive == UInv /\ [UploadNext]_uploadVars => UInv'
  <1> SUFFICES ASSUME UInv, [UploadNext]_uploadVars PROVE UInv'
    OBVIOUS
  <1>1. TypeOK' /\ IInv'
    BY ParserKept, TypeKept
  <1>2. CancelSeen' /\ ParseJudged' /\ SignalJudged' /\ TempsJudged'
    <2>1. CASE CgiStep \/ CgiKilled \/ UNCHANGED uploadVars
      BY <2>1, CgiQuiet, QuietStep, HandshakeStep DEF CgiStep
    <2>2. CASE RunStep
      BY <2>2, HandshakeStep, ParseQuiet, JudgeStep, VerdictStep DEF RunStep
    <2>3. CASE \E c \in Cancellers : Cancel(c)
      BY <2>3, CancelStep DEF Cancel
    <2> QED  BY <2>1, <2>2, <2>3 DEF UploadNext
  <1> QED  BY <1>1, <1>2, TriesKept DEF UInv

LEMMA UploadInitially == UploadInit => UInv
  <1> SUFFICES ASSUME UploadInit PROVE UInv
    OBVIOUS
  <1>1. IInv
    BY Initially DEF UploadInit
  <1>2. TypeOK
    <2>1. toRun \in Seq({"fd", "boundary", "length"}) /\ toCgi \in Seq({"!", "err", "imdone"})
          /\ shaken \in Seq(Seq({"fd", "boundary", "length"})) /\ told \in Seq({"done", "failed"})
      BY Sequence DEF UploadInit
    <2>2. tries \in 0..Retries
      BY UploadAssumption DEF UploadInit
    <2>3. err \in BOOLEAN
      BY DEF UploadInit
    <2> QED  BY <1>1, <2>1, <2>2, <2>3 DEF UploadInit, TypeOK, IInv
  <1>3. parse = "chunk" /\ cancel = FALSE
    BY DEF UploadInit, Init
  <1> QED
    BY <1>1, <1>2, <1>3, UploadAssumption
       DEF UInv, UploadInit, CancelSeen, Early, ParseJudged, SignalJudged, TempsJudged, TriesLeft

LEMMA UploadInvariant == UploadSpec => []UInv
  BY UploadInitially, UploadInductive, PTL DEF UploadSpec

(* Every variable keeps its type.                                            *)
THEOREM UploadTypeCorrect == UploadSpec => []TypeOK
  BY UploadInvariant, PTL DEF UInv

(* The parts of the form that were not misread are kept exactly in every     *)
(* upload, whatever cancels it (ECGI.cpp 205-480).                           *)
THEOREM UploadPartsExact == UploadSpec => []PartsAreExact
  <1>1. UInv => PartsAreExact
    BY Consequences DEF UInv
  <1> QED  BY <1>1, UploadInvariant, PTL

(* Nothing is delivered of a form that was cut short; of a file either the   *)
(* whole, exact unless it was misread, or the piece that a failed copy left  *)
(* (SocketFdDownloader.cpp 126, 165, 227-281).                               *)
THEOREM DeliveryExact == UploadSpec => []DeliveredIsExact
  <1>1. UInv => DeliveredIsExact
    <2> SUFFICES ASSUME UInv, parse # "astray" PROVE DeliveredIsExact
      BY DEF DeliveredIsExact
    <2>1. /\ delivered \cup torn # {} => parse = "done"
          /\ delivered \cap torn = {}
      BY DEF UInv, SignalJudged
    <2>2. ASSUME NEW k \in delivered \ spoilt PROVE Exact(k)
      <3>1. parse = "done" /\ PartsAreExact /\ k \in FormParts
        BY <2>1, <2>2, Consequences DEF UInv, TypeOK
      <3> QED  BY <2>2, <3>1 DEF PartsAreExact
    <2> QED  BY <2>1, <2>2 DEF DeliveredIsExact
  <1> QED  BY <1>1, UploadInvariant, PTL

(* One verdict, that fits the files (SocketFdDownloader.cpp 164-182).        *)
THEOREM VerdictFits == UploadSpec => []SignalFitsFiles
  <1>1. UInv => SignalFitsFiles
    <2> SUFFICES ASSUME UInv PROVE SignalFitsFiles
      OBVIOUS
    <2>1. told = <<>> \/ told = <<"done">> \/ told = <<"failed">>
      BY DEF UInv, SignalJudged
    <2>2. Len(told) <= 1
      BY <2>1
    <2> QED  BY <2>2 DEF UInv, SignalJudged, SignalFitsFiles
  <1> QED  BY <1>1, UploadInvariant, PTL

(* No temporary file is left behind, save those of file parts without a name *)
(* (SocketFdDownloader.cpp 165-198, ECGI.cpp 252, 277).                      *)
THEOREM TempsGone == UploadSpec => []NoTempsLeft
  <1>1. UInv => NoTempsLeft
    BY DEF UInv, TypeOK, EcgiTypeOK, IInv, Made, TempsJudged, NoTempsLeft, Temps, Left
  <1> QED  BY <1>1, UploadInvariant, PTL
-------------------------------------------------------------------------------
(* The handshake.  As long as the CGI lives, each side has exactly one       *)
(* answer to wait for.                                                       *)
Pair(s, S, x, y) == s \in Seq(S) /\ Len(s) = 2 /\ s[1] = x /\ s[2] = y
Both(s) == Pair(s, Seq({"boundary", "length"}), <<"boundary">>, <<"length">>)

Shaking ==
    /\ run \in {"idle", "connect"} =>
          /\ cgi \in IF run = "idle" THEN {"start", "saidok", "saidfailed"}
                     ELSE {"added", "listening"}
          /\ toRun = <<>> /\ toCgi = <<>> /\ shaken = <<>>
    /\ run = "recvfd" =>
          /\ shaken = <<>> /\ toCgi = <<>>
          /\ \/ cgi = "listening" /\ toRun = <<>>
             \/ cgi = "fdsent" /\ toRun = <<"fd">>
    /\ run = "recvboundary" =>
          /\ shaken = <<>>
          /\ \/ cgi = "fdsent" /\ toCgi = <<"!">> /\ toRun = <<>>
             \/ cgi = "bsent" /\ toCgi = <<>> /\ toRun = <<"boundary">>
    /\ run = "recvlength" =>
          /\ shaken = << <<"boundary">> >>
          /\ \/ cgi = "bsent" /\ toCgi = <<"!">> /\ toRun = <<>>
             \/ cgi = "lsent" /\ toCgi = <<>> /\ toRun = <<"length">>
    /\ run \notin {"idle", "connect", "recvfd", "recvboundary", "recvlength"} =>
          /\ shaken = <<>> \/ Both(shaken)
          /\ cgi \notin {"start", "fdsent", "bsent"}

HandInv == cgi # "dead" => Shaking

(* The CGI's side.                                                           *)
LEMMA CgiShakes == ASSUME HandInv, CgiStep \/ CgiKilled PROVE HandInv'
  <1> USE DEF HandInv, Shaking
  <1>1. CASE CgiAdd \/ CgiNotAdded \/ CgiListen \/ CgiKilled
    BY <1>1 DEF CgiAdd, CgiNotAdded, CgiListen, CgiKilled, CgiGone
  <1>2. CASE CgiSendFd
    BY <1>2 DEF CgiSendFd
  <1>3. CASE CgiSendBoundary
    <2>1. CASE run = "recvboundary"
      <3>1. toCgi = <<"!">> /\ toRun = <<>>
        BY <1>3, <2>1 DEF CgiSendBoundary, CgiAnswered
      <3>2. cgi' = "bsent" /\ toRun' = <<"boundary">>
        BY <1>3, <3>1 DEF CgiSendBoundary, CgiAnswered
      <3> QED  BY <1>3, <2>1, <3>2 DEF CgiSendBoundary, CgiAnswered
    <2> QED  BY <1>3, <2>1 DEF CgiSendBoundary, CgiAnswered
  <1>4. CASE CgiSendLength
    <2>1. CASE run = "recvlength"
      <3>1. toCgi = <<"!">> /\ toRun = <<>>
        BY <1>4, <2>1 DEF CgiSendLength, CgiAnswered
      <3>2. cgi' = "lsent" /\ toRun' = <<"length">>
        BY <1>4, <3>1 DEF CgiSendLength, CgiAnswered
      <3> QED  BY <1>4, <2>1, <3>2 DEF CgiSendLength, CgiAnswered
    <2> QED  BY <1>4, <2>1 DEF CgiSendLength, CgiAnswered
  <1>5. CASE CgiWait \/ CgiVerdict
    BY <1>5 DEF CgiWait, CgiAnswered, CgiVerdict
  <1> QED  BY <1>1, <1>2, <1>3, <1>4, <1>5 DEF CgiStep

LEMMA Second ==
    ASSUME NEW S, NEW x \in S, NEW y \in S
    PROVE  Pair(Append(<<x>>, y), S, x, y)
  <1>1. <<x>> \in Seq(S) /\ Len(<<x>>) = 1 /\ <<x>>[1] = x
    OBVIOUS
  <1> QED  BY <1>1 DEF Pair

(* Run's side.                                                               *)
LEMMA RunShakes == ASSUME HandInv, RunStep PROVE HandInv'
  <1> USE DEF HandInv, Shaking
  <1>1. CASE RunConnect
    BY <1>1 DEF RunConnect
  <1>2. CASE RunReceiveFd
    BY <1>2 DEF RunReceiveFd, CgiGone, Tell
  <1>3. CASE RunReceiveBoundary
    <2>1. /\ cgi' = cgi /\ run = "recvboundary" /\ run' = "recvlength"
          /\ toRun' = <<>> /\ shaken' = Append(shaken, toRun)
          /\ ~CgiGone => toCgi' = Append(toCgi, "!")
          /\ toRun # <<>> \/ CgiGone
      BY <1>3 DEF RunReceiveBoundary, RunReceive, Tell
    <2>2. CASE cgi # "dead"
      <3>1. cgi = "bsent" /\ toCgi = <<>> /\ toRun = <<"boundary">> /\ shaken = <<>>
        BY <2>1, <2>2 DEF CgiGone
      <3>2. toCgi' = <<"!">> /\ shaken' = << <<"boundary">> >>
        BY <2>1, <3>1 DEF CgiGone
      <3> QED  BY <2>1, <3>1, <3>2
    <2> QED  BY <2>1, <2>2
  <1>4. CASE RunReceiveLength
    <2>1. /\ cgi' = cgi /\ run = "recvlength" /\ run' = "parsing"
          /\ shaken' = Append(shaken, toRun)
          /\ toRun # <<>> \/ CgiGone
      BY <1>4 DEF RunReceiveLength, RunReceive
    <2>2. CASE cgi # "dead"
      <3>1. cgi = "lsent" /\ toRun = <<"length">> /\ shaken = << <<"boundary">> >>
        BY <2>1, <2>2 DEF CgiGone
      <3>2. /\ <<"boundary">> \in Seq({"boundary", "length"})
            /\ <<"length">> \in Seq({"boundary", "length"})
        BY Sequence
      <3>3. Both(Append(<< <<"boundary">> >>, <<"length">>))
        BY <3>2, Second DEF Both
      <3>4. Both(shaken')
        BY <2>1, <3>1, <3>3
      <3> QED  BY <2>1, <3>1, <3>4
    <2> QED  BY <2>1, <2>2
  <1>5. CASE RunStep /\ run \notin {"connect", "recvfd", "recvboundary", "recvlength"}
    <2>1. CASE RunParse \/ FilterFields \/ RunThrew \/ RunParsed \/ RunReport
      BY <2>1 DEF RunParse, FilterFields, RunThrew, RunParsed, RunReport, link
    <2>4. CASE NoUploadDirectory \/ NoUploadPath \/ RunUncaught \/ FixCrashes
      BY <2>4 DEF NoUploadDirectory, NoUploadPath, RunUncaught, FixCrashes, Crash, link
    <2>2. CASE \/ RunJudge \/ CleanUp \/ RunFailed \/ RunDownloaded \/ FixNotWritable
               \/ FixFile \/ FixThrows \/ FixDone \/ SignalDone \/ Complete
      BY <2>2 DEF RunJudge, CleanUp, RunFailed, RunDownloaded, FixNotWritable, FixFile,
           FixThrows, FixDone, SignalDone, Complete, link
    <2>3. CASE RunConnect \/ RunReceiveFd \/ RunReceiveBoundary \/ RunReceiveLength
      BY <1>5, <2>3 DEF RunConnect, RunReceiveFd, RunReceiveBoundary, RunReceiveLength,
           RunReceive
    <2> QED  BY <1>5, <2>1, <2>2, <2>3, <2>4 DEF RunStep
  <1> QED
    BY <1>1, <1>2, <1>3, <1>4, <1>5 DEF RunStep, RunConnect, RunReceiveFd,
         RunReceiveBoundary, RunReceiveLength, RunReceive, RunParse, FilterFields,
         RunThrew, RunParsed, RunReport, RunJudge, CleanUp, RunFailed, RunDownloaded,
         FixNotWritable, FixFile, FixThrows, FixDone, SignalDone, Complete,
         NoUploadDirectory, NoUploadPath, RunUncaught, FixCrashes

(* What Run takes for the boundary is the boundary and what it takes for the *)
(* length the length (upload.cpp 165-182, SocketFdDownloader.cpp 90-102).    *)
THEOREM HandshakeExact == UploadSpec => []HandshakeIsExact
  <1>1. UploadInit => HandInv
    BY DEF UploadInit, HandInv, Shaking
  <1>2. HandInv /\ [UploadNext]_uploadVars => HandInv'
    <2> SUFFICES ASSUME HandInv, [UploadNext]_uploadVars PROVE HandInv'
      OBVIOUS
    <2>1. CASE (\E c \in Cancellers : Cancel(c)) \/ UNCHANGED uploadVars
      BY <2>1 DEF HandInv, Shaking, Cancel, CancelTest, CancelStatus, CancelFlag, link,
           uploadVars
    <2> QED  BY <2>1, CgiShakes, RunShakes DEF UploadNext
  <1>3. HandInv => HandshakeIsExact
    <2> SUFFICES ASSUME HandInv, cgi # "dead", NEW i \in DOMAIN shaken
                 PROVE  shaken[i] = << <<"boundary", "length">>[i] >>
      BY DEF HandshakeIsExact
    <2>1. \/ shaken = <<>> \/ shaken = << <<"boundary">> >>
          \/ Both(shaken)
      BY DEF HandInv, Shaking
    <2>2. \/ i = 1 /\ shaken[1] = <<"boundary">>
          \/ i = 2 /\ shaken[2] = <<"length">>
      BY <2>1 DEF Both, Pair
    <2> QED  BY <2>2
  <1> QED  BY <1>1, <1>2, <1>3, PTL DEF UploadSpec
===============================================================================
