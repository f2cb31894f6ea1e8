------------------------- MODULE CurlDownloaderProofs -------------------------
(***************************************************************************)
(* Theorems about CurlDownloader, for any length of the content, an empty  *)
(* one included, and whether or not the file could be opened: however      *)
(* libcurl's callbacks, the end of the transfer and a cancel interleave,   *)
(* the status, the file, the content and the signal agree.                 *)
(***************************************************************************)
EXTENDS CurlDownloader, TLAPS

USE CurlAssumption DEF given, content, BeforeJudge, Completed

(* A new transfer satisfies every part of the invariant.                     *)
LEMMA InitIInv == Init => IInv
<1> SUFFICES ASSUME Init PROVE IInv
  OBVIOUS
<1> USE DEF Init
<1>1. file \in {"absent", "foreign"}
  OBVIOUS
<1>2. TypeOK
  <2>1. received \in 0..size /\ buffered \in 0..size /\ kept \in 0..size
    OBVIOUS
  <2>2. signals \in Seq({"done", "failed"})
    OBVIOUS
  <2>3. mode \in Modes /\ size \in Sizes /\ cancel \in BOOLEAN /\ good \in BOOLEAN /\ intime \in BOOLEAN
    OBVIOUS
  <2> QED
    BY <1>1, <2>1, <2>2, <2>3 DEF TypeOK
<1>3. StatusInv /\ CancelInv
  BY DEF StatusInv, CancelInv
<1>4. ContentInv
  BY DEF ContentInv
<1>5. FileInv
  BY <1>1 DEF FileInv
<1>6. SignalInv
  BY DEF SignalInv
<1> QED
  BY <1>2, <1>3, <1>4, <1>5, <1>6 DEF IInv

(* No step takes a variable out of its type.                                 *)
LEMMA StepType == IInv /\ [Next]_vars => TypeOK'
<1> SUFFICES ASSUME TypeOK, ContentInv, [Next]_vars PROVE TypeOK'
  BY DEF IInv
<1> USE DEF TypeOK
<1>1. CASE StartDownload
  BY <1>1 DEF StartDownload
<1>2. CASE CancelDownload \/ Destroy
  <2>1. cancel' \in BOOLEAN /\ intime' \in BOOLEAN
    <3>1. CASE CancelDownload
      <4>1. cancel' = TRUE /\ intime' = (at \in BeforeJudge)
        BY <3>1 DEF CancelDownload
      <4>2. (at \in BeforeJudge) \in BOOLEAN
        OBVIOUS
      <4> HIDE DEF BeforeJudge, TypeOK
      <4> QED
        BY <4>1, <4>2
    <3>2. CASE Destroy
      BY <3>2 DEF Destroy
    <3> QED
      BY <1>2, <3>1, <3>2
  <2>2. at' = at \/ at' = "deleted"
    BY <1>2 DEF CancelDownload, Destroy
  <2>3. UNCHANGED <<given, status, content, file, res, signals>>
    BY <1>2 DEF CancelDownload, Destroy
  <2> QED
    BY <2>1, <2>2, <2>3
<1>3. CASE Progress
  BY <1>3 DEF Progress, CbProgress, UpdateProgress
<1>4. CASE WriteContent
  <2>1. kept + buffered <= received /\ received + 1 \in 0..size
    BY <1>4 DEF WriteContent, ContentInv
  <2>2. received' \in 0..size /\ buffered' \in 0..size /\ kept' \in 0..size
    BY <1>4, <2>1 DEF WriteContent, Refuse
  <2>3. /\ at' \in {at, "judge"} /\ res' \in {res, "error"} /\ good' \in BOOLEAN
        /\ UNCHANGED <<given, status, cancel, file, signals, intime>>
    BY <1>4 DEF WriteContent, Refuse
  <2> QED
    BY <2>2, <2>3
<1>5. CASE TransferEnds \/ TransferFails
  BY <1>5 DEF TransferEnds, TransferFails
<1>6. CASE RunBegin \/ Judge
  BY <1>6 DEF RunBegin, Judge, Settle
<1>7. CASE Flush
  <2>1. kept + buffered \in 0..size
    BY DEF ContentInv
  <2>2. received' \in 0..size /\ buffered' \in 0..size /\ kept' \in 0..size
    BY <1>7, <2>1 DEF Flush
  <2>3. /\ status' = "DOWNLOADED" /\ at' = "signal" /\ good' \in BOOLEAN
        /\ UNCHANGED <<given, cancel, file, res, signals, intime>>
    BY <1>7 DEF Flush, Settle
  <2> QED
    BY <2>2, <2>3
<1>8. CASE EmitDone \/ EmitFailed
  <2>1. signals' \in Seq({"done", "failed"})
    BY <1>8 DEF EmitDone, EmitFailed
  <2>2. at' \in {"complete", "unlink"}
    BY <1>8 DEF EmitDone, EmitFailed
  <2>3. UNCHANGED <<given, status, cancel, content, file, res, intime>>
    BY <1>8 DEF EmitDone, EmitFailed
  <2> QED
    BY <2>1, <2>2, <2>3 DEF content
<1>9. CASE UnlinkCancelled \/ UnlinkFailed \/ Complete
  BY <1>9 DEF UnlinkCancelled, UnlinkFailed, Unlinked, Complete
<1>10. CASE UNCHANGED vars
  BY <1>10 DEF vars
<1> QED
  BY <1>1, <1>2, <1>3, <1>4, <1>5, <1>6, <1>7, <1>8, <1>9, <1>10 DEF Next, Server, Rest

(* Run moves the status and its own place together.                          *)
LEMMA StepStatus == IInv /\ [Next]_vars => StatusInv'
<1> SUFFICES ASSUME IInv, [Next]_vars PROVE StatusInv'
  OBVIOUS
<1> USE DEF IInv, TypeOK, StatusInv
<1>1. CASE StartDownload \/ CancelDownload \/ Destroy
  BY <1>1 DEF StartDownload, CancelDownload, Destroy
<1>2. CASE Progress
  BY <1>2 DEF Progress, CbProgress, UpdateProgress
<1>3. CASE Server
  BY <1>3 DEF Server, WriteContent, Refuse, TransferEnds, TransferFails
<1>4. CASE RunBegin \/ Judge \/ Flush
  BY <1>4 DEF RunBegin, Judge, Flush, Settle, CancelInv
<1>5. CASE EmitDone \/ EmitFailed
  BY <1>5 DEF EmitDone, EmitFailed
<1>6. CASE UnlinkCancelled \/ UnlinkFailed \/ Complete
  BY <1>6 DEF UnlinkCancelled, UnlinkFailed, Complete
<1>7. CASE UNCHANGED vars
  BY <1>7 DEF vars
<1> QED
  BY <1>1, <1>2, <1>3, <1>4, <1>5, <1>6, <1>7 DEF Next, Rest

(* A cancel in time steers Judge away from success and failure.              *)
LEMMA StepCancel == IInv /\ [Next]_vars => CancelInv'
<1> SUFFICES ASSUME IInv, [Next]_vars PROVE CancelInv'
  OBVIOUS
<1> USE DEF IInv, TypeOK, StatusInv, CancelInv
<1>1. CASE StartDownload \/ CancelDownload \/ Destroy
  BY <1>1 DEF StartDownload, CancelDownload, Destroy
<1>2. CASE Progress
  BY <1>2 DEF Progress, CbProgress, UpdateProgress
<1>3. CASE Server
  BY <1>3 DEF Server, WriteContent, Refuse, TransferEnds, TransferFails
<1>4. CASE RunBegin \/ Judge \/ Flush
  BY <1>4 DEF RunBegin, Judge, Flush, Settle
<1>5. CASE EmitDone \/ EmitFailed
  BY <1>5 DEF EmitDone, EmitFailed
<1>6. CASE UnlinkCancelled \/ UnlinkFailed \/ Complete
  BY <1>6 DEF UnlinkCancelled, UnlinkFailed, Complete
<1>7. CASE UNCHANGED vars
  BY <1>7 DEF vars
<1> QED
  BY <1>1, <1>2, <1>3, <1>4, <1>5, <1>6, <1>7 DEF Next, Rest

(* WriteContent and Flush lose no chunk that was accepted.                   *)
LEMMA StepContent == IInv /\ [Next]_vars => ContentInv'
<1> SUFFICES ASSUME IInv, [Next]_vars PROVE ContentInv'
  OBVIOUS
<1> USE DEF IInv, TypeOK, StatusInv, ContentInv
<1>1. CASE StartDownload \/ CancelDownload \/ Destroy
  BY <1>1 DEF StartDownload, CancelDownload, Destroy
<1>2. CASE Progress
  BY <1>2 DEF Progress, CbProgress, UpdateProgress
<1>3. CASE WriteContent
  BY <1>3 DEF WriteContent, Refuse
<1>4. CASE TransferEnds \/ TransferFails
  BY <1>4 DEF TransferEnds, TransferFails
<1>5. CASE RunBegin \/ Judge
  BY <1>5 DEF RunBegin, Judge, Settle
<1>6. CASE Flush
  BY <1>6 DEF Flush, Settle
<1>7. CASE EmitDone \/ EmitFailed
  BY <1>7 DEF EmitDone, EmitFailed
<1>8. CASE UnlinkCancelled \/ UnlinkFailed \/ Complete
  BY <1>8 DEF UnlinkCancelled, UnlinkFailed, Complete
<1>9. CASE UNCHANGED vars
  BY <1>9 DEF vars
<1> QED
  BY <1>1, <1>2, <1>3, <1>4, <1>5, <1>6, <1>7, <1>8, <1>9 DEF Next, Server, Rest

(* Only StartDownload makes the file the transfer's own, and every way to    *)
(* Complete but success unlinks it.                                          *)
LEMMA StepFile == IInv /\ [Next]_vars => FileInv'
<1> SUFFICES ASSUME IInv, [Next]_vars PROVE FileInv'
  OBVIOUS
<1> USE DEF IInv, TypeOK, StatusInv, FileInv
<1>1. CASE StartDownload \/ CancelDownload \/ Destroy
  BY <1>1 DEF StartDownload, CancelDownload, Destroy
<1>2. CASE Progress
  BY <1>2 DEF Progress, CbProgress, UpdateProgress
<1>3. CASE Server
  BY <1>3 DEF Server, WriteContent, Refuse, TransferEnds, TransferFails
<1>4. CASE RunBegin \/ Judge
  BY <1>4 DEF RunBegin, Judge, Settle
<1>5. CASE Flush
  BY <1>5 DEF Flush, Settle, ContentInv
<1>6. CASE EmitDone \/ EmitFailed
  BY <1>6 DEF EmitDone, EmitFailed
<1>7. CASE UnlinkCancelled \/ UnlinkFailed \/ Complete
  BY <1>7 DEF UnlinkCancelled, UnlinkFailed, Complete, Unlinked, MyDest
<1>8. CASE UNCHANGED vars
  BY <1>8 DEF vars
<1> QED
  BY <1>1, <1>2, <1>3, <1>4, <1>5, <1>6, <1>7, <1>8 DEF Next, Rest

(* Each way from the verdict to Complete emits one signal.                   *)
LEMMA StepSignal == IInv /\ [Next]_vars => SignalInv'
<1> SUFFICES ASSUME IInv, [Next]_vars PROVE SignalInv'
  OBVIOUS
<1> USE DEF IInv, TypeOK, StatusInv, SignalInv
<1>1. CASE StartDownload \/ CancelDownload \/ Destroy
  BY <1>1 DEF StartDownload, CancelDownload, Destroy
<1>2. CASE Progress
  BY <1>2 DEF Progress, CbProgress, UpdateProgress
<1>3. CASE Server
  BY <1>3 DEF Server, WriteContent, Refuse, TransferEnds, TransferFails
<1>4. CASE RunBegin \/ Judge \/ Flush
  BY <1>4 DEF RunBegin, Judge, Flush, Settle
<1>5. CASE EmitDone \/ EmitFailed
  BY <1>5 DEF EmitDone, EmitFailed
<1>6. CASE UnlinkCancelled \/ UnlinkFailed \/ Complete
  BY <1>6 DEF UnlinkCancelled, UnlinkFailed, Complete
<1>7. CASE UNCHANGED vars
  BY <1>7 DEF vars
<1> QED
  BY <1>1, <1>2, <1>3, <1>4, <1>5, <1>6, <1>7 DEF Next, Rest

-------------------------------------------------------------------------------
(* The inductive invariant holds of every transfer, whatever it transfers    *)
(* and whenever it is cancelled.                                             *)
THEOREM Invariant == Spec => []IInv
<1>1. IInv /\ [Next]_vars => IInv'
  BY StepType, StepStatus, StepCancel, StepContent, StepFile, StepSignal DEF IInv
<1> QED
  BY InitIInv, <1>1, PTL DEF Spec

(* Every variable of a transfer keeps its type.                              *)
THEOREM TypeCorrect == Spec => []TypeOK
<1>1. IInv => TypeOK
  BY DEF IInv
<1> QED
  BY Invariant, <1>1, PTL

(* A cancel that comes before Run judges the transfer is never overtaken by  *)
(* its end (CurlDownloader.cpp:281).                                         *)
THEOREM CancelWins == Spec => []CancelInTimeWins
<1>1. IInv => CancelInTimeWins
  BY DEF IInv, CancelInv, CancelInTimeWins
<1> QED
  BY Invariant, <1>1, PTL

(* What Run reports as DOWNLOADED is the whole content in its place, but for *)
(* what a failed last flush left in the buffer, and for the file of an empty *)
(* content that could not be opened.                                         *)
THEOREM WholeContent == Spec => []DownloadedIsWhole
<1>1. IInv => DownloadedIsWhole
  BY DEF IInv, TypeOK, ContentInv, FileInv, DownloadedIsWhole
<1> QED
  BY Invariant, <1>1, PTL

(* A failed or cancelled transfer has unlinked its file when it completes.   *)
THEOREM FilesAreRemoved == Spec => []NoLeftovers
<1>1. IInv => NoLeftovers
  BY DEF IInv, FileInv, NoLeftovers
<1> QED
  BY Invariant, <1>1, PTL

(* A transfer that completes has emitted its one signal, the right one.      *)
THEOREM SignalIsTrue == Spec => []OneTrueSignal
<1>1. IInv => OneTrueSignal
  BY DEF IInv, TypeOK, StatusInv, CancelInv, SignalInv, OneTrueSignal
<1> QED
  BY Invariant, <1>1, PTL
===============================================================================
