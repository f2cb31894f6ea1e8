--------------------------- MODULE CompletionProofs ---------------------------
(***************************************************************************)
(* Proofs about Completion, for any sets of completers, registrars and     *)
(* waiters: type correctness, that the object is reapable only after every *)
(* accepted callback was called exactly once and the completer is out of   *)
(* it, and stays so, that the list is stable while it is called, that a    *)
(* waiter who missed the broadcast waits for good, and that the Downloader *)
(* implements the one-shot event of OneShot.                               *)
(***************************************************************************)
EXTENDS Completion, FiniteSetTheorems, TLAPS

USE DEF Threads, Goto

(* A new Downloader satisfies every part of the invariant.                  *)
LEMMA InitIInv == Init => IInv
<1> SUFFICES ASSUME Init PROVE IInv
  OBVIOUS
<1> USE DEF Init
<1>1. TypeOK
  <2>1. callbacks \in Seq(Registrars) /\ delivered \in Seq(Registrars)
    OBVIOUS
  <2>2. pc \in [Threads -> PCs]
    BY DEF PCs
  <2> QED
    BY <2>1, <2>2 DEF TypeOK
<1>2. RoleInv /\ WinnerInv /\ PushInv
  BY DEF RoleInv, WinnerInv, PushInv, Winning, Delivering
<1>3. MutexInv
  BY ThreadsAssumption DEF MutexInv
<1>4. DeliveryInv
  BY DEF DeliveryInv
<1>5. ListInv
  BY DEF ListInv, Accepted
<1> QED
  BY <1>1, <1>2, <1>3, <1>4, <1>5 DEF IInv

(* No step of any thread takes a variable out of its type.                  *)
LEMMA StepType == TypeOK /\ [Next]_vars => TypeOK'
<1> SUFFICES ASSUME TypeOK, [Next]_vars PROVE TypeOK'
  OBVIOUS
<1> USE DEF TypeOK, PCs
<1>1. CASE Start
  BY <1>1 DEF Start
<1>2. CASE Abandon
  BY <1>2 DEF Abandon
<1>3. ASSUME NEW c \in Completers, Complete(c)
      PROVE  TypeOK'
  <2>1. CASE CompleteEnter(c)
    BY <2>1 DEF CompleteEnter
  <2>2. CASE CompleteNotify(c)
    BY <2>2 DEF CompleteNotify
  <2>3. CASE InvokeLock(c)
    BY <2>3 DEF InvokeLock
  <2>4. CASE InvokeOne(c)
    BY <2>4 DEF InvokeOne
  <2>5. CASE InvokeUnlock(c)
    BY <2>5 DEF InvokeUnlock
  <2>6. CASE CompleteFinish(c)
    BY <2>6 DEF CompleteFinish
  <2> QED
    BY <1>3, <2>1, <2>2, <2>3, <2>4, <2>5, <2>6 DEF Complete
<1>4. ASSUME NEW r \in Registrars, Register(r)
      PROVE  TypeOK'
  <2>1. CASE RegisterLock(r)
    BY <2>1 DEF RegisterLock
  <2>2. CASE RegisterTest(r)
    BY <2>2 DEF RegisterTest
  <2>3. CASE RegisterPush(r)
    BY <2>3 DEF RegisterPush
  <2>4. CASE CancelDownload(r)
    BY <2>4 DEF CancelDownload
  <2> QED
    BY <1>4, <2>1, <2>2, <2>3, <2>4 DEF Register
<1>5. ASSUME NEW w \in Waiters, Wait(w) \/ SpuriousWakeup(w)
      PROVE  TypeOK'
  BY <1>5 DEF Wait, WaitTest, WaitSleep, WaitWake, Poll, SpuriousWakeup
<1>6. CASE UNCHANGED vars
  BY <1>6 DEF vars
<1> QED
  BY <1>1, <1>2, <1>3, <1>4, <1>5, <1>6 DEF Next

(* A step leaves a thread in the code of its own role: a completer in       *)
(* Complete, a registrar in RegisterCompletionCallback or CancelDownload.   *)
LEMMA StepRole == TypeOK /\ RoleInv /\ [Next]_vars => RoleInv'
<1> SUFFICES ASSUME TypeOK, RoleInv, [Next]_vars PROVE RoleInv'
  OBVIOUS
<1> USE ThreadsAssumption DEF TypeOK, RoleInv, Winning
<1>1. CASE Start \/ Abandon
  BY <1>1 DEF Start, Abandon
<1>2. ASSUME NEW c \in Completers, Complete(c)
      PROVE  RoleInv'
  BY <1>2 DEF Complete, CompleteEnter, CompleteNotify, InvokeLock, InvokeOne,
              InvokeUnlock, CompleteFinish
<1>3. ASSUME NEW r \in Registrars, Register(r)
      PROVE  RoleInv'
  BY <1>3 DEF Register, RegisterLock, RegisterTest, RegisterPush, CancelDownload
<1>4. ASSUME NEW w \in Waiters, Wait(w) \/ SpuriousWakeup(w)
      PROVE  RoleInv'
  BY <1>4 DEF Wait, WaitTest, WaitSleep, WaitWake, Poll, SpuriousWakeup
<1>5. CASE UNCHANGED vars
  BY <1>5 DEF vars
<1> QED
  BY <1>1, <1>2, <1>3, <1>4, <1>5 DEF Next

(* cbmutex stays with the one thread between its lock and its unlock.       *)
LEMMA StepMutex == TypeOK /\ RoleInv /\ MutexInv /\ [Next]_vars => MutexInv'
<1> SUFFICES ASSUME TypeOK, RoleInv, MutexInv, [Next]_vars PROVE MutexInv'
  OBVIOUS
<1> USE ThreadsAssumption DEF TypeOK, RoleInv, MutexInv, Winning
<1>1. CASE Start \/ Abandon
  BY <1>1 DEF Start, Abandon
<1>2. ASSUME NEW c \in Completers, Complete(c)
      PROVE  MutexInv'
  <2>1. CASE CompleteEnter(c)
    BY <2>1 DEF CompleteEnter
  <2>2. CASE CompleteNotify(c)
    BY <2>2 DEF CompleteNotify
  <2>3. CASE InvokeLock(c)
    BY <2>3 DEF InvokeLock
  <2>4. CASE InvokeOne(c)
    BY <2>4 DEF InvokeOne
  <2>5. CASE InvokeUnlock(c)
    BY <2>5 DEF InvokeUnlock
  <2>6. CASE CompleteFinish(c)
    BY <2>6 DEF CompleteFinish
  <2> QED
    BY <1>2, <2>1, <2>2, <2>3, <2>4, <2>5, <2>6 DEF Complete
<1>3. ASSUME NEW r \in Registrars, Register(r)
      PROVE  MutexInv'
  <2>1. CASE RegisterLock(r)
    BY <2>1 DEF RegisterLock
  <2>2. CASE RegisterTest(r)
    BY <2>2 DEF RegisterTest
  <2>3. CASE RegisterPush(r)
    BY <2>3 DEF RegisterPush
  <2>4. CASE CancelDownload(r)
    BY <2>4 DEF CancelDownload
  <2> QED
    BY <1>3, <2>1, <2>2, <2>3, <2>4 DEF Register
<1>4. ASSUME NEW w \in Waiters, Wait(w) \/ SpuriousWakeup(w)
      PROVE  MutexInv'
  BY <1>4 DEF Wait, WaitTest, WaitSleep, WaitWake, Poll, SpuriousWakeup
<1>5. CASE UNCHANGED vars
  BY <1>5 DEF vars
<1> QED
  BY <1>1, <1>2, <1>3, <1>4, <1>5 DEF Next

(* reapmutex lets one caller of Complete win, and only it moves reapstatus. *)
LEMMA StepWinner == TypeOK /\ RoleInv /\ WinnerInv /\ [Next]_vars => WinnerInv'
<1> SUFFICES ASSUME TypeOK, RoleInv, WinnerInv, [Next]_vars PROVE WinnerInv'
  OBVIOUS
<1> USE ThreadsAssumption DEF TypeOK, RoleInv, WinnerInv, Winning
<1>1. CASE Start \/ Abandon
  BY <1>1 DEF Start, Abandon
<1>2. ASSUME NEW c \in Completers, Complete(c)
      PROVE  WinnerInv'
  <2>1. CASE CompleteEnter(c)
    BY <2>1 DEF CompleteEnter
  <2>2. CASE CompleteNotify(c)
    BY <2>2 DEF CompleteNotify
  <2>3. CASE InvokeLock(c)
    BY <2>3 DEF InvokeLock
  <2>4. CASE InvokeOne(c)
    BY <2>4 DEF InvokeOne
  <2>5. CASE InvokeUnlock(c)
    BY <2>5 DEF InvokeUnlock
  <2>6. CASE CompleteFinish(c)
    BY <2>6 DEF CompleteFinish
  <2> QED
    BY <1>2, <2>1, <2>2, <2>3, <2>4, <2>5, <2>6 DEF Complete
<1>3. ASSUME NEW r \in Registrars, Register(r)
      PROVE  WinnerInv'
  <2>1. CASE RegisterLock(r)
    BY <2>1 DEF RegisterLock
  <2>2. CASE RegisterTest(r)
    BY <2>2 DEF RegisterTest
  <2>3. CASE RegisterPush(r)
    BY <2>3 DEF RegisterPush
  <2>4. CASE CancelDownload(r)
    BY <2>4 DEF CancelDownload
  <2> QED
    BY <1>3, <2>1, <2>2, <2>3, <2>4 DEF Register
<1>4. ASSUME NEW w \in Waiters, Wait(w) \/ SpuriousWakeup(w)
      PROVE  WinnerInv'
  BY <1>4 DEF Wait, WaitTest, WaitSleep, WaitWake, Poll, SpuriousWakeup
<1>5. CASE UNCHANGED vars
  BY <1>5 DEF vars
<1> QED
  BY <1>1, <1>2, <1>3, <1>4, <1>5 DEF Next

(* InvokeCallbacks calls the list in order and leaves no callback out.      *)
LEMMA StepDelivery ==
    TypeOK /\ RoleInv /\ MutexInv /\ WinnerInv /\ PushInv /\ DeliveryInv /\ [Next]_vars
        => DeliveryInv'
<1> SUFFICES ASSUME TypeOK, RoleInv, MutexInv, WinnerInv, PushInv, DeliveryInv, [Next]_vars
             PROVE  DeliveryInv'
  OBVIOUS
<1> USE ThreadsAssumption DEF TypeOK, RoleInv, MutexInv, WinnerInv, PushInv, DeliveryInv,
                              Winning, Delivering
<1>1. CASE Start \/ Abandon
  BY <1>1 DEF Start, Abandon
<1>2. ASSUME NEW c \in Completers, Complete(c)
      PROVE  DeliveryInv'
  <2>1. CASE CompleteEnter(c)
    BY <2>1 DEF CompleteEnter
  <2>2. CASE CompleteNotify(c)
    BY <2>2 DEF CompleteNotify
  <2>3. CASE InvokeLock(c)
    BY <2>3 DEF InvokeLock
  <2>4. CASE InvokeOne(c)
    BY <2>4 DEF InvokeOne
  <2>5. CASE InvokeUnlock(c)
    BY <2>5 DEF InvokeUnlock
  <2>6. CASE CompleteFinish(c)
    BY <2>6 DEF CompleteFinish
  <2> QED
    BY <1>2, <2>1, <2>2, <2>3, <2>4, <2>5, <2>6 DEF Complete
<1>3. ASSUME NEW r \in Registrars, Register(r)
      PROVE  DeliveryInv'
  <2>1. CASE RegisterLock(r)
    BY <2>1 DEF RegisterLock
  <2>2. CASE RegisterTest(r)
    BY <2>2 DEF RegisterTest
  <2>3. CASE RegisterPush(r)
    BY <2>3 DEF RegisterPush
  <2>4. CASE CancelDownload(r)
    BY <2>4 DEF CancelDownload
  <2> QED
    BY <1>3, <2>1, <2>2, <2>3, <2>4 DEF Register
<1>4. ASSUME NEW w \in Waiters, Wait(w) \/ SpuriousWakeup(w)
      PROVE  DeliveryInv'
  BY <1>4 DEF Wait, WaitTest, WaitSleep, WaitWake, Poll, SpuriousWakeup
<1>5. CASE UNCHANGED vars
  BY <1>5 DEF vars
<1> QED
  BY <1>1, <1>2, <1>3, <1>4, <1>5 DEF Next

(* A registrar that saw OK with cbmutex held pushes its callback before     *)
(* InvokeCallbacks can have the mutex.                                      *)
LEMMA StepPush ==
    TypeOK /\ RoleInv /\ MutexInv /\ WinnerInv /\ PushInv /\ [Next]_vars => PushInv'
<1> SUFFICES ASSUME TypeOK, RoleInv, MutexInv, WinnerInv, PushInv, [Next]_vars
             PROVE  PushInv'
  OBVIOUS
<1> USE ThreadsAssumption DEF TypeOK, RoleInv, MutexInv, WinnerInv, PushInv,
                              Winning, Delivering
<1>1. CASE Start \/ Abandon
  BY <1>1 DEF Start, Abandon
<1>2. ASSUME NEW c \in Completers, Complete(c)
      PROVE  PushInv'
  <2>1. CASE CompleteEnter(c)
    BY <2>1 DEF CompleteEnter
  <2>2. CASE CompleteNotify(c)
    BY <2>2 DEF CompleteNotify
  <2>3. CASE InvokeLock(c)
    BY <2>3 DEF InvokeLock
  <2>4. CASE InvokeOne(c)
    BY <2>4 DEF InvokeOne
  <2>5. CASE InvokeUnlock(c)
    BY <2>5 DEF InvokeUnlock
  <2>6. CASE CompleteFinish(c)
    BY <2>6 DEF CompleteFinish
  <2> QED
    BY <1>2, <2>1, <2>2, <2>3, <2>4, <2>5, <2>6 DEF Complete
<1>3. ASSUME NEW r \in Registrars, Register(r)
      PROVE  PushInv'
  <2>1. CASE RegisterLock(r)
    BY <2>1 DEF RegisterLock
  <2>2. CASE RegisterTest(r)
    BY <2>2 DEF RegisterTest
  <2>3. CASE RegisterPush(r)
    BY <2>3 DEF RegisterPush
  <2>4. CASE CancelDownload(r)
    BY <2>4 DEF CancelDownload
  <2> QED
    BY <1>3, <2>1, <2>2, <2>3, <2>4 DEF Register
<1>4. ASSUME NEW w \in Waiters, Wait(w) \/ SpuriousWakeup(w)
      PROVE  PushInv'
  BY <1>4 DEF Wait, WaitTest, WaitSleep, WaitWake, Poll, SpuriousWakeup
<1>5. CASE UNCHANGED vars
  BY <1>5 DEF vars
<1> QED
  BY <1>1, <1>2, <1>3, <1>4, <1>5 DEF Next

(* RegisterCompletionCallback puts an accepted payload on the list once.    *)
LEMMA StepList == TypeOK /\ RoleInv /\ ListInv /\ [Next]_vars => ListInv'
<1> SUFFICES ASSUME TypeOK, RoleInv, ListInv, [Next]_vars PROVE ListInv'
  OBVIOUS
<1> USE ThreadsAssumption DEF TypeOK, RoleInv, ListInv, Accepted, Winning
<1>1. CASE Start \/ Abandon
  BY <1>1 DEF Start, Abandon
<1>2. ASSUME NEW c \in Completers, Complete(c)
      PROVE  ListInv'
  <2>1. CASE CompleteEnter(c)
    BY <2>1 DEF CompleteEnter
  <2>2. CASE CompleteNotify(c)
    BY <2>2 DEF CompleteNotify
  <2>3. CASE InvokeLock(c)
    BY <2>3 DEF InvokeLock
  <2>4. CASE InvokeOne(c)
    BY <2>4 DEF InvokeOne
  <2>5. CASE InvokeUnlock(c)
    BY <2>5 DEF InvokeUnlock
  <2>6. CASE CompleteFinish(c)
    BY <2>6 DEF CompleteFinish
  <2> QED
    BY <1>2, <2>1, <2>2, <2>3, <2>4, <2>5, <2>6 DEF Complete
<1>3. ASSUME NEW r \in Registrars, Register(r)
      PROVE  ListInv'
  <2>1. CASE RegisterLock(r)
    BY <2>1 DEF RegisterLock
  <2>2. CASE RegisterTest(r)
    BY <2>2 DEF RegisterTest
  <2>3. CASE RegisterPush(r)
    BY <2>3 DEF RegisterPush
  <2>4. CASE CancelDownload(r)
    BY <2>4 DEF CancelDownload
  <2> QED
    BY <1>3, <2>1, <2>2, <2>3, <2>4 DEF Register
<1>4. ASSUME NEW w \in Waiters, Wait(w) \/ SpuriousWakeup(w)
      PROVE  ListInv'
  BY <1>4 DEF Wait, WaitTest, WaitSleep, WaitWake, Poll, SpuriousWakeup
<1>5. CASE UNCHANGED vars
  BY <1>5 DEF vars
<1> QED
  BY <1>1, <1>2, <1>3, <1>4, <1>5 DEF Next

-------------------------------------------------------------------------------
(* The inductive invariant holds of every behaviour of Downloader's threads, *)
(* whatever their number.                                                    *)
THEOREM Invariant == Spec => []IInv
<1>1. IInv /\ [Next]_vars => IInv'
  BY StepType, StepRole, StepMutex, StepWinner, StepDelivery, StepPush, StepList DEF IInv
<1> QED
  BY InitIInv, <1>1, PTL DEF Spec

(* Every variable of the protocol keeps its type.                            *)
THEOREM TypeCorrect == Spec => []TypeOK
<1>1. IInv => TypeOK
  BY DEF IInv
<1> QED
  BY Invariant, <1>1, PTL

(* In an object that may be deleted, the callbacks called are exactly the    *)
(* accepted ones, once each.                                                 *)
LEMMA ExactlyOnce == IInv => ReapAfterExactlyOneCall
<1> SUFFICES ASSUME IInv, reapstatus = "CALLDONE", NEW r \in Registrars
             PROVE  TimesDelivered(r) = IF Accepted(r) THEN 1 ELSE 0
  BY DEF ReapAfterExactlyOneCall
<1> DEFINE At == {i \in DOMAIN delivered : delivered[i] = r}
<1>1. TypeOK /\ WinnerInv /\ DeliveryInv /\ ListInv
  BY DEF IInv
<1>2. PICK c \in Completers : pc[c] = "done"
  BY <1>1 DEF WinnerInv
<1>3. Len(delivered) = Len(callbacks)
  BY <1>1, <1>2 DEF DeliveryInv
<1>4. /\ DOMAIN delivered = 1..Len(callbacks)
      /\ \A i \in 1..Len(callbacks) : delivered[i] = callbacks[i]
  BY <1>1, <1>3 DEF TypeOK, DeliveryInv
<1>5. CASE Accepted(r)
  <2>1. PICK i \in 1..Len(callbacks) : callbacks[i] = r
    BY <1>1, <1>5 DEF ListInv
  <2>2. At = {i}
    BY <1>1, <1>4, <2>1 DEF ListInv
  <2>3. Cardinality(At) = 1
    BY <2>2, FS_Singleton
  <2> QED
    BY <1>5, <2>3 DEF TimesDelivered
<1>6. CASE ~Accepted(r)
  <2>1. At = {}
    BY <1>1, <1>4, <1>6 DEF ListInv
  <2>2. Cardinality(At) = 0
    BY <2>1, FS_EmptySet
  <2> QED
    BY <1>6, <2>2 DEF TimesDelivered
<1> QED
  BY <1>5, <1>6

(* "CALLDONE - We have done our callbacks, reap is ok": the claim of         *)
(* Downloader.h:64, for any number of racing registrations and completers.   *)
THEOREM ReapIsSafe == Spec => []ReapAfterExactlyOneCall
  BY Invariant, ExactlyOnce, PTL

(* Once the object may be deleted, no thread is between the steps of         *)
(* Complete and cbmutex is not held by one that was.                         *)
THEOREM ReapIsQuiet == Spec => []QuiescentWhenReapable
<1>1. IInv => QuiescentWhenReapable
  <2> SUFFICES ASSUME IInv, reapstatus = "CALLDONE"
               PROVE  /\ cbmutex \notin Completers
                      /\ \A c \in Completers : pc[c] \in {"idle", "done", "late"}
    BY DEF QuiescentWhenReapable
  <2>1. PICK d \in Completers : pc[d] = "done"
    BY DEF IInv, WinnerInv
  <2>2. \A c \in Completers : pc[c] \in {"idle", "done", "late"}
    BY <2>1 DEF IInv, RoleInv, WinnerInv, Winning
  <2> QED
    BY <2>2 DEF IInv, MutexInv
<1> QED
  BY Invariant, <1>1, PTL

(* InvokeCallbacks iterates over a list nobody changes meanwhile.            *)
THEOREM ListIsStable == Spec => ListStableWhileCalling
<1> DEFINE Stable == (\E c \in Completers : pc[c] = "calling") => callbacks' = callbacks
<1>1. IInv /\ [Next]_vars => [Stable]_vars
  <2> SUFFICES ASSUME IInv, Next, NEW c \in Completers, pc[c] = "calling"
               PROVE  callbacks' = callbacks
    OBVIOUS
  <2>1. ASSUME NEW r \in Registrars, Register(r)
        PROVE  callbacks' = callbacks
    <3>1. pc[r] # "push"
      BY DEF IInv, PushInv, Delivering
    <3> QED
      BY <2>1, <3>1 DEF Register, RegisterLock, RegisterTest, RegisterPush, CancelDownload
  <2>2. ASSUME NEW d \in Completers, Complete(d)
        PROVE  callbacks' = callbacks
    BY <2>2 DEF Complete, CompleteEnter, CompleteNotify, InvokeLock, InvokeOne,
                InvokeUnlock, CompleteFinish
  <2>3. ASSUME NEW w \in Waiters, Wait(w) \/ SpuriousWakeup(w)
        PROVE  callbacks' = callbacks
    BY <2>3 DEF Wait, WaitTest, WaitSleep, WaitWake, Poll, SpuriousWakeup
  <2> QED
    BY <2>1, <2>2, <2>3 DEF Next, Start, Abandon
<1> QED
  BY Invariant, <1>1, PTL DEF Spec, ListStableWhileCalling

(* Some completer has passed Complete's one broadcast.                       *)
BroadcastGone == \E c \in Completers : pc[c] \in Winning \ {"notify"}

(* w tested before the broadcast and waits after it.                         *)
Stranded(w) == w \in sleeping /\ pc[w] = "asleep" /\ BroadcastGone

(* The hang behind WaitForCompletion is for good: nothing wakes a waiter that*)
(* missed the broadcast, whatever the other threads do, except a spurious    *)
(* wakeup.                                                                   *)
THEOREM MissedBroadcastIsFinal ==
  ASSUME NEW w \in Waiters
  PROVE  Spec /\ [][~SpuriousWakeup(w)]_vars => [](Stranded(w) => []Stranded(w))
<1>1. ASSUME IInv, Stranded(w), [Next]_vars, [~SpuriousWakeup(w)]_vars
      PROVE  Stranded(w)'
  <2> USE <1>1, ThreadsAssumption DEF IInv, TypeOK
  <2>1. PICK c \in Completers : pc[c] \in Winning \ {"notify"}
    BY DEF Stranded, BroadcastGone
  <2>2. ASSUME NEW d \in Completers, Complete(d)
        PROVE  Stranded(w)'
    <3>1. /\ sleeping' = sleeping /\ pc'[w] = pc[w]
          /\ pc'[c] \in Winning \ {"notify"}
      <4>1. ~CompleteNotify(d)
        BY <2>1 DEF CompleteNotify, WinnerInv, Winning
      <4> QED
        BY <2>1, <2>2, <4>1 DEF Complete, CompleteEnter, InvokeLock, InvokeOne,
             InvokeUnlock, CompleteFinish, Winning
    <3> QED
      BY <3>1 DEF Stranded, BroadcastGone
  <2>3. ASSUME NEW r \in Registrars, Register(r)
        PROVE  Stranded(w)'
    <3>1. sleeping' = sleeping /\ pc'[w] = pc[w] /\ pc'[c] = pc[c]
      BY <2>3 DEF Register, RegisterLock, RegisterTest, RegisterPush, CancelDownload
    <3> QED
      BY <2>1, <3>1 DEF Stranded, BroadcastGone
  <2>4. ASSUME NEW v \in Waiters, Wait(v) \/ SpuriousWakeup(v)
        PROVE  Stranded(w)'
    <3>1. w \in sleeping' /\ pc'[w] = "asleep" /\ pc'[c] = pc[c]
      BY <2>4 DEF Stranded, Wait, WaitTest, WaitSleep, WaitWake, Poll, SpuriousWakeup, vars
    <3> QED
      BY <2>1, <3>1 DEF Stranded, BroadcastGone
  <2>5. CASE Start \/ Abandon \/ UNCHANGED vars
    BY <2>5 DEF Start, Abandon, vars, Stranded, BroadcastGone
  <2> QED
    BY <2>2, <2>3, <2>4, <2>5 DEF Next
<1> QED
  BY Invariant, <1>1, PTL DEF Spec

(* ReapOK is read without a lock that its reader keeps, and then the object  *)
(* is deleted or the wait ends: what it said stays true.                     *)
THEOREM ReapableForGood == Spec => [](ReapOK => []ReapOK)
<1>1. ReapOK /\ [Next]_vars => ReapOK'
  BY DEF ReapOK, Next, vars, Start, Abandon, Complete, CompleteEnter, CompleteNotify,
       InvokeLock, InvokeOne, InvokeUnlock, CompleteFinish, Register, RegisterLock,
       RegisterTest, RegisterPush, CancelDownload, Wait, WaitTest, WaitSleep, WaitWake,
       Poll, SpuriousWakeup
<1> QED
  BY <1>1, PTL DEF Spec

-------------------------------------------------------------------------------
(* Refinement: each step of the Downloader's threads is a step of OneShot or *)
(* leaves its variables alone.                                               *)

(* A step of Complete is Trigger, StartDelivery, Deliver, Finish or nothing. *)
LEMMA CompleteRefines ==
  ASSUME IInv, NEW c \in Completers, Complete(c)
  PROVE  [OS!Next]_(OS!vars)
<1> USE ThreadsAssumption DEF IInv, TypeOK, RoleInv, WinnerInv, Winning
<1>1. Outcome' = Outcome
  <2>1. \A r \in Registrars : pc'[r] = pc[r]
    BY DEF Complete, CompleteEnter, CompleteNotify, InvokeLock, InvokeOne,
           InvokeUnlock, CompleteFinish
  <2> QED
    BY <2>1 DEF Outcome, Accepted
<1>2. CASE CompleteEnter(c)
  <2>1. CASE reapstatus = "OK"
    <3>1. Phase = "open"
      BY <2>1 DEF Phase
    <3>2. \A d \in Completers : pc'[d] \notin {"calling", "finish"}
      BY <1>2, <2>1 DEF CompleteEnter
    <3>3. Phase' = "closing"
      BY <1>2, <2>1, <3>2 DEF CompleteEnter, Phase
    <3> QED
      BY <1>1, <1>2, <2>1, <3>1, <3>3 DEF CompleteEnter, OS!Next, OS!Trigger
  <2>2. CASE reapstatus # "OK"
    <3>1. Phase' = Phase
      BY <1>2, <2>2 DEF CompleteEnter, Phase
    <3> QED
      BY <1>1, <1>2, <3>1 DEF CompleteEnter, OS!vars
  <2> QED
    BY <2>1, <2>2
<1>3. CASE CompleteNotify(c)
  <2>1. Phase' = Phase
    BY <1>3 DEF CompleteNotify, Phase
  <2> QED
    BY <1>1, <1>3, <2>1 DEF CompleteNotify, OS!vars
<1>4. CASE InvokeLock(c)
  <2>1. Phase = "closing"
    BY <1>4 DEF InvokeLock, Phase
  <2>2. Phase' = "delivering"
    BY <1>4 DEF InvokeLock, Phase
  <2> QED
    BY <1>1, <1>4, <2>1, <2>2 DEF InvokeLock, OS!Next, OS!StartDelivery
<1>5. CASE InvokeOne(c)
  <2>1. Phase = "delivering" /\ Phase' = "delivering"
    BY <1>5 DEF InvokeOne, Phase
  <2> QED
    BY <1>1, <1>5, <2>1 DEF InvokeOne, OS!Next, OS!Deliver
<1>6. CASE InvokeUnlock(c)
  <2>1. Phase = "delivering" /\ Phase' = "delivering"
    BY <1>6 DEF InvokeUnlock, Phase
  <2> QED
    BY <1>1, <1>6, <2>1 DEF InvokeUnlock, OS!vars
<1>7. CASE CompleteFinish(c)
  <2>1. Phase = "delivering" /\ Phase' = "done"
    BY <1>7 DEF CompleteFinish, Phase
  <2>2. Len(delivered) = Len(callbacks)
    BY <1>7 DEF CompleteFinish, DeliveryInv
  <2> QED
    BY <1>1, <1>7, <2>1, <2>2 DEF CompleteFinish, OS!Next, OS!Finish
<1> QED
  BY <1>2, <1>3, <1>4, <1>5, <1>6, <1>7 DEF Complete

(* A step of a registration is Accept, Refuse or nothing.                   *)
LEMMA RegisterRefines ==
  ASSUME IInv, NEW r \in Registrars, Register(r)
  PROVE  [OS!Next]_(OS!vars)
<1> USE ThreadsAssumption DEF IInv, TypeOK, RoleInv, WinnerInv, Winning
<1>1. Phase' = Phase
  <2>1. reapstatus' = reapstatus /\ \A c \in Completers : pc'[c] = pc[c]
    BY DEF Register, RegisterLock, RegisterTest, RegisterPush, CancelDownload
  <2> QED
    BY <2>1 DEF Phase
<1>2. CASE RegisterLock(r)
  <2>1. Outcome' = Outcome
    BY <1>2 DEF RegisterLock, Outcome, Accepted
  <2> QED
    BY <1>1, <1>2, <2>1 DEF RegisterLock, OS!vars
<1>3. CASE RegisterTest(r)
  <2>1. CASE reapstatus = "OK"
    <3>1. Outcome' = Outcome
      BY <1>3, <2>1 DEF RegisterTest, Outcome, Accepted
    <3> QED
      BY <1>1, <1>3, <3>1 DEF RegisterTest, OS!vars
  <2>2. CASE reapstatus # "OK"
    <3>1. Outcome[r] = "none" /\ Outcome' = [Outcome EXCEPT ![r] = "refused"]
      BY <1>3, <2>2 DEF RegisterTest, Outcome, Accepted
    <3>2. Phase # "open"
      BY <2>2 DEF Phase
    <3>3. OS!Refuse(r)
      BY <1>1, <1>3, <3>1, <3>2 DEF RegisterTest, OS!Refuse
    <3> QED
      BY <3>3 DEF OS!Next
  <2> QED
    BY <2>1, <2>2
<1>4. CASE RegisterPush(r)
  <2>1. Outcome[r] = "none" /\ Outcome' = [Outcome EXCEPT ![r] = "accepted"]
    BY <1>4 DEF RegisterPush, Outcome, Accepted
  <2>2. Phase \in {"open", "closing"}
    BY <1>4 DEF RegisterPush, PushInv, Delivering, Phase
  <2>3. OS!Accept(r)
    BY <1>1, <1>4, <2>1, <2>2 DEF RegisterPush, OS!Accept
  <2> QED
    BY <2>3 DEF OS!Next
<1>5. CASE CancelDownload(r)
  <2>1. Outcome' = Outcome
    BY <1>5 DEF CancelDownload, Outcome, Accepted
  <2> QED
    BY <1>1, <1>5, <2>1 DEF CancelDownload, OS!vars
<1> QED
  BY <1>2, <1>3, <1>4, <1>5 DEF Register

(* The Downloader is a one-shot event: whatever its threads do is allowed by *)
(* the abstract specification OneShot.                                       *)
THEOREM Refinement == Spec => ImplementsOneShot
<1>1. Init => OS!Init
  BY DEF Init, OS!Init, Phase, Outcome, Accepted
<1>2. IInv /\ [Next]_vars => [OS!Next]_(OS!vars)
  <2> SUFFICES ASSUME IInv, [Next]_vars PROVE [OS!Next]_(OS!vars)
    OBVIOUS
  <2> USE ThreadsAssumption DEF IInv, TypeOK
  <2>1. CASE Start \/ Abandon
    BY <2>1 DEF Start, Abandon, OS!vars, Phase, Outcome, Accepted
  <2>2. ASSUME NEW w \in Waiters, Wait(w) \/ SpuriousWakeup(w)
        PROVE  UNCHANGED OS!vars
    <3>1. \A t \in Completers \cup Registrars : pc'[t] = pc[t]
      BY <2>2 DEF Wait, WaitTest, WaitSleep, WaitWake, Poll, SpuriousWakeup
    <3>2. UNCHANGED <<reapstatus, callbacks, delivered>>
      BY <2>2 DEF Wait, WaitTest, WaitSleep, WaitWake, Poll, SpuriousWakeup
    <3> QED
      BY <3>1, <3>2 DEF OS!vars, Phase, Outcome, Accepted
  <2>3. CASE UNCHANGED vars
    BY <2>3 DEF vars, OS!vars, Phase, Outcome, Accepted
  <2> QED
    BY <2>1, <2>2, <2>3, CompleteRefines, RegisterRefines DEF Next
<1> QED
  BY Invariant, <1>1, <1>2, PTL DEF Spec, ImplementsOneShot, OS!Spec
===============================================================================
