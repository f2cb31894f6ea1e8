------------------------------ MODULE Completion ------------------------------
(***************************************************************************)
(* How one Downloader tells the rest of the daemon that it is finished:    *)
(* Complete, InvokeCallbacks, RegisterCompletionCallback,                  *)
(* WaitForCompletion, ReapOK and CancelDownload of                         *)
(* bubba-ftd/src/Downloader.cpp, run by any number of threads.             *)
(*                                                                         *)
(* The sections of code under reapmutex and under the condition's own lock *)
(* contain no other blocking call, so each is one step.  cbmutex is held   *)
(* across the callbacks and is modelled as a lock.  A Downloader's         *)
(* registrations all name one function (FtdApp::Remove is the only one in  *)
(* the daemon), so the map of lists is one list, and a payload is the      *)
(* thread that registered it.                                              *)
(***************************************************************************)
EXTENDS Naturals, Sequences, FiniteSets

CONSTANTS Completers,  \* threads that may call Complete: the transfer's own
                       \* thread, and for torrents also the deferred worker
          Registrars,  \* threads that register a callback, once each
          Waiters,     \* threads that call WaitForCompletion and then poll ReapOK
          NoThread     \* "the mutex is free"

ASSUME ThreadsAssumption ==
    /\ Completers \cap Registrars = {}
    /\ Completers \cap Waiters = {}
    /\ Registrars \cap Waiters = {}
    /\ NoThread \notin Completers \cup Registrars \cup Waiters

Threads == Completers \cup Registrars \cup Waiters

VARIABLES status,      \* "NOTSTARTED" or "QUEUED" (started, whatever came after)
          cancel,      \* the cancel flag
          reapstatus,  \* callbackstate: "OK", "CALLINPROGRESS" or "CALLDONE"
          cbmutex,     \* the thread that holds cbmutex, or NoThread
          callbacks,   \* the registered payloads, in order
          delivered,   \* the payloads whose callback has been called, in order
          sleeping,    \* threads inside completion.Wait()
          pc           \* where each thread is

vars == <<status, cancel, reapstatus, cbmutex, callbacks, delivered, sleeping, pc>>

PCs == {"idle",
        "notify", "lockcb", "calling", "finish", "done", "late",     \* Complete
        "test", "push", "accepted", "cancelled", "refused",          \* Register
        "committed", "asleep", "polling", "returned"}                \* Wait

Init == /\ status = "NOTSTARTED"
        /\ cancel = FALSE
        /\ reapstatus = "OK"
        /\ cbmutex = NoThread
        /\ callbacks = <<>>
        /\ delivered = <<>>
        /\ sleeping = {}
        /\ pc = [t \in Threads |-> "idle"]

Goto(t, l) == pc' = [pc EXCEPT ![t] = l]

ReapOK == reapstatus = "CALLDONE" \/ (status = "NOTSTARTED" /\ cancel)

-------------------------------------------------------------------------------
(* The owner of a new Downloader starts it, or gives it up.                  *)

Start == /\ status = "NOTSTARTED"
         /\ ~cancel
         /\ status' = "QUEUED"
         /\ UNCHANGED <<cancel, reapstatus, cbmutex, callbacks, delivered, sleeping, pc>>

Abandon == /\ status = "NOTSTARTED"
           /\ ~cancel
           /\ cancel' = TRUE
           /\ UNCHANGED <<status, reapstatus, cbmutex, callbacks, delivered, sleeping, pc>>

-------------------------------------------------------------------------------
(* Complete and InvokeCallbacks.                                             *)

\* Complete that lets a second caller in as well.
CompleteEnterTwice(c) ==
    /\ pc[c] = "idle"
    /\ status # "NOTSTARTED"
    /\ Goto(c, "notify")
    /\ reapstatus' = "CALLINPROGRESS"
    /\ UNCHANGED <<status, cancel, cbmutex, callbacks, delivered, sleeping>>

CompleteEnter(c) ==
    /\ pc[c] = "idle"
    /\ status # "NOTSTARTED"
    /\ \/ /\ reapstatus = "OK"
          /\ reapstatus' = "CALLINPROGRESS"
          /\ Goto(c, "notify")
       \/ /\ reapstatus # "OK"     \* "Complete download called more than once"
          /\ Goto(c, "late")
          /\ UNCHANGED reapstatus
    /\ UNCHANGED <<status, cancel, cbmutex, callbacks, delivered, sleeping>>

\* Complete without the NotifyAll.
CompleteForgetsWaiters(c) ==
    /\ pc[c] = "notify"
    /\ Goto(c, "lockcb")
    /\ UNCHANGED <<status, cancel, reapstatus, cbmutex, callbacks, delivered, sleeping>>

CompleteNotify(c) ==
    /\ pc[c] = "notify"
    /\ sleeping' = {}
    /\ Goto(c, "lockcb")
    /\ UNCHANGED <<status, cancel, reapstatus, cbmutex, callbacks, delivered>>

InvokeLock(c) ==
    /\ pc[c] = "lockcb"
    /\ cbmutex = NoThread
    /\ cbmutex' = c
    /\ Goto(c, "calling")
    /\ UNCHANGED <<status, cancel, reapstatus, callbacks, delivered, sleeping>>

InvokeOne(c) ==
    /\ pc[c] = "calling"
    /\ Len(delivered) < Len(callbacks)
    /\ delivered' = Append(delivered, callbacks[Len(delivered) + 1])
    /\ UNCHANGED <<status, cancel, reapstatus, cbmutex, callbacks, sleeping, pc>>

\* InvokeCallbacks that stops one callback early.
InvokeUnlockEarly(c) ==
    /\ pc[c] = "calling"
    /\ Len(delivered) + 1 >= Len(callbacks)
    /\ cbmutex' = NoThread
    /\ Goto(c, "finish")
    /\ UNCHANGED <<status, cancel, reapstatus, callbacks, delivered, sleeping>>

InvokeUnlock(c) ==
    /\ pc[c] = "calling"
    /\ Len(delivered) = Len(callbacks)
    /\ cbmutex' = NoThread
    /\ Goto(c, "finish")
    /\ UNCHANGED <<status, cancel, reapstatus, callbacks, delivered, sleeping>>

CompleteFinish(c) ==
    /\ pc[c] = "finish"
    /\ reapstatus' = "CALLDONE"
    /\ Goto(c, "done")
    /\ UNCHANGED <<status, cancel, cbmutex, callbacks, delivered, sleeping>>

Complete(c) ==
    \/ CompleteEnter(c) \/ CompleteNotify(c)
    \/ InvokeLock(c) \/ InvokeOne(c) \/ InvokeUnlock(c)
    \/ CompleteFinish(c)

-------------------------------------------------------------------------------
(* RegisterCompletionCallback, and the CancelDownload that follows it when   *)
(* the registration was accepted (FtdApp::CancelDownload).  Callers hold a   *)
(* download that has been started.                                           *)

RegisterLock(r) ==
    /\ pc[r] = "idle"
    /\ status # "NOTSTARTED"
    /\ cbmutex = NoThread
    /\ cbmutex' = r
    /\ Goto(r, "test")
    /\ UNCHANGED <<status, cancel, reapstatus, callbacks, delivered, sleeping>>

\* RegisterCompletionCallback that forgets to look at reapstatus.
RegisterAlwaysAccepts(r) ==
    /\ pc[r] = "test"
    /\ Goto(r, "push")
    /\ UNCHANGED <<status, cancel, reapstatus, cbmutex, callbacks, delivered, sleeping>>

\* reapstatus is read without reapmutex: only cbmutex orders this test with
\* InvokeCallbacks.
RegisterTest(r) ==
    /\ pc[r] = "test"
    /\ \/ /\ reapstatus = "OK"
          /\ Goto(r, "push")
          /\ UNCHANGED cbmutex
       \/ /\ reapstatus # "OK"
          /\ Goto(r, "refused")
          /\ cbmutex' = NoThread
    /\ UNCHANGED <<status, cancel, reapstatus, callbacks, delivered, sleeping>>

RegisterPush(r) ==
    /\ pc[r] = "push"
    /\ callbacks' = Append(callbacks, r)
    /\ cbmutex' = NoThread
    /\ Goto(r, "accepted")
    /\ UNCHANGED <<status, cancel, reapstatus, delivered, sleeping>>

CancelDownload(r) ==
    /\ pc[r] = "accepted"
    /\ cancel' = TRUE
    /\ Goto(r, "cancelled")
    /\ UNCHANGED <<status, reapstatus, cbmutex, callbacks, delivered, sleeping>>

Register(r) ==
    RegisterLock(r) \/ RegisterTest(r) \/ RegisterPush(r) \/ CancelDownload(r)

-------------------------------------------------------------------------------
(* WaitForCompletion, and its caller's loop on ReapOK.                       *)

WaitTest(w) ==
    /\ pc[w] = "idle"
    /\ Goto(w, IF ReapOK THEN "polling" ELSE "committed")
    /\ UNCHANGED <<status, cancel, reapstatus, cbmutex, callbacks, delivered, sleeping>>

\* Between the test and this step the NotifyAll of Complete may go by.
WaitSleep(w) ==
    /\ pc[w] = "committed"
    /\ sleeping' = sleeping \cup {w}
    /\ Goto(w, "asleep")
    /\ UNCHANGED <<status, cancel, reapstatus, cbmutex, callbacks, delivered>>

WaitWake(w) ==
    /\ pc[w] = "asleep"
    /\ w \notin sleeping
    /\ Goto(w, "polling")
    /\ UNCHANGED <<status, cancel, reapstatus, cbmutex, callbacks, delivered, sleeping>>

\* pthread_cond_wait may return although nobody notified.
SpuriousWakeup(w) ==
    /\ w \in sleeping
    /\ sleeping' = sleeping \ {w}
    /\ UNCHANGED <<status, cancel, reapstatus, cbmutex, callbacks, delivered, pc>>

Poll(w) ==
    /\ pc[w] = "polling"
    /\ ReapOK
    /\ Goto(w, "returned")
    /\ UNCHANGED <<status, cancel, reapstatus, cbmutex, callbacks, delivered, sleeping>>

Wait(w) == WaitTest(w) \/ WaitSleep(w) \/ WaitWake(w) \/ Poll(w)

-------------------------------------------------------------------------------
Next == \/ Start \/ Abandon
        \/ \E c \in Completers : Complete(c)
        \/ \E r \in Registrars : Register(r)
        \/ \E w \in Waiters : Wait(w) \/ SpuriousWakeup(w)

Spec == Init /\ [][Next]_vars

(* Every thread that can take a step eventually does: the daemon's threads   *)
(* are ordinary kernel threads, and a started transfer ends (its curl call   *)
(* returns) and calls Complete.  Nothing makes the owner start a download    *)
(* and nothing makes a spurious wakeup happen.                               *)
Fairness == /\ \A c \in Completers : WF_vars(Complete(c))
            /\ \A r \in Registrars : WF_vars(Register(r))
            /\ \A w \in Waiters : WF_vars(Wait(w))

FairSpec == Spec /\ Fairness

-------------------------------------------------------------------------------
TypeOK == /\ status \in {"NOTSTARTED", "QUEUED"}
          /\ cancel \in BOOLEAN
          /\ reapstatus \in {"OK", "CALLINPROGRESS", "CALLDONE"}
          /\ cbmutex \in Threads \cup {NoThread}
          /\ callbacks \in Seq(Registrars)
          /\ delivered \in Seq(Registrars)
          /\ sleeping \in SUBSET Waiters
          /\ pc \in [Threads -> PCs]

Accepted(r) == pc[r] \in {"accepted", "cancelled"}

TimesDelivered(r) == Cardinality({i \in DOMAIN delivered : delivered[i] = r})

(* "CALLDONE - We have done our callbacks, reap is ok" (Downloader.h:64):    *)
(* once the object may be deleted, every accepted callback was called        *)
(* exactly once and no refused one was called, however the registrations     *)
(* raced with Complete.                                                      *)
ReapAfterExactlyOneCall ==
    reapstatus = "CALLDONE" =>
        \A r \in Registrars : TimesDelivered(r) = IF Accepted(r) THEN 1 ELSE 0

(* When reapstatus lets the object be deleted, the thread that ran Complete  *)
(* is out of it: no callback is running, and neither cbmutex nor a           *)
(* condition of the object is still going to be used by a completer.         *)
QuiescentWhenReapable ==
    reapstatus = "CALLDONE" =>
        /\ cbmutex \notin Completers
        /\ \A c \in Completers : pc[c] \in {"idle", "done", "late"}

(* A payload is never pushed on the list while the list is being called:     *)
(* InvokeCallbacks iterates over it.                                         *)
ListStableWhileCalling ==
    [][(\E c \in Completers : pc[c] = "calling") => callbacks' = callbacks]_vars

(* An accepted callback is eventually called: the cancel that registered it  *)
(* leads to the download's removal.                                          *)
AcceptedIsCalled ==
    \A r \in Registrars : Accepted(r) ~> (\E i \in DOMAIN delivered : delivered[i] = r)

(* A thread asleep in WaitForCompletion before Complete notifies gets out    *)
(* of it, and out of its polling loop too, once the download completes.      *)
SleeperReturns ==
    \A w \in Waiters :
        (w \in sleeping /\ reapstatus = "OK" /\ status = "QUEUED") ~> pc[w] = "returned"

(* "Block and wait for this download to complete" (Downloader.h:260): a call *)
(* of WaitForCompletion on a started download returns.                       *)
WaitForCompletionReturns ==
    \A w \in Waiters :
        (status = "QUEUED" /\ pc[w] # "idle") ~> pc[w] = "returned"

-------------------------------------------------------------------------------
(* The inductive invariant behind the safety properties.                     *)

(* A completer that won the test of reapstatus, and one past cbmutex.        *)
Winning == {"notify", "lockcb", "calling", "finish", "done"}
Delivering == {"calling", "finish", "done"}

(* Each thread runs the code of its own role.                                *)
RoleInv ==
    /\ \A c \in Completers : pc[c] \in {"idle", "late"} \cup Winning
    /\ \A r \in Registrars : pc[r] \in {"idle", "test", "push", "accepted",
                                        "cancelled", "refused"}

(* cbmutex is held by exactly the thread that is between lock and unlock.    *)
MutexInv ==
    /\ \A c \in Completers : pc[c] = "calling" <=> cbmutex = c
    /\ \A r \in Registrars : pc[r] \in {"test", "push"} <=> cbmutex = r

(* One completer at most wins, and reapstatus says how far it is.            *)
WinnerInv ==
    /\ \A c, d \in Completers : pc[c] \in Winning /\ pc[d] \in Winning => c = d
    /\ \A c \in Completers : pc[c] # "idle" => reapstatus # "OK"
    /\ \A c \in Completers : pc[c] = "done" => reapstatus = "CALLDONE"
    /\ reapstatus = "CALLDONE" => \E c \in Completers : pc[c] = "done"

(* The callbacks called so far are the first ones of the list, and all of    *)
(* them once InvokeCallbacks has returned.                                   *)
DeliveryInv ==
    /\ Len(delivered) <= Len(callbacks)
    /\ \A i \in 1..Len(delivered) : delivered[i] = callbacks[i]
    /\ (\A c \in Completers : pc[c] \notin Delivering) => delivered = <<>>
    /\ \A c \in Completers : pc[c] \in {"finish", "done"} => Len(delivered) = Len(callbacks)

(* A registrar that has seen OK under cbmutex is ahead of InvokeCallbacks.   *)
PushInv ==
    \A r \in Registrars : pc[r] = "push" =>
        \A c \in Completers : pc[c] \notin Delivering

(* The list holds the accepted registrars, once each.                        *)
ListInv ==
    /\ \A r \in Registrars : Accepted(r) <=> \E i \in 1..Len(callbacks) : callbacks[i] = r
    /\ \A i, j \in 1..Len(callbacks) : callbacks[i] = callbacks[j] => i = j

(* What every step of Next preserves; it implies the safety properties above *)
(* (CompletionProofs).                                                       *)
IInv == /\ TypeOK
        /\ RoleInv
        /\ MutexInv
        /\ WinnerInv
        /\ DeliveryInv
        /\ PushInv
        /\ ListInv

-------------------------------------------------------------------------------
(* The Downloader implements the one-shot event.                             *)

Phase == IF reapstatus = "OK" THEN "open"
         ELSE IF reapstatus = "CALLDONE" THEN "done"
         ELSE IF \E c \in Completers : pc[c] \in {"calling", "finish"} THEN "delivering"
         ELSE "closing"

Outcome == [r \in Registrars |-> IF Accepted(r) THEN "accepted"
                                 ELSE IF pc[r] = "refused" THEN "refused"
                                 ELSE "none"]

OS == INSTANCE OneShot WITH Subscribers <- Registrars, phase <- Phase,
                            outcome <- Outcome, accepted <- callbacks,
                            delivered <- delivered

(* Seen from outside, the Downloader is the one-shot event of OneShot.       *)
ImplementsOneShot == OS!Spec
===============================================================================
