----------------------------- MODULE AsyncWorker -----------------------------
(***************************************************************************)
(* The daemon's deferred work: DeferredWork on AsyncWorker (libeutils), a  *)
(* list guarded by listlock, a condition that tells the worker thread of   *)
(* new data, and the worker thread itself.                                 *)
(*                                                                         *)
(* Every section under listlock or under the condition's lock is one step: *)
(* none of them calls anything that blocks.  Adding an element is two      *)
(* steps, the push and the notify, and so is waiting for one: the test of  *)
(* Size() and the wait itself.                                             *)
(***************************************************************************)
EXTENDS Naturals, Sequences, FiniteSets

CONSTANTS Items,   \* the work units; each is added once, by its own thread
          Urgent,  \* those added with AddFirst instead of AddLast
          None     \* the worker has no unit

ASSUME ItemsAssumption == None \notin Items /\ Urgent \subseteq Items

VARIABLES queue,      \* write_buffer
          sleeping,   \* the worker is inside data_available.Wait()
          running,    \* the flag tested by Run
          worker,     \* where the worker is in Run
          current,    \* the unit it got, or None
          adder,      \* where the adding of each unit is
          destructor, \* where the destructor is
          processed,  \* the units whose function was called, in order
          dropped     \* the units that were freed without being called

vars == <<queue, sleeping, running, worker, current, adder, destructor,
          processed, dropped>>

Init == /\ queue = <<>>
        /\ sleeping = FALSE
        /\ running = TRUE
        /\ worker = "check"
        /\ current = None
        /\ adder = [i \in Items |-> "new"]
        /\ destructor = "alive"
        /\ processed = <<>>
        /\ dropped = {}

Elements(s) == {s[k] : k \in 1..Len(s)}

-------------------------------------------------------------------------------
(* AddLast, AddFirst and NotifyWorker.                                       *)

\* AddFirst that overwrites the unit at the front.
PushOver(i) ==
    /\ adder[i] = "new"
    /\ queue' = IF i \in Urgent /\ queue # <<>> THEN <<i>> \o Tail(queue)
                ELSE Append(queue, i)
    /\ adder' = [adder EXCEPT ![i] = "pushed"]
    /\ UNCHANGED <<sleeping, running, worker, current, destructor, processed, dropped>>

Push(i) ==
    /\ adder[i] = "new"
    /\ queue' = IF i \in Urgent THEN <<i>> \o queue ELSE Append(queue, i)
    /\ adder' = [adder EXCEPT ![i] = "pushed"]
    /\ UNCHANGED <<sleeping, running, worker, current, destructor, processed, dropped>>

\* Adding a unit without notifying the worker.
NotifyNobody(i) ==
    /\ adder[i] = "pushed"
    /\ adder' = [adder EXCEPT ![i] = "added"]
    /\ UNCHANGED <<queue, sleeping, running, worker, current, destructor, processed, dropped>>

Notify(i) ==
    /\ adder[i] = "pushed"
    /\ sleeping' = FALSE
    /\ adder' = [adder EXCEPT ![i] = "added"]
    /\ UNCHANGED <<queue, running, worker, current, destructor, processed, dropped>>

-------------------------------------------------------------------------------
(* Run, on the worker thread.                                                *)

CheckRunning ==
    /\ worker = "check"
    /\ worker' = IF running THEN "test" ELSE "exited"
    /\ UNCHANGED <<queue, sleeping, running, current, adder, destructor, processed, dropped>>

TestSize ==
    /\ worker = "test"
    /\ worker' = IF queue = <<>> THEN "commit" ELSE "get"
    /\ UNCHANGED <<queue, sleeping, running, current, adder, destructor, processed, dropped>>

\* A push and its notify may both go by between TestSize and this step.
Sleep ==
    /\ worker = "commit"
    /\ worker' = "asleep"
    /\ sleeping' = TRUE
    /\ UNCHANGED <<queue, running, current, adder, destructor, processed, dropped>>

Wake ==
    /\ worker = "asleep"
    /\ ~sleeping
    /\ worker' = "get"
    /\ UNCHANGED <<queue, sleeping, running, current, adder, destructor, processed, dropped>>

\* pthread_cond_wait may return although nobody notified.
SpuriousWakeup ==
    /\ sleeping
    /\ sleeping' = FALSE
    /\ UNCHANGED <<queue, running, worker, current, adder, destructor, processed, dropped>>

\* Get that leaves the unit in the list.
GetWithoutPop ==
    /\ worker = "get"
    /\ IF queue = <<>>
       THEN worker' = "check" /\ UNCHANGED <<queue, current>>
       ELSE worker' = "process" /\ current' = Head(queue) /\ UNCHANGED queue
    /\ UNCHANGED <<sleeping, running, adder, destructor, processed, dropped>>

\* Get that is off by one and never takes the last unit.
GetNotLast ==
    /\ worker = "get"
    /\ IF Len(queue) <= 1
       THEN worker' = "check" /\ UNCHANGED <<queue, current>>
       ELSE worker' = "process" /\ current' = Head(queue) /\ queue' = Tail(queue)
    /\ UNCHANGED <<sleeping, running, adder, destructor, processed, dropped>>

Get ==
    /\ worker = "get"
    /\ IF queue = <<>>
       THEN worker' = "check" /\ UNCHANGED <<queue, current>>
       ELSE worker' = "process" /\ current' = Head(queue) /\ queue' = Tail(queue)
    /\ UNCHANGED <<sleeping, running, adder, destructor, processed, dropped>>

\* Once ~DeferredWork has run, ProcessElem is the base class's, which only
\* prints; the unit is freed all the same.
Process ==
    /\ worker = "process"
    /\ IF destructor = "alive"
       THEN processed' = Append(processed, current) /\ UNCHANGED dropped
       ELSE dropped' = dropped \cup {current} /\ UNCHANGED processed
    /\ current' = None
    /\ worker' = "get"
    /\ UNCHANGED <<queue, sleeping, running, adder, destructor>>

Worker == CheckRunning \/ TestSize \/ Sleep \/ Wake \/ Get \/ Process

-------------------------------------------------------------------------------
(* ~DeferredWork, then ~AsyncWorker: Flush, running=false, Cancel.           *)

DestroyDerived ==
    /\ destructor = "alive"
    /\ destructor' = "flush"
    /\ UNCHANGED <<queue, sleeping, running, worker, current, adder, processed, dropped>>

Flush ==
    /\ destructor = "flush"
    /\ dropped' = dropped \cup Elements(queue)
    /\ queue' = <<>>
    /\ destructor' = "stop"
    /\ UNCHANGED <<sleeping, running, worker, current, adder, processed>>

StopRunning ==
    /\ destructor = "stop"
    /\ running' = FALSE
    /\ destructor' = "cancel"
    /\ UNCHANGED <<queue, sleeping, worker, current, adder, processed, dropped>>

\* SIGALRM runs its handler on the worker thread; pthread_cond_wait then
\* resumes waiting.
Cancel ==
    /\ destructor = "cancel"
    /\ destructor' = "gone"
    /\ UNCHANGED <<queue, sleeping, running, worker, current, adder, processed, dropped>>

Destructor == DestroyDerived \/ Flush \/ StopRunning \/ Cancel

-------------------------------------------------------------------------------
Next == \/ \E i \in Items : Push(i) \/ Notify(i)
        \/ Worker \/ SpuriousWakeup
        \/ Destructor

Spec == Init /\ [][Next]_vars

(* Threads that can run do run, and a deferred function returns.  Nobody has *)
(* to add a unit, or to destroy the worker, and no wakeup comes for free.    *)
Fairness == /\ WF_vars(Worker)
            /\ \A i \in Items : WF_vars(Notify(i))
            /\ WF_vars(Flush \/ StopRunning \/ Cancel)

FairSpec == Spec /\ Fairness

-------------------------------------------------------------------------------
TypeOK == /\ queue \in Seq(Items)
          /\ sleeping \in BOOLEAN
          /\ running \in BOOLEAN
          /\ worker \in {"check", "test", "commit", "asleep", "get", "process", "exited"}
          /\ current \in Items \cup {None}
          /\ adder \in [Items -> {"new", "pushed", "added"}]
          /\ destructor \in {"alive", "flush", "stop", "cancel", "gone"}
          /\ processed \in Seq(Items)
          /\ dropped \in SUBSET Items

Injective(s) == \A j, k \in 1..Len(s) : s[j] = s[k] => j = k

(* A unit is in one place only: not added yet, in the queue, in the worker's *)
(* hands (while it processes it), processed (once) or dropped.  A second     *)
(* call of a deferred removal would use a deleted download, a lost one would *)
(* leave it for ever.                                                        *)
OnePlace ==
    /\ (worker = "process") <=> (current # None)
    /\ Injective(queue) /\ Injective(processed)
    /\ Elements(queue) \cap Elements(processed) = {}
    /\ dropped \cap (Elements(queue) \cup Elements(processed)) = {}
    /\ current \notin Elements(queue) \cup Elements(processed) \cup dropped
    /\ \A i \in Items :
           adder[i] = "new" <=>
               i \notin Elements(queue) \cup Elements(processed) \cup dropped \cup {current}

(* What every step of Next preserves (AsyncWorkerProofs).                    *)
IInv == TypeOK /\ OnePlace

WQ == INSTANCE WorkQueue WITH Work <- Items, Nothing <- None, waiting <- queue,
                              taken <- current, done <- processed

(* The list, its lock and the worker thread together are the queue of        *)
(* WorkQueue: in order, one at a time, each unit at most once.               *)
ImplementsWorkQueue == WQ!Spec

Gone(i) == i \in Elements(processed) \cup dropped

(* A unit left behind by a lost wakeup is not lost for good: as soon as      *)
(* another unit is added while the worker sleeps, everything queued is done. *)
NextNotifyRecovers ==
    \A i \in Items :
        (sleeping /\ i \in Elements(queue) /\ \E j \in Items : adder[j] = "pushed") ~> Gone(i)

(* A unit the worker meets on its way through the list is processed without  *)
(* any further notify.                                                       *)
AwakeWorkerDrains ==
    \A i \in Items : (worker \in {"get", "process"} /\ i \in Elements(queue)) ~> Gone(i)

(* "Application adds work to a queue which the worker thread consumes        *)
(* entries and processes those" (AsyncWorker.h:59): a unit that was added    *)
(* is processed, or dropped by the destructor.                               *)
AddedIsProcessed == \A i \in Items : adder[i] = "added" ~> Gone(i)
==============================================================================
