------------------------------ MODULE WorkQueue ------------------------------
(***************************************************************************)
(* What AsyncWorker promises (libeutils/AsyncWorker.h): a queue of work    *)
(* that one worker consumes from the front, one element at a time.  An     *)
(* element is added at one of the ends, is then either done or dropped,    *)
(* and both happen at most once; only emptying the queue or destroying the *)
(* worker drops anything.                                                  *)
(***************************************************************************)
EXTENDS Naturals, Sequences

CONSTANTS Work,     \* the elements that may be added
          Nothing   \* "the worker has no element"

VARIABLES waiting,  \* the queue
          taken,    \* the element the worker has in its hands, or Nothing
          done,     \* what was processed, in order
          dropped   \* what was thrown away

vars == <<waiting, taken, done, dropped>>

Known == {waiting[k] : k \in 1..Len(waiting)} \cup {taken}
           \cup {done[k] : k \in 1..Len(done)} \cup dropped

Init == waiting = <<>> /\ taken = Nothing /\ done = <<>> /\ dropped = {}

Add(x) == /\ x \notin Known
          /\ waiting' \in {Append(waiting, x), <<x>> \o waiting}
          /\ UNCHANGED <<taken, done, dropped>>

Take == /\ waiting # <<>>
        /\ taken = Nothing
        /\ taken' = Head(waiting)
        /\ waiting' = Tail(waiting)
        /\ UNCHANGED <<done, dropped>>

Do == /\ taken # Nothing
      /\ done' = Append(done, taken)
      /\ taken' = Nothing
      /\ UNCHANGED <<waiting, dropped>>

DropTaken == /\ taken # Nothing
             /\ dropped' = dropped \cup {taken}
             /\ taken' = Nothing
             /\ UNCHANGED <<waiting, done>>

DropAll == /\ dropped' = dropped \cup {waiting[k] : k \in 1..Len(waiting)}
           /\ waiting' = <<>>
           /\ UNCHANGED <<taken, done>>

Next == \/ \E x \in Work : Add(x)
        \/ Take \/ Do \/ DropTaken \/ DropAll

Spec == Init /\ [][Next]_vars
==============================================================================
