-------------------------- MODULE AsyncWorkerProofs --------------------------
(***************************************************************************)
(* Proofs about AsyncWorker, for any set of work units and any choice of   *)
(* the urgent ones: type correctness, that a unit is in one place only,    *)
(* that one the worker forgot comes back only by being added, and that the *)
(* list with its worker implements the queue of WorkQueue.                 *)
(***************************************************************************)
EXTENDS AsyncWorker, SequenceTheorems, TLAPS

(* What the list operations of AddLast, AddFirst and Get do to the set of    *)
(* elements of a list without repetitions.                                   *)

(* push_back adds one element and keeps a list free of repetitions so.      *)
LEMMA AppendElements ==
  ASSUME NEW S, NEW s \in Seq(S), NEW x \in S
  PROVE  /\ Append(s, x) \in Seq(S)
         /\ Elements(Append(s, x)) = Elements(s) \cup {x}
         /\ Injective(s) /\ x \notin Elements(s) => Injective(Append(s, x))
  BY DEF Elements, Injective

(* push_front does, too.                                                    *)
LEMMA PrependElements ==
  ASSUME NEW S, NEW s \in Seq(S), NEW x \in S
  PROVE  /\ <<x>> \o s \in Seq(S)
         /\ Elements(<<x>> \o s) = Elements(s) \cup {x}
         /\ Injective(s) /\ x \notin Elements(s) => Injective(<<x>> \o s)
<1> DEFINE t == <<x>> \o s
<1>1. /\ t \in Seq(S)
      /\ Len(t) = Len(s) + 1
      /\ t[1] = x
      /\ \A k \in 1..Len(s) : t[k + 1] = s[k]
  OBVIOUS
<1>2. \A k \in 1..Len(t) : k = 1 \/ (k - 1 \in 1..Len(s) /\ t[k] = s[k - 1])
  BY <1>1
<1>3. Elements(t) = Elements(s) \cup {x}
  <2>1. ASSUME NEW k \in 1..Len(t)
        PROVE  t[k] \in Elements(s) \cup {x}
    <3>1. CASE k = 1
      BY <1>1, <3>1
    <3>2. CASE k - 1 \in 1..Len(s) /\ t[k] = s[k - 1]
      BY <3>2 DEF Elements
    <3> QED
      BY <1>2, <2>1, <3>1, <3>2
  <2>2. ASSUME NEW k \in 1..Len(s)
        PROVE  s[k] \in Elements(t)
    <3>1. k + 1 \in 1..Len(t) /\ t[k + 1] = s[k]
      BY <1>1
    <3> HIDE DEF t
    <3> QED
      BY <3>1 DEF Elements
  <2>3. x \in Elements(t)
    <3>1. 1 \in 1..Len(t)
      BY <1>1
    <3> HIDE DEF t
    <3> QED
      BY <1>1, <3>1 DEF Elements
  <2> QED
    BY <2>1, <2>2, <2>3 DEF Elements
<1>4. ASSUME Injective(s), x \notin Elements(s) PROVE Injective(t)
  BY <1>1, <1>2, <1>4 DEF Injective, Elements
<1> QED
  BY <1>1, <1>3, <1>4

(* pop_front takes away the first element and nothing else.                 *)
LEMMA TailElements ==
  ASSUME NEW S, NEW s \in Seq(S), s # <<>>
  PROVE  /\ Tail(s) \in Seq(S)
         /\ Head(s) \in Elements(s)
         /\ Injective(s) => /\ Elements(Tail(s)) = Elements(s) \ {Head(s)}
                            /\ Injective(Tail(s))
<1>1. /\ Tail(s) \in Seq(S)
      /\ Len(s) >= 1
      /\ Len(Tail(s)) = Len(s) - 1
      /\ \A k \in 1..Len(s) - 1 : Tail(s)[k] = s[k + 1]
      /\ Head(s) = s[1]
  OBVIOUS
<1>2. Head(s) \in Elements(s)
  BY <1>1 DEF Elements
<1>3. ASSUME Injective(s)
      PROVE  Elements(Tail(s)) = Elements(s) \ {Head(s)} /\ Injective(Tail(s))
  <2>1. Elements(Tail(s)) \subseteq Elements(s) \ {Head(s)}
    BY <1>1, <1>3 DEF Elements, Injective
  <2>2. ASSUME NEW k \in 1..Len(s), s[k] # Head(s)
        PROVE  s[k] \in Elements(Tail(s))
    <3>1. k - 1 \in 1..Len(Tail(s)) /\ Tail(s)[k - 1] = s[k]
      BY <1>1, <2>2
    <3> QED
      BY <3>1 DEF Elements
  <2>3. Injective(Tail(s))
    BY <1>1, <1>3 DEF Injective
  <2> QED
    BY <2>1, <2>2, <2>3 DEF Elements
<1> QED
  BY <1>1, <1>2, <1>3

-------------------------------------------------------------------------------
(* A new worker has an empty list and no unit in its hands.                 *)
LEMMA InitIInv == Init => IInv
<1> SUFFICES ASSUME Init PROVE IInv
  OBVIOUS
<1> USE ItemsAssumption DEF Init
<1>1. queue \in Seq(Items) /\ processed \in Seq(Items)
  OBVIOUS
<1>2. TypeOK
  BY <1>1 DEF TypeOK
<1>3. OnePlace
  BY DEF OnePlace, Elements, Injective
<1> QED
  BY <1>2, <1>3 DEF IInv

(* AddLast and AddFirst put a new unit in the list and nowhere else.        *)
LEMMA PushInv == ASSUME IInv, NEW i \in Items, Push(i) PROVE IInv'
<1> USE ItemsAssumption DEF IInv, TypeOK, OnePlace
<1> DEFINE first == <<i>> \o queue
           last == Append(queue, i)
<1>1. queue' \in {first, last}
  BY DEF Push
<1>2. i \notin Elements(queue)
  BY DEF Push
<1>3. queue' \in Seq(Items) /\ Injective(queue') /\ Elements(queue') = Elements(queue) \cup {i}
  <2>1. first \in Seq(Items) /\ Injective(first) /\ Elements(first) = Elements(queue) \cup {i}
    BY <1>2, PrependElements
  <2>2. last \in Seq(Items) /\ Injective(last) /\ Elements(last) = Elements(queue) \cup {i}
    BY <1>2, AppendElements
  <2> HIDE DEF first, last
  <2> QED
    BY <1>1, <2>1, <2>2
<1>4. /\ adder' = [adder EXCEPT ![i] = "pushed"]
      /\ UNCHANGED <<sleeping, running, worker, current, destructor, processed, dropped>>
      /\ adder[i] = "new"
  BY DEF Push
<1>5. TypeOK'
  BY <1>3, <1>4 DEF TypeOK
<1>6. Elements(processed)' = Elements(processed) /\ Elements(queue)' = Elements(queue')
      /\ Injective(queue)' = Injective(queue') /\ Injective(processed)' = Injective(processed)
  BY <1>4 DEF Elements, Injective
<1>7. OnePlace'
  BY <1>3, <1>4, <1>6 DEF OnePlace
<1> QED
  BY <1>5, <1>7 DEF IInv

(* Get moves the first unit from the list to the worker's hands.            *)
LEMMA GetInv == ASSUME IInv, Get PROVE IInv'
<1> USE ItemsAssumption DEF IInv, TypeOK, OnePlace
<1>1. CASE queue = <<>>
  BY <1>1 DEF Get, Elements, Injective
<1>2. CASE queue # <<>>
  <2>1. /\ Tail(queue) \in Seq(Items)
        /\ Head(queue) \in Elements(queue)
        /\ Elements(Tail(queue)) = Elements(queue) \ {Head(queue)}
        /\ Injective(Tail(queue))
    BY <1>2, TailElements
  <2>2. Head(queue) \in Items
    BY <1>2
  <2>3. /\ queue' = Tail(queue)
        /\ current' = Head(queue)
        /\ worker' = "process"
        /\ UNCHANGED <<sleeping, running, adder, destructor, processed, dropped>>
        /\ worker = "get"
    BY <1>2 DEF Get
  <2>4. Elements(processed)' = Elements(processed) /\ Elements(queue)' = Elements(Tail(queue))
        /\ Injective(queue)' = Injective(Tail(queue)) /\ Injective(processed)' = Injective(processed)
    BY <2>3 DEF Elements, Injective
  <2>5. TypeOK'
    BY <2>1, <2>2, <2>3
  <2>6. OnePlace'
    BY <2>1, <2>2, <2>3, <2>4
  <2> QED
    BY <2>5, <2>6
<1> QED
  BY <1>1, <1>2

(* Run moves the unit in its hands to the processed or the dropped ones.    *)
LEMMA ProcessInv == ASSUME IInv, Process PROVE IInv'
<1> USE ItemsAssumption DEF IInv, TypeOK, OnePlace
<1>1. current \in Items /\ current \notin Elements(processed)
  BY DEF Process
<1>2. /\ Append(processed, current) \in Seq(Items)
      /\ Elements(Append(processed, current)) = Elements(processed) \cup {current}
      /\ Injective(Append(processed, current))
  BY <1>1, AppendElements
<1>3. /\ UNCHANGED <<queue, sleeping, running, adder, destructor>>
      /\ current' = None /\ worker' = "get"
  BY DEF Process
<1>4. Elements(queue)' = Elements(queue) /\ Injective(queue)' = Injective(queue)
  BY <1>3 DEF Elements, Injective
<1>5. None \notin Elements(queue) \cup Elements(processed) \cup dropped \cup {current}
  BY <1>1 DEF Elements
<1>6. CASE destructor = "alive"
  <2>1. processed' = Append(processed, current) /\ dropped' = dropped
    BY <1>6 DEF Process
  <2>2. Elements(processed)' = Elements(processed) \cup {current} /\ Injective(processed)'
    BY <1>2, <2>1 DEF Elements, Injective
  <2>3. TypeOK'
    BY <1>2, <1>3, <2>1
  <2>4. OnePlace'
    BY <1>1, <1>3, <1>4, <1>5, <2>1, <2>2
  <2> QED
    BY <2>3, <2>4
<1>7. CASE destructor # "alive"
  <2>1. dropped' = dropped \cup {current} /\ processed' = processed
    BY <1>7 DEF Process
  <2>2. Elements(processed)' = Elements(processed) /\ Injective(processed)' = Injective(processed)
    BY <2>1 DEF Elements, Injective
  <2>3. TypeOK'
    BY <1>1, <1>3, <2>1
  <2>4. OnePlace'
    BY <1>1, <1>3, <1>4, <1>5, <2>1, <2>2
  <2> QED
    BY <2>3, <2>4
<1> QED
  BY <1>6, <1>7

(* Flush moves what the list holds to the dropped ones.                     *)
LEMMA FlushInv == ASSUME IInv, Flush PROVE IInv'
<1> USE ItemsAssumption DEF IInv, TypeOK, OnePlace
<1>1. /\ dropped' = dropped \cup Elements(queue)
      /\ queue' = <<>>
      /\ UNCHANGED <<sleeping, running, worker, current, adder, processed>>
      /\ destructor' = "stop"
  BY DEF Flush
<1>2. Elements(queue)' = {} /\ Injective(queue)'
  BY <1>1 DEF Elements, Injective
<1>3. Elements(processed)' = Elements(processed) /\ Injective(processed)' = Injective(processed)
  BY <1>1 DEF Elements, Injective
<1>4. Elements(queue) \subseteq Items
  BY DEF Elements
<1>5. queue' \in Seq(Items)
  BY <1>1
<1> QED
  BY <1>1, <1>2, <1>3, <1>4, <1>5

(* Every other step leaves the units where they are.                        *)
LEMMA QuietInv ==
  ASSUME IInv,
         UNCHANGED <<queue, current, processed, dropped>>,
         TypeOK',
         (worker' = "process") <=> (worker = "process"),
         \A i \in Items : (adder'[i] = "new") <=> (adder[i] = "new")
  PROVE  IInv'
<1>1. /\ Elements(queue)' = Elements(queue) /\ Injective(queue)' = Injective(queue)
      /\ Elements(processed)' = Elements(processed)
      /\ Injective(processed)' = Injective(processed)
  BY DEF Elements, Injective
<1>2. OnePlace'
  BY <1>1 DEF IInv, OnePlace
<1> QED
  BY <1>2 DEF IInv

(* The inductive invariant, for any number of units and adders.              *)
THEOREM Invariant == Spec => []IInv
<1>1. IInv /\ [Next]_vars => IInv'
  <2> SUFFICES ASSUME IInv, [Next]_vars PROVE IInv'
    OBVIOUS
  <2>1. ASSUME NEW i \in Items, Notify(i) PROVE IInv'
    BY <2>1, QuietInv DEF Notify, IInv, TypeOK
  <2>2. CASE CheckRunning \/ TestSize \/ Sleep \/ Wake
    BY <2>2, QuietInv DEF CheckRunning, TestSize, Sleep, Wake, IInv, TypeOK
  <2>3. CASE SpuriousWakeup
    BY <2>3, QuietInv DEF SpuriousWakeup, IInv, TypeOK
  <2>4. CASE DestroyDerived \/ StopRunning \/ Cancel
    BY <2>4, QuietInv DEF DestroyDerived, StopRunning, Cancel, IInv, TypeOK
  <2>5. CASE UNCHANGED vars
    BY <2>5, QuietInv DEF vars, IInv, TypeOK
  <2> QED
    BY <2>1, <2>2, <2>3, <2>4, <2>5, PushInv, GetInv, ProcessInv, FlushInv
       DEF Next, Worker, Destructor
<1> QED
  BY InitIInv, <1>1, PTL DEF Spec

(* Every variable of the worker and its list keeps its type.                 *)
THEOREM TypeCorrect == Spec => []TypeOK
<1>1. IInv => TypeOK
  BY DEF IInv
<1> QED
  BY Invariant, <1>1, PTL

(* No unit is lost, done twice, or both done and dropped.                    *)
THEOREM UnitsAreInOnePlace == Spec => []OnePlace
<1>1. IInv => OnePlace
  BY DEF IInv
<1> QED
  BY Invariant, <1>1, PTL

(* The worker sleeps while units are queued, and no notify is due.           *)
Forgotten ==
    /\ queue # <<>> /\ sleeping /\ worker = "asleep"
    /\ \A i \in Items : adder[i] # "pushed"

(* What a lost wakeup leaves behind stays where it is until a unit is added, *)
(* the list is flushed or a wakeup comes for free: the worker does nothing.  *)
(* NextNotifyRecovers is the first of these.                                 *)
THEOREM ForgottenUntilAdded ==
  Spec /\ [][~(SpuriousWakeup \/ Flush \/ \E i \in Items : Push(i))]_vars
      => [](Forgotten => []Forgotten)
<1>1. Forgotten /\ [Next]_vars
          /\ [~(SpuriousWakeup \/ Flush \/ \E i \in Items : Push(i))]_vars => Forgotten'
  BY DEF Forgotten, vars, Next, Notify, Worker, CheckRunning, TestSize, Sleep, Wake, Get,
       Process, Destructor, DestroyDerived, StopRunning, Cancel
<1> QED
  BY <1>1, PTL DEF Spec

(* The list with its lock, its condition and its worker is a WorkQueue,      *)
(* lost wakeups and destruction included.                                    *)
THEOREM Refinement == Spec => ImplementsWorkQueue
<1>1. Init => WQ!Init
  BY DEF Init, WQ!Init
<1>2. IInv /\ [Next]_vars => [WQ!Next]_(WQ!vars)
  <2> SUFFICES ASSUME IInv, [Next]_vars PROVE [WQ!Next]_(WQ!vars)
    OBVIOUS
  <2> USE ItemsAssumption DEF IInv, TypeOK, OnePlace
  <2>1. ASSUME NEW i \in Items, Push(i)
        PROVE  WQ!Add(i)
    <3>1. i \notin WQ!Known
      BY <2>1 DEF Push, WQ!Known, Elements
    <3> QED
      BY <2>1, <3>1 DEF Push, WQ!Add
  <2>2. CASE Get
    BY <2>2 DEF Get, WQ!Next, WQ!Take, WQ!vars
  <2>3. CASE Process
    BY <2>3 DEF Process, WQ!Next, WQ!Do, WQ!DropTaken
  <2>4. CASE Flush
    BY <2>4 DEF Flush, WQ!Next, WQ!DropAll, Elements
  <2>5. ASSUME \/ \E i \in Items : Notify(i)
               \/ CheckRunning \/ TestSize \/ Sleep \/ Wake \/ SpuriousWakeup
               \/ DestroyDerived \/ StopRunning \/ Cancel
               \/ UNCHANGED vars
        PROVE  UNCHANGED WQ!vars
    BY <2>5 DEF Notify, CheckRunning, TestSize, Sleep, Wake, SpuriousWakeup,
                DestroyDerived, StopRunning, Cancel, vars, WQ!vars
  <2>6. ASSUME NEW i \in Items, Push(i)
        PROVE  WQ!Next
    BY <2>1, <2>6 DEF WQ!Next
  <2> QED
    BY <2>2, <2>3, <2>4, <2>5, <2>6 DEF Next, Worker, Destructor
<1> QED
  BY Invariant, <1>1, <1>2, PTL DEF Spec, ImplementsWorkQueue, WQ!Spec
==============================================================================
