----------------------------- MODULE FtdAppProofs -----------------------------
(***************************************************************************)
(* Proofs about FtdApp: for any number of downloads and any list, nobody   *)
(* uses a deleted download, none is left behind and none is listed twice,  *)
(* nobody waits in a circle, no removal is lost, and the list the clients  *)
(* see is the DownloadList.                                                *)
(*                                                                         *)
(* Whatever clients cancel, the types and the lock discipline hold, a      *)
(* thread's own download lives while it runs, what fails are only second   *)
(* removals, and a thread that waits for the lock it holds waits for good. *)
(* The rest is for clients that leave each download to one remover:        *)
(* ftdapp_twice and ftdapp_stop_auto show what happens otherwise.          *)
(***************************************************************************)
EXTENDS FtdApp, TLAPS, FiniteSetTheorems, SequenceTheorems, NaturalsInduction

(* A URL that is added more than once is sent as URL would write it, because *)
(* AddDownload looks for the URL as sent among normalised ones.              *)
UrlsAsSent ==
    \A d, e \in Downloads : d # e /\ UrlOf[d] = UrlOf[e] => RawUrlOf[d] = UrlOf[e]

(* What the clients must keep to for the removals to be safe: moreover, each *)
(* download has one remover.                                                 *)
Considerate == UrlsAsSent /\ \A p \in Plans : OneRemoverEach(p)

-------------------------------------------------------------------------------
(* Lists and walks of them.                                                  *)

(* Induction on the natural numbers, for a set: a set with 0 and the        *)
(* successors of its members holds all of them, or else the members below a *)
(* missing number would be finitely many that map one to one to fewer.      *)
LEMMA SetInduction ==
  ASSUME NEW A, A \subseteq Nat, 0 \in A, \A k \in A : k + 1 \in A
  PROVE  Nat \subseteq A
<1> SUFFICES ASSUME NEW n \in Nat, n \notin A PROVE FALSE
  OBVIOUS
<1> DEFINE B == {k \in 0..n : 0..k \subseteq A}
           next == [k \in B |-> k + 1]
<1>1. IsFiniteSet(B) /\ Cardinality(B) \in Nat
  <2>1. IsFiniteSet(0..n)
    BY FS_Interval
  <2>2. IsFiniteSet(B)
    BY <2>1, FS_Subset, B \in SUBSET (0..n)
  <2> QED
    BY <2>2, FS_CardinalityType
<1>2. 0 \in B
  OBVIOUS
<1>3. ASSUME NEW k \in B
      PROVE  k + 1 \in B \ {0}
  <2>1. k \in A /\ k < n
    BY k \in 0..k
  <2>2. 0..(k + 1) \subseteq A
    BY <2>1
  <2> QED
    BY <2>1, <2>2
<1>4. next \in Injection(B, B \ {0})
  BY <1>3 DEF Injection, IsInjective
<1>5. /\ IsFiniteSet(B \ {0})
      /\ Cardinality(B \ {0}) = Cardinality(B) - 1
  BY <1>1, <1>2, FS_RemoveElement
<1>6. Cardinality(B) <= Cardinality(B \ {0})
  BY <1>4, <1>5, FS_Injection
<1> QED
  BY <1>1, <1>5, <1>6

(* Any set of natural numbers with a member has a least one.                *)
LEMMA MinIsIn ==
  ASSUME NEW S, S \subseteq Nat, S # {}
  PROVE  Min(S) \in S
<1> DEFINE Below == {n \in Nat : \A k \in S : n <= k}
<1> SUFFICES ASSUME ~ \E n \in S : \A k \in S : n <= k
             PROVE  FALSE
  BY DEF Min
<1>1. 0 \in Below
  OBVIOUS
<1>2. \A n \in Below : n + 1 \in Below
  OBVIOUS
<1>3. Nat \subseteq Below
  <2> HIDE DEF Below
  <2> QED BY <1>1, <1>2, SetInduction, Below \subseteq Nat DEF Below
<1> QED
  <2>1. PICK n \in S : TRUE
    OBVIOUS
  <2>2. n + 1 \in Below
    BY <1>3
  <2> QED
    BY <2>2

(* What list::erase leaves of a list.                                        *)
LEMMA RemovedAt ==
  ASSUME NEW S, NEW s \in Seq(S), NEW i \in DOMAIN s
  PROVE  /\ RemoveAt(s, i) \in Seq(S)
         /\ Len(RemoveAt(s, i)) = Len(s) - 1
         /\ \A k \in 1..(Len(s) - 1) : RemoveAt(s, i)[k] = s[IF k < i THEN k ELSE k + 1]
<1>1. i \in 1..Len(s)
  OBVIOUS
<1> DEFINE a == SubSeq(s, 1, i - 1)
           b == SubSeq(s, i + 1, Len(s))
<1>2. a \in Seq(S) /\ Len(a) = i - 1 /\ \A k \in 1..(i - 1) : a[k] = s[k]
  BY <1>1, SMT
<1>3. b \in Seq(S) /\ Len(b) = Len(s) - i /\ \A k \in 1..(Len(s) - i) : b[k] = s[i + k]
  BY <1>1, SMT
<1>4. RemoveAt(s, i) = a \o b
  BY DEF RemoveAt
<1> HIDE DEF a, b
<1>5. Len(a) + Len(b) = Len(s) - 1
  BY <1>1, <1>2, <1>3
<1>6. /\ a \o b \in Seq(S)
      /\ Len(a \o b) = Len(s) - 1
      /\ \A k \in 1..(Len(s) - 1) :
            (a \o b)[k] = IF k <= i - 1 THEN a[k] ELSE b[k - (i - 1)]
  <2>1. /\ a \o b \in Seq(S)
        /\ Len(a \o b) = Len(a) + Len(b)
        /\ \A k \in 1..(Len(a) + Len(b)) :
              (a \o b)[k] = IF k <= Len(a) THEN a[k] ELSE b[k - Len(a)]
    BY <1>2, <1>3, ConcatProperties, Zenon
  <2> QED
    BY <2>1, <1>2, <1>5, Zenon
<1> HIDE DEF a, b
<1>7. ASSUME NEW k \in 1..(Len(s) - 1)
      PROVE  (a \o b)[k] = s[IF k < i THEN k ELSE k + 1]
  <2>1. CASE k < i
    <3>1. k \in 1..(i - 1) /\ k <= i - 1
      BY <1>1, <2>1
    <3> QED
      BY <1>2, <1>6, <2>1, <3>1, Zenon
  <2>2. CASE ~ (k < i)
    <3>1. k - (i - 1) \in 1..(Len(s) - i) /\ i + (k - (i - 1)) = k + 1 /\ ~ (k <= i - 1)
      BY <1>1, <2>2
    <3> QED
      BY <1>3, <1>6, <2>2, <3>1, Zenon
  <2> QED
    BY <2>1, <2>2
<1> QED
  BY <1>4, <1>6, <1>7

(* A walk of the list stops at a matching entry, if there is one.            *)
LEMMA FirstFound ==
  ASSUME NEW matches, matches \subseteq DOMAIN transfers, transfers \in Seq(Downloads)
  PROVE  /\ FirstOf(matches) = 0 <=> matches = {}
         /\ matches # {} => FirstOf(matches) \in matches
<1>1. matches \subseteq Nat /\ 0 \notin matches
  OBVIOUS
<1> QED
  BY <1>1, MinIsIn DEF FirstOf

-------------------------------------------------------------------------------
(* The inductive invariant.                                                  *)

StopPCs == {"stop", "stopReap"}
RemovePCs == {"removeBegin", "removeLock", "removeReap"}
OwnPCs == {"unborn", "begin", "transfer", "signal", "cancelRegister", "cancelFlag",
           "complete", "invoke", "finish", "ended"}

\* Nothing asks twice for the removal of a download.
PlanInv ==
    /\ OneRemoverEach(plan)
    /\ \A e \in asked : \A d \in Downloads : Reaches(d, e) => plan.cancels[d] = 0
    /\ \A e \in asked : AutoRemove(e) => at[e] \notin {"begin", "transfer", "signal"}
    /\ plan.stop => asked = {}

PCInv == /\ at[Main] \in MainPCs
         /\ at[Deferred] \in RemovePCs \cup {"idle"}
         /\ \A d \in Downloads : at[d] \in OwnPCs
         /\ at[Main] \in StopPCs \cup {"exited"} => plan.stop

Holds(t) == \/ at[t] \in {"cancelRegister", "cancelFlag", "removeReap"}
            \/ t = Main /\ at[t] \in {"list", "listOne"} \cup StopPCs
LockInv == \A t \in Threads : transfermutex = t <=> Holds(t)

\* Where a download's thread is fits its object and its states.
ThreadInv ==
    \A d \in Downloads :
        /\ obj[d] = "none" => at[d] = "unborn"
        /\ obj[d] = "freed" => at[d] = "ended"
        /\ at[d] = "unborn" <=> status[d] = "NOTSTARTED"
        /\ reapstatus[d] = "CALLINPROGRESS" <=> at[d] \in {"invoke", "finish"}
        /\ reapstatus[d] = "CALLDONE" <=> at[d] = "ended"
        /\ at[d] = "unborn" => callbacks[d] = 0 /\ d \notin asked

\* No two entries of the list can be taken for one another.
DistinctInv ==
    \A j, k \in DOMAIN transfers : Reaches(transfers[j], transfers[k]) => j = k

\* The list holds the objects that live, except the one AddDownload is making.
ListedInv ==
    /\ \A k \in DOMAIN transfers :
          obj[transfers[k]] = IF at[Main] \in StopPCs /\ k < index
                              THEN "freed" ELSE "live"
    /\ \A d \in Downloads :
          obj[d] = "live" => \/ \E k \in DOMAIN transfers : transfers[k] = d
                             \/ at[Main] = "addRegister" /\ target[Main] = d

IndexInv == /\ index = 1 \/ at[Main] \in {"list", "exited"} \cup StopPCs
            /\ index >= 1
            /\ at[Main] = "stopReap" => index <= Len(transfers)

\* What AddDownload knows of the download it adds.
AddInv ==
    LET new == target[Main]
    IN  /\ at[Main] \in {"addUrl", "addFind", "addRegister"} =>
              /\ new \in Downloads
              /\ \A k \in DOMAIN transfers : UuidOf[transfers[k]] # UuidOf[new]
        /\ at[Main] \in {"addFind", "addRegister"} =>
              \A k \in DOMAIN transfers : UrlOf[transfers[k]] # UrlOf[new]
        /\ at[Main] \in {"addUrl", "addFind"} => obj[new] = "none"
        /\ at[Main] = "addRegister" => obj[new] = "live"
        /\ at[Main] = "addStart" =>
              new \in Downloads /\ \E k \in DOMAIN transfers : transfers[k] = new
        /\ \A d \in Downloads : obj[d] = "live" /\ at[d] = "unborn" =>
              at[Main] \in {"addRegister", "addStart"} /\ d = new
        /\ at[Main] \in {"addRegister", "addStart"} => at[new] = "unborn"

\* A removal is in one place: at the thread that asks for it, registered with
\* its download, in the deferred work, or at the thread that carries it out.
RequestInv ==
    /\ \A t \in Threads : at[t] \in CancelPCs \ {"cancelRelock"} =>
          target[t] \in asked /\ obj[target[t]] = "live"
    /\ \A d \in Downloads : at[d] \in {"cancelRegister", "cancelFlag"} =>
          target[d] = d /\ AutoRemove(d)
    /\ \A t \in Threads : at[t] = "cancelRegister" => callbacks[target[t]] = 0
    /\ at[Main] \in CancelPCs \ {"cancelRelock"} => ~AutoRemove(target[Main])
    /\ at[Main] \in RemovePCs =>
          callbacks[target[Main]] = 0 /\ reapstatus[target[Main]] # "OK"
    /\ at[Main] = "listOne" => target[Main] \in Downloads /\ obj[target[Main]] = "live"

WorkInv ==
    /\ \A d \in Downloads : callbacks[d] \in {0, 1} /\ (callbacks[d] = 1 => d \in asked)
    /\ \A k \in DOMAIN work :
          /\ callbacks[work[k]] = 1
          /\ at[work[k]] \in {"finish", "ended"}
          /\ obj[work[k]] = "live"
          /\ \A j \in DOMAIN work : work[j] = work[k] => j = k
    /\ at[Deferred] \in RemovePCs =>
          /\ target[Deferred] \in Downloads
          /\ callbacks[target[Deferred]] = 1
          /\ at[target[Deferred]] \in {"finish", "ended"}
          /\ \A k \in DOMAIN work : work[k] # target[Deferred]

\* Nothing moves the entry a removal waits for.
HitInv == \A t \in Threads : at[t] = "removeReap" =>
              hit[t] \in DOMAIN transfers /\ transfers[hit[t]] = target[t]

AppInv == ThreadTypes /\ ListTypes /\ DownloadTypes /\ PlanType /\ PlanInv
          /\ PCInv /\ LockInv /\ ThreadInv /\ DistinctInv /\ ListedInv /\ IndexInv
          /\ AddInv /\ RequestInv /\ WorkInv /\ HitInv

\* r has the entries of s but the one at i, each of them once.
Without(r, s, i) ==
    \E f \in [DOMAIN r -> DOMAIN s \ {i}] :
        /\ \A k \in DOMAIN r : r[k] = s[f[k]]
        /\ \A k, l \in DOMAIN r : f[k] = f[l] => k = l
        /\ \A j \in DOMAIN s \ {i} : \E k \in DOMAIN r : f[k] = j

(* Erasing an entry of a list leaves the others.                             *)
LEMMA Erased ==
  ASSUME NEW S, NEW s \in Seq(S), NEW i \in DOMAIN s
  PROVE  RemoveAt(s, i) \in Seq(S) /\ Without(RemoveAt(s, i), s, i)
<1> DEFINE n == Len(s) - 1
           f == [k \in 1..n |-> IF k < i THEN k ELSE k + 1]
<1>1. i \in 1..(n + 1) /\ n \in Nat /\ DOMAIN s = 1..(n + 1)
  OBVIOUS
<1>2. /\ RemoveAt(s, i) \in Seq(S)
      /\ DOMAIN RemoveAt(s, i) = 1..n
      /\ \A k \in 1..n : RemoveAt(s, i)[k] = s[f[k]]
  <2>1. /\ RemoveAt(s, i) \in Seq(S)
        /\ Len(RemoveAt(s, i)) = n
        /\ \A k \in 1..n : RemoveAt(s, i)[k] = s[IF k < i THEN k ELSE k + 1]
    BY RemovedAt
  <2>2. DOMAIN RemoveAt(s, i) = 1..n
    BY <2>1
  <2> QED
    BY <2>1, <2>2
<1> HIDE DEF n
<1>3. f \in [1..n -> 1..(n + 1) \ {i}]
  BY <1>1
<1>4. \A k, l \in 1..n : f[k] = f[l] => k = l
  BY <1>1
<1>5. ASSUME NEW j \in 1..(n + 1), j # i
      PROVE  \E k \in 1..n : f[k] = j
  <2>1. CASE j < i
    BY <1>1, <2>1, j \in 1..n
  <2>2. CASE j > i
    BY <1>1, <2>2, j - 1 \in 1..n
  <2> QED
    BY <1>1, <1>5, <2>1, <2>2
<1> HIDE DEF f
<1> QED
  <2>1. f \in [DOMAIN RemoveAt(s, i) -> DOMAIN s \ {i}]
    BY <1>1, <1>2, <1>3
  <2>2. \A j \in DOMAIN s \ {i} : \E k \in DOMAIN RemoveAt(s, i) : f[k] = j
    BY <1>1, <1>2, <1>5
  <2>3. \A k, l \in DOMAIN RemoveAt(s, i) : f[k] = f[l] => k = l
    BY <1>2, <1>4
  <2>4. \A k \in DOMAIN RemoveAt(s, i) : RemoveAt(s, i)[k] = s[f[k]]
    BY <1>2
  <2> QED
    BY <1>2, <2>1, <2>2, <2>3, <2>4, Zenon DEF Without

-------------------------------------------------------------------------------
(* What a search of the list finds.                                          *)

(* FindByUUID and FindByURL stop at an entry with that uuid or URL, or at    *)
(* the end when there is none.                                               *)
LEMMA SearchFinds ==
  ASSUME transfers \in Seq(Downloads), NEW x
  PROVE  /\ FindByUUID(x) = 0 <=> \A k \in DOMAIN transfers : UuidOf[transfers[k]] # x
         /\ FindByUUID(x) # 0 => /\ FindByUUID(x) \in DOMAIN transfers
                                 /\ UuidOf[transfers[FindByUUID(x)]] = x
         /\ FindByURL(x) = 0 <=> \A k \in DOMAIN transfers : UrlOf[transfers[k]] # x
         /\ FindByURL(x) # 0 => /\ FindByURL(x) \in DOMAIN transfers
                                /\ UrlOf[transfers[FindByURL(x)]] = x
<1> DEFINE U == {k \in DOMAIN transfers : UuidOf[transfers[k]] = x}
           L == {k \in DOMAIN transfers : UrlOf[transfers[k]] = x}
<1>1. (FirstOf(U) = 0 <=> U = {}) /\ (U # {} => FirstOf(U) \in U)
  BY FirstFound
<1>2. (FirstOf(L) = 0 <=> L = {}) /\ (L # {} => FirstOf(L) \in L)
  BY FirstFound
<1> QED
  BY <1>1, <1>2 DEF FindByUUID, FindByURL

(* A cancel finds a download its request reaches, and its own download when  *)
(* that is listed.                                                           *)
LEMMA SoughtReaches ==
  ASSUME transfers \in Seq(Downloads), NEW d \in Downloads
  PROVE  /\ Sought(d) # 0 => /\ Sought(d) \in DOMAIN transfers
                             /\ Reaches(d, transfers[Sought(d)])
         /\ DistinctInv => \A k \in DOMAIN transfers : transfers[k] = d => Sought(d) = k
<1>1. Sought(d) # 0 => /\ Sought(d) \in DOMAIN transfers
                       /\ Reaches(d, transfers[Sought(d)])
  BY SearchFinds DEF Sought, Reaches
<1>2. ASSUME NEW k \in DOMAIN transfers, transfers[k] = d
      PROVE  Sought(d) # 0
  BY <1>2, SearchFinds DEF Sought
<1> QED
  BY <1>1, <1>2 DEF DistinctInv

(* CancelDownload that has found e: the thread holds the lock, e is asked for.*)
Asks(t, e) == /\ transfermutex = None
              /\ at' = [at EXCEPT ![t] = "cancelRegister"]
              /\ target' = [target EXCEPT ![t] = e]
              /\ transfermutex' = t
              /\ asked' = asked \cup {e}
              /\ UNCHANGED <<transfers, obj, dlvars, work, hit, index>>

(* What is so when a client's cancel, or a policy, asks for the removal of e. *)
MayAsk(t, e) ==
    /\ obj[e] = "live" /\ at[e] # "unborn" /\ callbacks[e] = 0
    /\ e \notin asked /\ ~plan.stop
    /\ \/ t = Main /\ at[Main] = "ready" /\ ~AutoRemove(e)
       \/ t = e /\ at[e] = "signal" /\ AutoRemove(e)

(* CancelDownload asks for a listed download that is reached, or for none.   *)
LEMMA CancelAsks ==
  ASSUME transfers \in Seq(Downloads), NEW t, NEW d \in Downloads, CancelFind(t, d)
  PROVE  \/ /\ Sought(d) = 0 /\ Goto(t, Home(t))
            /\ UNCHANGED <<transfers, transfermutex, obj, dlvars, work, target, hit,
                           index, asked>>
         \/ /\ Sought(d) \in DOMAIN transfers
            /\ Reaches(d, transfers[Sought(d)])
            /\ Asks(t, transfers[Sought(d)])
  BY SoughtReaches DEF CancelFind, Asks, Goto, Set

-------------------------------------------------------------------------------
(* The core of the invariant, which holds whatever the clients ask for.      *)

AddPCs == {"addUrl", "addFind", "addRegister", "addStart"}

\* A download that AddDownload is at has no thread yet.
NewInv ==
    LET new == target[Main]
    IN  /\ \A d \in Downloads : obj[d] = "none" => at[d] = "unborn"
        /\ at[Main] \in AddPCs => new \in Downloads /\ at[new] = "unborn"
        /\ at[Main] \in {"addRegister", "addStart"} => obj[new] # "none"

\* A removal that holds the lock is at an entry.
EntryInv == \A t \in Threads : at[t] = "removeReap" => hit[t] \in DOMAIN transfers

CoreInv == TypeOK /\ LockInv /\ NewInv /\ EntryInv

(* CancelDownload asks for a download of the list, or for none.              *)
LEMMA CancelFinds ==
  ASSUME transfers \in Seq(Downloads), NEW t, NEW d \in Downloads, CancelFind(t, d)
  PROVE  \/ /\ Goto(t, Home(t))
            /\ UNCHANGED <<transfers, transfermutex, obj, dlvars, work, target, hit,
                           index, asked>>
         \/ \E e \in Downloads : Asks(t, e)
<1>1. Sought(d) \in DOMAIN transfers => transfers[Sought(d)] \in Downloads
  OBVIOUS
<1> QED
  BY <1>1, CancelAsks

(* What FindByUUID finds is a download.                                      *)
LEMMA Finds ==
  ASSUME transfers \in Seq(Downloads), NEW x, FindByUUID(x) # 0
  PROVE  transfers[FindByUUID(x)] \in Downloads
<1>1. FindByUUID(x) \in DOMAIN transfers
  BY SearchFinds
<1> QED
  BY <1>1

(* What the list and the deferred work are after a removal or a completion.  *)
LEMMA CoreTypes ==
  ASSUME CoreInv
  PROVE  /\ transfers \in Seq(Downloads) /\ TypeOK
         /\ \A t \in Threads :
               at[t] = "removeReap" => RemoveAt(transfers, hit[t]) \in Seq(Downloads)
         /\ \A d \in Downloads : work \o [k \in 1..callbacks[d] |-> d] \in Seq(Downloads)
<1>1. transfers \in Seq(Downloads) /\ TypeOK
  BY DEF CoreInv, TypeOK, ListTypes
<1>2. ASSUME NEW t \in Threads, at[t] = "removeReap"
      PROVE  RemoveAt(transfers, hit[t]) \in Seq(Downloads)
  BY <1>1, <1>2, RemovedAt DEF CoreInv, EntryInv
<1>3. ASSUME NEW d \in Downloads
      PROVE  work \o [k \in 1..callbacks[d] |-> d] \in Seq(Downloads)
  <2>1. callbacks[d] \in Nat
    BY <1>1 DEF TypeOK, DownloadTypes
  <2> DEFINE s == [k \in 1..callbacks[d] |-> d]
  <2>2. s \in Seq(Downloads) /\ work \in Seq(Downloads)
    BY <1>1, <2>1 DEF TypeOK, ListTypes
  <2> HIDE DEF s
  <2>3. work \o s \in Seq(Downloads)
    BY <2>2
  <2> QED
    BY <2>3 DEF s
<1> QED
  BY <1>1, <1>2, <1>3

(* Every step leaves the threads where code is, at downloads or nowhere.     *)
LEMMA CoreThreadTypesKeeps ==
  ASSUME CoreInv, [Next]_vars
  PROVE  ThreadTypes'
<1>1. CASE AddSteps
  BY <1>1 DEF CoreInv, TypeOK, ThreadTypes, MainPCs, RunPCs, AddSteps, AddCheckUrl,
       AddFind, AddRegister, AddStart, Goto
<1>2. ASSUME NEW d \in Downloads, AddCheckUuid(d) \/ GetDownloadByUUID(d)
      PROVE  ThreadTypes'
  <2>1. CASE AddCheckUuid(d)
    BY <2>1, CoreTypes DEF TypeOK, ThreadTypes, MainPCs, AddCheckUuid, Goto, Set,
         Threads
  <2>2. CASE GetDownloadByUUID(d)
    BY <2>2, CoreTypes, Finds DEF TypeOK, ThreadTypes, MainPCs, GetDownloadByUUID,
         Goto, Set
  <2> QED
    BY <1>2, <2>1, <2>2
<1>3. CASE \E d \in Downloads : ClientCancel(d)
  BY <1>3, SoughtReaches DEF CoreInv, TypeOK, ThreadTypes, ListTypes, RunPCs,
       CancelPCs, ClientCancel, CancelFind, Goto, Set, Home, Threads
<1>4. ASSUME NEW d \in Downloads, RunSignal(d)
      PROVE  ThreadTypes'
  <2>1. CASE RunSignal(d)
    <3>1. CASE UNCHANGED <<target, hit, index>> /\ Goto(d, "complete")
      BY <3>1 DEF CoreInv, TypeOK, ThreadTypes, RunPCs, Goto
    <3>2. ASSUME NEW e \in Downloads, Asks(d, e)
          PROVE  ThreadTypes'
      BY <3>2 DEF CoreInv, TypeOK, ThreadTypes, CancelPCs, MainPCs, Asks
    <3>3. CASE CancelFind(d, d)
      BY <3>1, <3>2, <3>3, CoreTypes, CancelFinds, AppAssumption DEF Home
    <3> QED
      BY <2>1, <3>1, <3>3 DEF RunSignal
  <2> QED
    BY <1>4, <2>1
<1>5. CASE ListLock \/ ListSteps \/ ShutDownLock
  BY <1>5 DEF CoreInv, TypeOK, ThreadTypes, MainPCs, ListLock, ListSteps, SendDownload,
       ListEnd, SendOne, ShutDownLock, Goto
<1>6. CASE ShutDownSteps
  BY <1>6 DEF CoreInv, TypeOK, ThreadTypes, MainPCs, ShutDownSteps, ShutDownStop,
       ShutDownReap, ShutDownEnd, Goto
<1>7. ASSUME NEW t \in Threads, CancelOrRemove(t)
      PROVE  ThreadTypes'
  <2>1. CASE CancelRegister(t)
    BY <2>1 DEF CoreInv, TypeOK, ThreadTypes, RunPCs, CancelPCs, CancelRegister, Goto
  <2>2. CASE CancelFlag(t)
    BY <2>2, CoreTypes DEF TypeOK, ThreadTypes, MainPCs, RunPCs, CancelFlag, Goto, Home
  <2>3. CASE CancelRelock(t)
    BY <2>3, CoreTypes DEF TypeOK, ThreadTypes, MainPCs, RunPCs, CancelRelock, Goto,
         Home
  <2>4. CASE RemoveBegin(t)
    BY <2>4, CoreTypes DEF TypeOK, ThreadTypes, RunPCs, CancelPCs, RemoveBegin, Goto
  <2>5. CASE RemoveLock(t)
    <3> DEFINE h == FindByURL(UrlOf[target[t]])
    <3>1. h \in Nat
      BY CoreTypes, SearchFinds
    <3>2. hit' \in [Threads -> Nat]
      BY <2>5, <3>1 DEF RemoveLock, CoreInv, TypeOK, ThreadTypes
    <3>3. at' \in [Threads -> MainPCs \cup RunPCs \cup {"idle"}]
      BY <2>5 DEF RemoveLock, Goto, AfterRemove, CoreInv, TypeOK, ThreadTypes, MainPCs,
           CancelPCs
    <3> QED
      BY <2>5, <3>2, <3>3 DEF RemoveLock, CoreInv, TypeOK, ThreadTypes
  <2>6. CASE RemoveReap(t)
    BY <2>6, CoreTypes DEF TypeOK, ThreadTypes, RunPCs, CancelPCs, RemoveReap, Goto,
         AfterRemove
  <2> QED
    BY <1>7, <2>1, <2>2, <2>3, <2>4, <2>5, <2>6 DEF CancelOrRemove
<1>8. CASE DeferredTake
  BY <1>8 DEF CoreInv, TypeOK, ThreadTypes, ListTypes, RunPCs, CancelPCs, DeferredTake,
       Goto, Set, Threads
<1>9. ASSUME NEW d \in Downloads, \/ RunBegin(d) \/ TransferEnds(d) \/ CompleteEnter(d)
                                  \/ InvokeCallbacks(d) \/ CompleteFinish(d)
      PROVE  ThreadTypes'
  <2>1. CASE RunBegin(d)
    BY <2>1, CoreTypes DEF TypeOK, ThreadTypes, RunPCs, RunBegin, Goto
  <2>2. CASE TransferEnds(d)
    BY <2>2, CoreTypes DEF TypeOK, ThreadTypes, RunPCs, TransferEnds, Goto
  <2>3. CASE CompleteEnter(d)
    BY <2>3, CoreTypes DEF TypeOK, ThreadTypes, RunPCs, CompleteEnter, Goto
  <2>4. CASE InvokeCallbacks(d)
    BY <2>4, CoreTypes DEF TypeOK, ThreadTypes, RunPCs, InvokeCallbacks, Goto
  <2>5. CASE CompleteFinish(d)
    BY <2>5, CoreTypes DEF TypeOK, ThreadTypes, RunPCs, CompleteFinish, Goto
  <2> QED
    BY <1>9, <2>1, <2>2, <2>3, <2>4, <2>5
<1>10. CASE UNCHANGED vars
  BY <1>10 DEF CoreInv, TypeOK, ThreadTypes, vars, threadvars
<1> QED
  BY <1>1, <1>2, <1>3, <1>4, <1>5, <1>6, <1>7, <1>8, <1>9, <1>10 DEF Next, Run, Threads

(* Every step keeps the list and the deferred work lists of downloads.       *)
LEMMA CoreListTypesKeeps ==
  ASSUME CoreInv, [Next]_vars
  PROVE  ListTypes'
<1>1. CASE AddSteps
  <2>1. CASE AddCheckUrl
    BY <2>1, CoreTypes DEF TypeOK, ListTypes, AddCheckUrl
  <2>2. CASE AddFind
    BY <2>2, CoreTypes DEF TypeOK, ListTypes, AddFind
  <2>3. CASE AddRegister
    <3>1. target[Main] \in Downloads
      BY <2>3 DEF AddRegister, CoreInv, NewInv, AddPCs
    <3> QED
      BY <2>3, <3>1, CoreTypes DEF AddRegister, TypeOK, ListTypes
  <2>4. CASE AddStart
    BY <2>4, CoreTypes DEF TypeOK, ListTypes, AddStart
  <2> QED
    BY <1>1, <2>1, <2>2, <2>3, <2>4 DEF AddSteps
<1>2. CASE \E d \in Downloads : AddCheckUuid(d) \/ GetDownloadByUUID(d)
  BY <1>2 DEF CoreInv, TypeOK, ListTypes, AddCheckUuid, GetDownloadByUUID, Threads
<1>3. CASE \E d \in Downloads : ClientCancel(d)
  BY <1>3, SoughtReaches DEF CoreInv, TypeOK, ListTypes, ClientCancel, CancelFind,
       Threads
<1>4. CASE \E d \in Downloads : RunSignal(d)
  BY <1>4, SoughtReaches DEF CoreInv, TypeOK, ListTypes, RunSignal, CancelFind, Threads
<1>5. CASE ListLock \/ ListSteps \/ ShutDownLock
  BY <1>5 DEF CoreInv, TypeOK, ListTypes, ListLock, ListSteps, SendDownload, ListEnd,
       SendOne, ShutDownLock, Threads
<1>6. CASE ShutDownSteps
  <2>1. CASE ShutDownStop
    BY <2>1, CoreTypes DEF TypeOK, ListTypes, ShutDownStop
  <2>2. CASE ShutDownReap
    BY <2>2, CoreTypes DEF TypeOK, ListTypes, ShutDownReap
  <2>3. CASE ShutDownEnd
    BY <2>3, CoreTypes DEF TypeOK, ListTypes, ShutDownEnd
  <2> QED
    BY <1>6, <2>1, <2>2, <2>3 DEF ShutDownSteps
<1>7. ASSUME NEW t \in Threads, CancelOrRemove(t)
      PROVE  ListTypes'
  <2>1. CASE CancelRegister(t)
    BY <2>1, CoreTypes DEF TypeOK, ListTypes, CancelRegister
  <2>2. CASE CancelFlag(t)
    BY <2>2, CoreTypes DEF TypeOK, ListTypes, CancelFlag
  <2>3. CASE CancelRelock(t)
    BY <2>3, CoreTypes DEF TypeOK, ListTypes, CancelRelock
  <2>4. CASE RemoveBegin(t)
    BY <2>4, CoreTypes DEF TypeOK, ListTypes, RemoveBegin
  <2>5. CASE RemoveLock(t)
    BY <2>5, CoreTypes DEF TypeOK, ListTypes, RemoveLock
  <2>6. CASE RemoveReap(t)
    BY <2>6, CoreTypes DEF TypeOK, ListTypes, RemoveReap
  <2> QED
    BY <1>7, <2>1, <2>2, <2>3, <2>4, <2>5, <2>6 DEF CancelOrRemove
<1>8. CASE DeferredTake
  BY <1>8 DEF CoreInv, TypeOK, ListTypes, DeferredTake
<1>9. ASSUME NEW d \in Downloads, \/ RunBegin(d) \/ TransferEnds(d) \/ CompleteEnter(d)
                                  \/ InvokeCallbacks(d) \/ CompleteFinish(d)
      PROVE  ListTypes'
  <2>1. CASE RunBegin(d)
    BY <2>1, CoreTypes DEF TypeOK, ListTypes, RunBegin
  <2>2. CASE TransferEnds(d)
    BY <2>2, CoreTypes DEF TypeOK, ListTypes, TransferEnds
  <2>3. CASE CompleteEnter(d)
    BY <2>3, CoreTypes DEF TypeOK, ListTypes, CompleteEnter
  <2>4. CASE InvokeCallbacks(d)
    BY <2>4, CoreTypes DEF TypeOK, ListTypes, InvokeCallbacks
  <2>5. CASE CompleteFinish(d)
    BY <2>5, CoreTypes DEF TypeOK, ListTypes, CompleteFinish
  <2> QED
    BY <1>9, <2>1, <2>2, <2>3, <2>4, <2>5
<1>10. CASE UNCHANGED vars
  BY <1>10 DEF CoreInv, TypeOK, ListTypes, vars
<1> QED
  BY <1>1, <1>2, <1>3, <1>4, <1>5, <1>6, <1>7, <1>8, <1>9, <1>10 DEF Next, Run, Threads

(* Every step keeps the states of the downloads.                             *)
LEMMA CoreDownloadTypesKeeps ==
  ASSUME CoreInv, [Next]_vars
  PROVE  DownloadTypes'
<1>1. CASE AddSteps
  BY <1>1 DEF CoreInv, TypeOK, DownloadTypes, AddSteps, AddCheckUrl, AddFind,
       AddRegister, AddStart, dlvars
<1>2. CASE \E d \in Downloads : AddCheckUuid(d) \/ GetDownloadByUUID(d)
  BY <1>2 DEF CoreInv, TypeOK, DownloadTypes, AddCheckUuid, GetDownloadByUUID, dlvars
<1>3. CASE \E d \in Downloads : ClientCancel(d)
  BY <1>3 DEF CoreInv, TypeOK, DownloadTypes, ClientCancel, CancelFind, dlvars
<1>4. CASE \E d \in Downloads : RunSignal(d)
  BY <1>4 DEF CoreInv, TypeOK, DownloadTypes, RunSignal, CancelFind, dlvars
<1>5. CASE ListLock \/ ListSteps \/ ShutDownLock
  BY <1>5 DEF CoreInv, TypeOK, DownloadTypes, ListLock, ListSteps, SendDownload,
       ListEnd, SendOne, ShutDownLock, dlvars
<1>6. CASE ShutDownSteps
  BY <1>6 DEF CoreInv, TypeOK, DownloadTypes, ShutDownSteps, ShutDownStop,
       ShutDownReap, ShutDownEnd, dlvars
<1>7. ASSUME NEW t \in Threads, CancelOrRemove(t)
      PROVE  DownloadTypes'
  <2>1. CASE CancelRegister(t)
    <3>1. CASE target[t] \in Downloads
      <4>1. callbacks[target[t]] + 1 \in Nat
        BY <3>1 DEF CoreInv, TypeOK, DownloadTypes
      <4> QED
        BY <2>1 DEF CancelRegister, CoreInv, TypeOK, DownloadTypes
    <3>2. CASE target[t] \notin Downloads
      BY <2>1 DEF CancelRegister, CoreInv, TypeOK, DownloadTypes
    <3> QED
      BY <3>1, <3>2
  <2>2. CASE CancelFlag(t)
    BY <2>2, CoreTypes DEF TypeOK, DownloadTypes, CancelFlag
  <2>3. CASE CancelRelock(t)
    BY <2>3, CoreTypes DEF TypeOK, DownloadTypes, CancelRelock, dlvars
  <2>4. CASE RemoveBegin(t)
    BY <2>4, CoreTypes DEF TypeOK, DownloadTypes, RemoveBegin, dlvars
  <2>5. CASE RemoveLock(t)
    BY <2>5, CoreTypes DEF TypeOK, DownloadTypes, RemoveLock, dlvars
  <2>6. CASE RemoveReap(t)
    BY <2>6, CoreTypes DEF TypeOK, DownloadTypes, RemoveReap, dlvars
  <2> QED
    BY <1>7, <2>1, <2>2, <2>3, <2>4, <2>5, <2>6 DEF CancelOrRemove
<1>8. CASE DeferredTake
  BY <1>8 DEF CoreInv, TypeOK, DownloadTypes, DeferredTake, dlvars
<1>9. CASE \E d \in Downloads : \/ RunBegin(d) \/ TransferEnds(d) \/ CompleteEnter(d)
                               \/ InvokeCallbacks(d) \/ CompleteFinish(d)
  <2> SUFFICES ASSUME NEW d \in Downloads,
                      \/ RunBegin(d) \/ TransferEnds(d) \/ CompleteEnter(d)
                      \/ InvokeCallbacks(d) \/ CompleteFinish(d)
               PROVE  DownloadTypes'
    BY <1>9
  <2>1. CASE RunBegin(d) \/ TransferEnds(d)
    BY <2>1 DEF CoreInv, TypeOK, DownloadTypes, RunBegin, TransferEnds
  <2>2. CASE CompleteEnter(d) \/ CompleteFinish(d)
    BY <2>2 DEF CoreInv, TypeOK, DownloadTypes, CompleteEnter, CompleteFinish
  <2>3. CASE InvokeCallbacks(d)
    BY <2>3 DEF CoreInv, TypeOK, DownloadTypes, InvokeCallbacks, dlvars
  <2> QED
    BY <2>1, <2>2, <2>3
<1>10. CASE UNCHANGED vars
  BY <1>10 DEF CoreInv, TypeOK, DownloadTypes, vars, dlvars
<1> QED
  BY <1>1, <1>2, <1>3, <1>4, <1>5, <1>6, <1>7, <1>8, <1>9, <1>10 DEF Next, Run, Threads

(* Clients ask for nothing but what was left to ask for.                     *)
LEMMA CorePlanTypeKeeps ==
  ASSUME CoreInv, [Next]_vars
  PROVE  PlanType'
<1>1. CASE AddSteps
  BY <1>1 DEF CoreInv, TypeOK, PlanType, AddSteps, AddCheckUrl, AddFind,
       AddRegister, AddStart
<1>2. CASE \E d \in Downloads : AddCheckUuid(d) \/ GetDownloadByUUID(d)
  BY <1>2 DEF CoreInv, TypeOK, PlanType, AddCheckUuid, GetDownloadByUUID
<1>3. ASSUME NEW d \in Downloads, ClientCancel(d)
      PROVE  PlanType'
  <2>1. CASE ClientCancel(d)
    <3>1. /\ plan' = [plan EXCEPT !.cancels[d] = @ - 1]
          /\ plan.cancels[d] > 0 /\ plan.cancels \in [Downloads -> Nat]
      BY <2>1 DEF ClientCancel, CoreInv, TypeOK, PlanType
    <3> QED
      BY <3>1 DEF CoreInv, TypeOK, PlanType
  <2> QED
    BY <1>3, <2>1
<1>4. CASE \E d \in Downloads : RunSignal(d)
  BY <1>4 DEF CoreInv, TypeOK, PlanType, RunSignal
<1>5. CASE ListLock \/ ListSteps \/ ShutDownLock
  BY <1>5 DEF CoreInv, TypeOK, PlanType, ListLock, ListSteps, SendDownload, ListEnd,
       SendOne, ShutDownLock
<1>6. CASE ShutDownSteps
  BY <1>6 DEF CoreInv, TypeOK, PlanType, ShutDownSteps, ShutDownStop, ShutDownReap,
       ShutDownEnd
<1>7. CASE \E t \in Threads : CancelOrRemove(t)
  BY <1>7 DEF CoreInv, TypeOK, PlanType, CancelOrRemove, CancelRegister, CancelFlag,
       CancelRelock, RemoveBegin, RemoveLock, RemoveReap
<1>8. CASE DeferredTake
  BY <1>8 DEF CoreInv, TypeOK, PlanType, DeferredTake
<1>9. CASE \E d \in Downloads : \/ RunBegin(d) \/ TransferEnds(d) \/ CompleteEnter(d)
                               \/ InvokeCallbacks(d) \/ CompleteFinish(d)
  BY <1>9 DEF CoreInv, TypeOK, PlanType, RunBegin, TransferEnds, CompleteEnter,
       InvokeCallbacks, CompleteFinish
<1>10. CASE UNCHANGED vars
  BY <1>10 DEF CoreInv, TypeOK, PlanType, vars
<1> QED
  BY <1>1, <1>2, <1>3, <1>4, <1>5, <1>6, <1>7, <1>8, <1>9, <1>10 DEF Next, Run, Threads

(* transfermutex is taken when it is free and given back by who has it.      *)
LEMMA CoreLockInvKeeps ==
  ASSUME CoreInv, [Next]_vars
  PROVE  LockInv'
<1>1. CASE AddSteps
  <2>1. CASE AddCheckUrl
    BY <2>1 DEF CoreInv, TypeOK, ThreadTypes, LockInv, Holds, StopPCs, AddCheckUrl,
         Goto
  <2>2. CASE AddFind
    BY <2>2 DEF CoreInv, TypeOK, ThreadTypes, ListTypes, LockInv, Holds, StopPCs,
         AddFind, Goto
  <2>3. CASE AddRegister
    BY <2>3 DEF CoreInv, LockInv, Holds, StopPCs, AddRegister, Goto
  <2>4. CASE AddStart
    BY <2>4 DEF CoreInv, TypeOK, ThreadTypes, LockInv, Holds, StopPCs, NewInv,
         AddPCs, AddStart
  <2> QED
    BY <1>1, <2>1, <2>2, <2>3, <2>4 DEF AddSteps
<1>2. ASSUME NEW d \in Downloads, AddCheckUuid(d) \/ GetDownloadByUUID(d)
      PROVE  LockInv'
  <2>1. CASE AddCheckUuid(d)
    BY <2>1 DEF CoreInv, TypeOK, ThreadTypes, LockInv, Holds, StopPCs, AddCheckUuid,
         Goto
  <2>2. CASE GetDownloadByUUID(d)
    BY <2>2, AppAssumption DEF CoreInv, TypeOK, ThreadTypes, LockInv, Holds,
         GetDownloadByUUID, Goto, Threads
  <2> QED
    BY <1>2, <2>1, <2>2
<1>3. CASE \E d \in Downloads : ClientCancel(d)
  BY <1>3, AppAssumption DEF CoreInv, TypeOK, ThreadTypes, LockInv, Holds,
       ClientCancel, CancelFind, Goto, Home, Threads
<1>4. CASE \E d \in Downloads : RunSignal(d)
  BY <1>4, AppAssumption DEF CoreInv, TypeOK, ThreadTypes, LockInv, Holds,
       RunSignal, CancelFind, Goto, Home, Threads
<1>5. CASE ListLock \/ ListSteps \/ ShutDownLock
  BY <1>5, AppAssumption DEF CoreInv, TypeOK, ThreadTypes, LockInv, Holds, StopPCs,
       ListLock, ListSteps, SendDownload, ListEnd, SendOne, ShutDownLock, Goto,
       Threads
<1>6. CASE ShutDownSteps
  BY <1>6, AppAssumption DEF CoreInv, TypeOK, ThreadTypes, LockInv, Holds, StopPCs,
       ShutDownSteps, ShutDownStop, ShutDownReap, ShutDownEnd, Goto, Threads
<1>7. CASE \E t \in Threads : CancelOrRemove(t)
  BY <1>7, AppAssumption, SoughtReaches DEF CoreInv, TypeOK, ThreadTypes, ListTypes,
       LockInv, Holds, StopPCs, NewInv, CancelOrRemove, CancelRegister, CancelFlag,
       CancelRelock, RemoveBegin, RemoveLock, RemoveReap, Goto, Home, AfterRemove,
       Threads
<1>8. CASE DeferredTake
  BY <1>8, AppAssumption DEF CoreInv, LockInv, Holds, DeferredTake, Goto
<1>9. CASE \E d \in Downloads : \/ RunBegin(d) \/ TransferEnds(d) \/ CompleteEnter(d)
                               \/ InvokeCallbacks(d) \/ CompleteFinish(d)
  BY <1>9, AppAssumption DEF CoreInv, TypeOK, ThreadTypes, LockInv, Holds, RunBegin,
       TransferEnds, CompleteEnter, InvokeCallbacks, CompleteFinish, Goto
<1>10. CASE UNCHANGED vars
  BY <1>10 DEF CoreInv, LockInv, Holds, vars, threadvars
<1> QED
  BY <1>1, <1>2, <1>3, <1>4, <1>5, <1>6, <1>7, <1>8, <1>9, <1>10 DEF Next, Run, Threads

(* Nobody starts the thread of the download that AddDownload is at.          *)
LEMMA CoreNewInvKeeps ==
  ASSUME CoreInv, [Next]_vars
  PROVE  NewInv'
<1>1. CASE AddSteps
  <2>1. CASE AddCheckUrl
    BY <2>1 DEF CoreInv, TypeOK, ThreadTypes, NewInv, AddPCs, AddCheckUrl, Goto,
         Threads
  <2>2. CASE AddFind
    BY <2>2, AppAssumption DEF CoreInv, TypeOK, ThreadTypes, DownloadTypes, NewInv,
         AddPCs, AddFind, Goto, Threads
  <2>3. CASE AddRegister
    BY <2>3 DEF CoreInv, NewInv, AddPCs, AddRegister, Goto
  <2>4. CASE AddStart
    <3>1. /\ at[Main] = "addStart" /\ target[Main] \in Downloads
          /\ at' = [at EXCEPT ![Main] = "ready", ![target[Main]] = "begin"]
      BY <2>4 DEF AddStart, CoreInv, NewInv, AddPCs
    <3>2. obj[target[Main]] # "none"
      BY <2>4 DEF AddStart, CoreInv, NewInv
    <3> QED
      BY <2>4 DEF AddStart, CoreInv, NewInv, AddPCs, TypeOK, ThreadTypes, Threads
  <2> QED
    BY <1>1, <2>1, <2>2, <2>3, <2>4 DEF AddSteps
<1>2. ASSUME NEW d \in Downloads, AddCheckUuid(d) \/ GetDownloadByUUID(d)
      PROVE  NewInv'
  <2>1. CASE AddCheckUuid(d)
    BY <2>1 DEF CoreInv, TypeOK, ThreadTypes, NewInv, AddCheckUuid, Goto, Set,
         Threads
  <2>2. CASE GetDownloadByUUID(d)
    BY <2>2 DEF CoreInv, NewInv, AddPCs, GetDownloadByUUID, Goto
  <2> QED
    BY <1>2, <2>1, <2>2
<1>3. CASE \E d \in Downloads : ClientCancel(d)
  BY <1>3 DEF CoreInv, TypeOK, ThreadTypes, NewInv, AddPCs, ClientCancel,
       CancelFind, Goto, Home, Threads
<1>4. CASE \E d \in Downloads : RunSignal(d)
  BY <1>4, AppAssumption DEF CoreInv, TypeOK, ThreadTypes, NewInv, RunSignal,
       CancelFind, Goto, Set, Threads
<1>5. CASE ListLock \/ ListSteps \/ ShutDownLock
  BY <1>5 DEF CoreInv, TypeOK, ThreadTypes, NewInv, AddPCs, ListLock, ListSteps,
       SendDownload, ListEnd, SendOne, ShutDownLock, Goto, Threads
<1>6. CASE ShutDownSteps
  <2>1. at[Main] \in {"stop", "stopReap"} /\ at'[Main] \in {"stop", "stopReap", "exited"}
    BY <1>6 DEF ShutDownSteps, ShutDownStop, ShutDownReap, ShutDownEnd, Goto,
         CoreInv, TypeOK, ThreadTypes
  <2>2. \A d \in Downloads : at'[d] = at[d]
    BY <1>6, AppAssumption DEF ShutDownSteps, ShutDownStop, ShutDownReap, ShutDownEnd,
         Goto, CoreInv, TypeOK, ThreadTypes, Threads
  <2>3. UNCHANGED target /\ \A d \in Downloads : obj'[d] = "none" => obj[d] = "none"
    BY <1>6 DEF ShutDownSteps, ShutDownStop, ShutDownReap, ShutDownEnd, CoreInv,
         TypeOK, DownloadTypes
  <2> QED
    BY <2>1, <2>2, <2>3 DEF CoreInv, NewInv, AddPCs
<1>7. ASSUME NEW t \in Threads, CancelOrRemove(t)
      PROVE  NewInv'
  <2>1. CASE CancelRegister(t)
    <3>1. /\ at[t] = "cancelRegister" /\ at'[t] \in {"cancelFlag", "removeBegin"}
          /\ \A u \in Threads : u # t => at'[u] = at[u]
          /\ UNCHANGED <<target, obj>>
      BY <2>1 DEF CancelRegister, Goto, CoreInv, TypeOK, ThreadTypes
    <3> QED
      BY <3>1 DEF CoreInv, NewInv, AddPCs, Threads
  <2>2. CASE CancelFlag(t)
    BY <2>2 DEF CoreInv, NewInv, AddPCs, CancelFlag, Goto, Home
  <2>3. CASE CancelRelock(t)
    BY <2>3 DEF CoreInv, NewInv, AddPCs, CancelRelock, Goto, Home
  <2>4. CASE RemoveBegin(t)
    BY <2>4 DEF CoreInv, NewInv, AddPCs, RemoveBegin, Goto
  <2>5. CASE RemoveLock(t)
    BY <2>5 DEF CoreInv, TypeOK, ThreadTypes, NewInv, AddPCs, RemoveLock, Goto,
         AfterRemove, Threads
  <2>6. CASE RemoveReap(t)
    BY <2>6 DEF CoreInv, NewInv, AddPCs, RemoveReap, Goto, AfterRemove
  <2> QED
    BY <1>7, <2>1, <2>2, <2>3, <2>4, <2>5, <2>6 DEF CancelOrRemove
<1>8. CASE DeferredTake
  BY <1>8, AppAssumption DEF CoreInv, NewInv, DeferredTake, Goto, Set
<1>9. CASE \E d \in Downloads : \/ RunBegin(d) \/ TransferEnds(d) \/ CompleteEnter(d)
                               \/ InvokeCallbacks(d) \/ CompleteFinish(d)
  BY <1>9, AppAssumption DEF CoreInv, TypeOK, ThreadTypes, NewInv, RunBegin,
       TransferEnds, CompleteEnter, InvokeCallbacks, CompleteFinish, Goto, Threads
<1>10. CASE UNCHANGED vars
  BY <1>10 DEF CoreInv, NewInv, vars, threadvars
<1> QED
  BY <1>1, <1>2, <1>3, <1>4, <1>5, <1>6, <1>7, <1>8, <1>9, <1>10 DEF Next, Run, Threads

(* The list does not change while a removal waits at one of its entries.     *)
LEMMA CoreEntryInvKeeps ==
  ASSUME CoreInv, [Next]_vars
  PROVE  EntryInv'
<1>1. CASE AddSteps
  BY <1>1 DEF CoreInv, TypeOK, ThreadTypes, EntryInv, AddSteps, AddCheckUrl,
       AddFind, AddRegister, AddStart, Goto, Threads
<1>2. CASE \E d \in Downloads : AddCheckUuid(d) \/ GetDownloadByUUID(d)
  BY <1>2 DEF CoreInv, TypeOK, ThreadTypes, EntryInv, AddCheckUuid,
       GetDownloadByUUID, Goto
<1>3. ASSUME NEW d \in Downloads, ClientCancel(d)
      PROVE  EntryInv'
  <2>1. CASE ClientCancel(d)
    BY <2>1, CancelFinds DEF CoreInv, TypeOK, ThreadTypes, ListTypes, EntryInv,
         ClientCancel, Goto, Home, Asks
  <2> QED
    BY <1>3, <2>1
<1>4. ASSUME NEW d \in Downloads, RunSignal(d)
      PROVE  EntryInv'
  <2>1. CASE RunSignal(d)
    BY <2>1, CoreTypes, CancelFinds DEF CoreInv, TypeOK, ThreadTypes, EntryInv,
         RunSignal, Goto, Home, Asks
  <2> QED
    BY <1>4, <2>1
<1>5. CASE ListLock \/ ListSteps \/ ShutDownLock
  BY <1>5 DEF CoreInv, TypeOK, ThreadTypes, EntryInv, ListLock, ListSteps,
       SendDownload, ListEnd, SendOne, ShutDownLock, Goto
<1>6. CASE ShutDownSteps
  BY <1>6 DEF CoreInv, TypeOK, ThreadTypes, EntryInv, LockInv, Holds, StopPCs,
       ShutDownSteps, ShutDownStop, ShutDownReap, ShutDownEnd, Goto, Threads
<1>7. ASSUME NEW t \in Threads, CancelOrRemove(t)
      PROVE  EntryInv'
  <2>1. \A u \in Threads : u # t => at'[u] = at[u]
    BY <1>7 DEF CancelOrRemove, CancelRegister, CancelFlag, CancelRelock, RemoveBegin,
         RemoveLock, RemoveReap, Goto, CoreInv, TypeOK, ThreadTypes
  <2>2. CASE CancelRegister(t) \/ CancelFlag(t) \/ CancelRelock(t) \/ RemoveBegin(t)
    <3>1. at'[t] # "removeReap" /\ UNCHANGED <<transfers, hit>>
      BY <2>2 DEF CancelRegister, CancelFlag, CancelRelock, RemoveBegin, Goto, Home,
           CoreInv, TypeOK, ThreadTypes
    <3> QED
      BY <2>1, <3>1 DEF CoreInv, EntryInv
  <2>3. CASE RemoveLock(t)
    <3> DEFINE h == FindByURL(UrlOf[target[t]])
    <3>1. h # 0 => h \in DOMAIN transfers
      BY CoreTypes, SearchFinds
    <3>2. at'[t] = IF h = 0 THEN AfterRemove(t) ELSE "removeReap"
      BY <2>3 DEF RemoveLock, Goto, CoreInv, TypeOK, ThreadTypes
    <3>3. /\ UNCHANGED transfers /\ \A u \in Threads : u # t => hit'[u] = hit[u]
          /\ h # 0 => hit'[t] = h
      BY <2>3 DEF RemoveLock, CoreInv, TypeOK, ThreadTypes
    <3> HIDE DEF h
    <3> QED
      BY <2>1, <3>1, <3>2, <3>3 DEF CoreInv, EntryInv, AfterRemove
  <2>4. CASE RemoveReap(t)
    <3>1. at[t] = "removeReap" /\ at'[t] # "removeReap"
      BY <2>4 DEF RemoveReap, Goto, AfterRemove, CoreInv, TypeOK, ThreadTypes
    <3>2. \A u \in Threads : at[u] = "removeReap" => u = t
      BY <3>1 DEF CoreInv, LockInv, Holds
    <3> QED
      BY <2>1, <3>1, <3>2 DEF EntryInv
  <2> QED
    BY <1>7, <2>2, <2>3, <2>4 DEF CancelOrRemove
<1>8. CASE DeferredTake
  BY <1>8 DEF CoreInv, EntryInv, DeferredTake, Goto
<1>9. ASSUME NEW d \in Downloads, \/ RunBegin(d) \/ TransferEnds(d) \/ CompleteEnter(d)
                                  \/ InvokeCallbacks(d) \/ CompleteFinish(d)
      PROVE  EntryInv'
  <2>1. CASE RunBegin(d)
    <3>1. /\ d \in Threads /\ at'[d] \in {"transfer", "signal"}
          /\ \A u \in Threads : u # d => at'[u] = at[u]
          /\ UNCHANGED <<hit, transfers>>
      BY <2>1 DEF RunBegin, Goto, CoreInv, TypeOK, ThreadTypes, Threads
    <3> QED
      BY <3>1 DEF CoreInv, EntryInv
  <2>2. CASE TransferEnds(d)
    BY <2>2 DEF CoreInv, EntryInv, TransferEnds, Goto
  <2>3. CASE CompleteEnter(d)
    BY <2>3 DEF CoreInv, EntryInv, CompleteEnter, Goto
  <2>4. CASE InvokeCallbacks(d)
    BY <2>4 DEF CoreInv, EntryInv, InvokeCallbacks, Goto
  <2>5. CASE CompleteFinish(d)
    BY <2>5 DEF CoreInv, EntryInv, CompleteFinish, Goto
  <2> QED
    BY <1>9, <2>1, <2>2, <2>3, <2>4, <2>5
<1>10. CASE UNCHANGED vars
  BY <1>10 DEF CoreInv, EntryInv, vars, threadvars
<1> QED
  BY <1>1, <1>2, <1>3, <1>4, <1>5, <1>6, <1>7, <1>8, <1>9, <1>10 DEF Next, Run, Threads


(* The daemon starts with an empty list and the lock free.                   *)
LEMMA CoreInit ==
  ASSUME Init
  PROVE  CoreInv
<1>1. Main \in Threads /\ Downloads \subseteq Threads
  BY DEF Threads
<1>2. at[Main] = "ready" /\ \A d \in Downloads : at[d] = "unborn"
  BY <1>1, AppAssumption DEF Init
<1>3. \A t \in Threads : at[t] \in {"ready", "idle", "unborn"}
  BY DEF Init
<1>4. ThreadTypes /\ ListTypes /\ DownloadTypes
  BY DEF Init, ThreadTypes, ListTypes, DownloadTypes, MainPCs, RunPCs
<1>5. PlanType
  BY AppAssumption DEF Init, PlanType
<1>6. LockInv
  BY AppAssumption DEF Init, LockInv, Holds, StopPCs, Threads
<1>7. NewInv /\ EntryInv
  BY <1>2, <1>3 DEF NewInv, EntryInv, AddPCs
<1> QED
  BY <1>4, <1>5, <1>6, <1>7 DEF CoreInv, TypeOK

(* Whatever the clients ask for, the core of the invariant holds.           *)
THEOREM CoreInvariant == Spec => []CoreInv
<1>1. Init => CoreInv
  BY CoreInit
<1>2. CoreInv /\ [Next]_vars => CoreInv'
  BY CoreThreadTypesKeeps, CoreListTypesKeeps, CoreDownloadTypesKeeps,
       CorePlanTypeKeeps, CoreLockInvKeeps, CoreNewInvKeeps, CoreEntryInvKeeps
       DEF CoreInv, TypeOK
<1> QED
  BY <1>1, <1>2, PTL DEF Spec


\* What AddDownload's tests have found out about the download it adds.
UrlInv ==
    LET new == target[Main]
    IN  /\ at[Main] \in {"addUrl", "addFind", "addRegister"} =>
              \A k \in DOMAIN transfers : transfers[k] # new
        /\ at[Main] \in {"addFind", "addRegister"} =>
              \A k \in DOMAIN transfers : UrlOf[transfers[k]] # UrlOf[new]

(* Only AddDownload itself moves on in AddDownload or changes what it adds.  *)
LEMMA OthersLeaveUrls ==
  ASSUME CoreInv, [Next]_vars, at'[Main] \in AddPCs, ~AddSteps,
         \A d \in Downloads : ~AddCheckUuid(d)
  PROVE  UNCHANGED <<at[Main], target[Main]>>
<1>1. /\ Main \in Threads /\ Deferred \in Threads /\ Downloads \subseteq Threads
      /\ Main \notin Downloads /\ Main # Deferred
  BY AppAssumption DEF Threads
<1> USE DEF AddPCs
<1>2. ASSUME NEW d \in Downloads, GetDownloadByUUID(d) PROVE FALSE
  BY <1>2 DEF GetDownloadByUUID, Goto
<1>3. ASSUME NEW d \in Downloads, ClientCancel(d) PROVE FALSE
  BY <1>3 DEF ClientCancel, CancelFind, Goto, Home, CoreInv, TypeOK, ThreadTypes
<1>4. CASE ListLock \/ ListSteps \/ ShutDownLock \/ ShutDownSteps
  BY <1>4 DEF ListLock, ListSteps, SendDownload, ListEnd, SendOne, ShutDownLock,
       ShutDownSteps, ShutDownStop, ShutDownReap, ShutDownEnd, Goto, CoreInv,
       TypeOK, ThreadTypes
<1>5. ASSUME NEW t \in Threads, CancelOrRemove(t)
      PROVE  UNCHANGED <<at[Main], target[Main]>>
  <2>1. t # Main
    BY <1>5 DEF CancelOrRemove, CancelRegister, CancelFlag, CancelRelock,
         RemoveBegin, RemoveLock, RemoveReap, Goto, Home, AfterRemove, CoreInv,
         TypeOK, ThreadTypes
  <2> QED
    BY <1>1, <1>5, <2>1 DEF CancelOrRemove, CancelRegister, CancelFlag, CancelRelock,
         RemoveBegin, RemoveLock, RemoveReap, Goto, CoreInv, TypeOK, ThreadTypes
<1>6. CASE DeferredTake
  BY <1>6 DEF DeferredTake, Goto, Set
<1>7. ASSUME NEW d \in Downloads, RunSignal(d)
      PROVE  UNCHANGED <<at[Main], target[Main]>>
  BY <1>1, <1>7 DEF RunSignal, CancelFind, Goto, Set, CoreInv, TypeOK, ThreadTypes
<1>8. ASSUME NEW d \in Downloads, \/ RunBegin(d) \/ TransferEnds(d) \/ CompleteEnter(d)
                                  \/ InvokeCallbacks(d) \/ CompleteFinish(d)
      PROVE  UNCHANGED <<at[Main], target[Main]>>
  BY <1>1, <1>8 DEF RunBegin, TransferEnds, CompleteEnter, InvokeCallbacks,
       CompleteFinish, Goto, CoreInv, TypeOK, ThreadTypes
<1>9. CASE UNCHANGED vars
  BY <1>9 DEF vars, threadvars
<1> QED
  BY <1>1, <1>2, <1>3, <1>4, <1>5, <1>6, <1>7, <1>8, <1>9 DEF Next, Run

(* Only RegisterDownload, RemoveDownload and ShutDown change the list.       *)
LEMMA Rewrites ==
  ASSUME [Next]_vars, transfers' # transfers
  PROVE  AddRegister \/ ShutDownEnd \/ \E t \in Threads : RemoveReap(t)
  BY DEF Next, AddSteps, ListSteps, ShutDownSteps, CancelOrRemove, Run,
       AddCheckUuid, ClientCancel, GetDownloadByUUID, AddCheckUrl, AddFind,
       AddStart, ListLock, SendDownload, ListEnd, SendOne, ShutDownLock,
       ShutDownStop, ShutDownReap, DeferredTake, CancelFind, CancelRegister,
       CancelFlag, CancelRelock, RemoveBegin, RemoveLock, RunBegin, TransferEnds,
       RunSignal, CompleteEnter, InvokeCallbacks, CompleteFinish, vars, Threads

(* What AddDownload found out stays true until the download is on the list.  *)
LEMMA UrlKeeps ==
  ASSUME CoreInv, UrlsAsSent, UrlInv, NoDuplicateUrl, [Next]_vars
  PROVE  UrlInv' /\ NoDuplicateUrl'
<1>1. ASSUME NEW d \in Downloads, AddCheckUuid(d)
      PROVE  UrlInv' /\ NoDuplicateUrl'
  <2>1. FindByUUID(UuidOf[d]) = 0 => \A k \in DOMAIN transfers : transfers[k] # d
    BY SearchFinds, CoreTypes
  <2>2. /\ at'[Main] \in {"ready", "addUrl"} /\ UNCHANGED transfers
        /\ at'[Main] = "addUrl" => FindByUUID(UuidOf[d]) = 0 /\ target'[Main] = d
    BY <1>1 DEF AddCheckUuid, Goto, Set, CoreInv, TypeOK, ThreadTypes
  <2> QED
    BY <2>1, <2>2 DEF UrlInv, NoDuplicateUrl
<1>2. CASE AddCheckUrl
  <2> DEFINE d == target[Main]
  <2>1. at[Main] = "addUrl" /\ d \in Downloads
    BY <1>2 DEF AddCheckUrl, CoreInv, NewInv, AddPCs
  <2>2. \A k \in DOMAIN transfers : transfers[k] \in Downloads /\ transfers[k] # d
    BY <2>1, CoreTypes DEF UrlInv
  <2>3. FindByURL(RawUrlOf[d]) = 0 =>
           \A k \in DOMAIN transfers : UrlOf[transfers[k]] # RawUrlOf[d]
    BY SearchFinds, CoreTypes
  <2>4. FindByURL(RawUrlOf[d]) = 0 =>
           \A k \in DOMAIN transfers : UrlOf[transfers[k]] # UrlOf[d]
    BY <2>1, <2>2, <2>3 DEF UrlsAsSent
  <2>5. /\ at'[Main] = IF FindByURL(RawUrlOf[d]) # 0 THEN "ready" ELSE "addFind"
        /\ UNCHANGED <<transfers, target>>
    BY <1>2 DEF AddCheckUrl, Goto, CoreInv, TypeOK, ThreadTypes, Threads
  <2> QED
    BY <2>4, <2>5 DEF UrlInv, NoDuplicateUrl
<1>3. CASE AddFind
  <2>1. /\ at[Main] = "addFind" /\ at'[Main] \in {"addRegister", "ready"}
        /\ UNCHANGED <<transfers, target>>
    BY <1>3 DEF AddFind, Goto, CoreInv, TypeOK, ThreadTypes, Threads
  <2> QED
    BY <2>1 DEF UrlInv, NoDuplicateUrl
<1>4. CASE AddRegister
  <2> DEFINE d == target[Main]
             n == Len(transfers)
  <2>1. at[Main] = "addRegister" /\ d \in Downloads
    BY <1>4 DEF AddRegister, CoreInv, NewInv, AddPCs
  <2>2. at'[Main] = "addStart"
    BY <1>4 DEF AddRegister, Goto, CoreInv, TypeOK, ThreadTypes, Threads
  <2>3. /\ DOMAIN transfers' = 1..(n + 1) /\ DOMAIN transfers = 1..n /\ n \in Nat
        /\ \A k \in 1..n : transfers'[k] = transfers[k]
        /\ transfers'[n + 1] = d
    BY <1>4 DEF AddRegister
  <2>4. \A k \in 1..n : UrlOf[transfers[k]] # UrlOf[d]
    BY <2>1 DEF UrlInv
  <2> HIDE DEF d, n
  <2>5. \A k \in 1..(n + 1) : k \in 1..n \/ k = n + 1
    BY <2>3
  <2>6. NoDuplicateUrl'
    BY <2>3, <2>4 DEF NoDuplicateUrl
  <2> QED
    BY <2>2, <2>6 DEF UrlInv
<1>5. CASE AddStart
  <2>1. at'[Main] = "ready" /\ UNCHANGED transfers
    BY <1>5 DEF AddStart, CoreInv, TypeOK, ThreadTypes, Threads
  <2> QED
    BY <2>1 DEF UrlInv, NoDuplicateUrl
<1>6. ASSUME ~AddSteps, \A d \in Downloads : ~AddCheckUuid(d)
      PROVE  UrlInv' /\ NoDuplicateUrl'
  <2>1. at'[Main] \in AddPCs => UNCHANGED <<at[Main], target[Main]>>
    BY <1>6, OthersLeaveUrls
  <2>2. CASE UNCHANGED transfers
    BY <2>1, <2>2 DEF UrlInv, NoDuplicateUrl, AddPCs
  <2>3. CASE ShutDownEnd
    BY <2>3 DEF ShutDownEnd, UrlInv, NoDuplicateUrl
  <2>4. ASSUME NEW t \in Threads, RemoveReap(t)
        PROVE  UrlInv' /\ NoDuplicateUrl'
    <3> DEFINE i == hit[t]
               n == Len(transfers) - 1
    <3>1. i \in DOMAIN transfers
      BY <2>4 DEF RemoveReap, CoreInv, EntryInv
    <3>2. /\ DOMAIN transfers' = 1..n /\ DOMAIN transfers = 1..(n + 1)
          /\ n \in Nat /\ i \in Nat
          /\ \A k \in 1..n : transfers'[k] = transfers[IF k < i THEN k ELSE k + 1]
      <4>1. transfers' = RemoveAt(transfers, i) /\ transfers \in Seq(Downloads)
        BY <2>4, CoreTypes DEF RemoveReap
      <4> HIDE DEF i
      <4>2. /\ Len(transfers') = Len(transfers) - 1 /\ transfers' \in Seq(Downloads)
            /\ \A k \in 1..(Len(transfers) - 1) :
                  transfers'[k] = transfers[IF k < i THEN k ELSE k + 1]
        BY <3>1, <4>1, RemovedAt
      <4>3. n \in Nat /\ DOMAIN transfers = 1..(n + 1) /\ i \in Nat
        BY <3>1, <4>1
      <4>4. DOMAIN transfers' = 1..n
        BY <4>2
      <4> QED
        BY <4>2, <4>3, <4>4
    <3> DEFINE old(k) == IF k < i THEN k ELSE k + 1
    <3> HIDE DEF i, n
    <3>3. /\ \A k \in 1..n : old(k) \in 1..(n + 1)
          /\ \A j, k \in 1..n : old(j) = old(k) => j = k
      BY <3>2
    <3>4. \A k \in 1..n : transfers'[k] = transfers[old(k)]
      BY <3>2
    <3> HIDE DEF old
    <3> QED
      BY <2>1, <3>2, <3>3, <3>4 DEF UrlInv, NoDuplicateUrl, AddPCs
  <2> QED
    BY <1>6, <2>2, <2>3, <2>4, Rewrites DEF AddSteps
<1> QED
  BY <1>1, <1>2, <1>3, <1>4, <1>5, <1>6 DEF AddSteps

(* Type correctness of the list, the downloads and the threads.              *)
THEOREM AppTypeCorrect == Spec => []TypeOK
<1>1. CoreInv => TypeOK
  BY DEF CoreInv
<1> QED
  BY <1>1, CoreInvariant, PTL

(* Whoever has the lock finds the list as it was for as long as he stays     *)
(* where he is: a listing shows the clients one moment of it.                *)
ListIsGuarded ==
    [][\A t \in Threads : Holds(t) /\ at'[t] = at[t] => UNCHANGED transfers]_vars

(* No thread changes the list while another one holds transfermutex.         *)
THEOREM NobodyElseChangesTheList == Spec => ListIsGuarded
<1> DEFINE P == \A t \in Threads : Holds(t) /\ at'[t] = at[t] => UNCHANGED transfers
<1>1. CoreInv /\ [Next]_vars => P
  <2> SUFFICES ASSUME CoreInv, [Next]_vars, NEW t \in Threads, Holds(t), at'[t] = at[t],
                      transfers' # transfers
               PROVE  FALSE
    OBVIOUS
  <2>1. transfermutex = t /\ t # None
    BY AppAssumption DEF CoreInv, LockInv, Threads
  <2>2. CASE AddRegister
    BY <2>1, <2>2 DEF AddRegister
  <2>3. CASE ShutDownEnd
    <3>1. Main \in Threads /\ Holds(Main) /\ at'[Main] # at[Main]
      BY <2>3 DEF ShutDownEnd, Holds, StopPCs, Threads, Goto, CoreInv, TypeOK,
           ThreadTypes
    <3> QED
      BY <3>1 DEF CoreInv, LockInv
  <2>4. ASSUME NEW u \in Threads, RemoveReap(u) PROVE FALSE
    <3>1. Holds(u)
      BY <2>4 DEF RemoveReap, Holds
    <3>2. u = t
      BY <3>1 DEF CoreInv, LockInv
    <3>3. at[u] = "removeReap" /\ at'[u] # "removeReap"
      BY <2>4 DEF RemoveReap, Goto, AfterRemove, CoreInv, TypeOK, ThreadTypes
    <3> QED
      BY <3>2, <3>3
  <2> QED
    BY <2>2, <2>3, <2>4, Rewrites
<1> QED
  BY <1>1, CoreInvariant, PTL DEF Spec, ListIsGuarded

(* No two listed downloads have one URL, whatever the clients add and cancel. *)
THEOREM UrlsAreUnique ==
  ASSUME UrlsAsSent
  PROVE  Spec => []NoDuplicateUrl
<1>1. Init => UrlInv /\ NoDuplicateUrl
  BY DEF Init, UrlInv, NoDuplicateUrl
<1>2. CoreInv /\ UrlInv /\ NoDuplicateUrl /\ [Next]_vars => UrlInv' /\ NoDuplicateUrl'
  BY UrlKeeps
<1> QED
  BY <1>1, <1>2, CoreInvariant, PTL DEF Spec

-------------------------------------------------------------------------------
(* Threads, objects and removals, whatever the clients ask for.              *)

\* Where Complete no longer accepts callbacks.
DonePCs == {"invoke", "finish", "ended"}

\* How far a thread is that its states tell of.
FarInv ==
    \A d \in Downloads :
        /\ status[d] = "NOTSTARTED" => at[d] = "unborn"
        /\ reapstatus[d] # "OK" => at[d] \in DonePCs
        /\ reapstatus[d] = "CALLDONE" => at[d] = "ended"
        /\ obj[d] = "freed" => at[d] = "ended"

\* Nobody is about to remove a download that has not called its callbacks.
LateInv ==
    /\ \A t \in Threads : at[t] \in CancelPCs \ {"cancelRelock"} => target[t] \in Downloads
    /\ \A t \in Threads : at[t] \in RemovePCs => at[target[t]] \in DonePCs
    /\ \A k \in DOMAIN work : at[work[k]] \in {"finish", "ended"}

\* The list holds started downloads, and the one AddDownload is about to start.
StartedInv ==
    /\ \A k \in DOMAIN transfers : at[transfers[k]] = "unborn" =>
          at[Main] = "addStart" /\ target[Main] = transfers[k]
    /\ index >= 1
    /\ at[Main] = "stopReap" => index <= Len(transfers)

LifeInv == FarInv /\ LateInv /\ StartedInv

(* A download's thread is started by AddDownload and moves by itself.        *)
LEMMA ThreadsGoOn ==
  ASSUME CoreInv, [Next]_vars, NEW d \in Downloads
  PROVE  at'[d] = at[d] \/ (AddStart /\ d = target[Main]) \/ Run(d)
<1>1. /\ Main \in Threads /\ Deferred \in Threads /\ d \in Threads
      /\ d # Main /\ d # Deferred
  BY AppAssumption DEF Threads
<1>2. at \in [Threads -> MainPCs \cup RunPCs \cup {"idle"}]
  BY DEF CoreInv, TypeOK, ThreadTypes
<1>3. CASE AddSteps
  BY <1>1, <1>2, <1>3 DEF AddSteps, AddCheckUrl, AddFind, AddRegister, AddStart, Goto
<1>4. CASE \E e \in Downloads : AddCheckUuid(e) \/ ClientCancel(e) \/ GetDownloadByUUID(e)
  BY <1>1, <1>2, <1>4 DEF AddCheckUuid, ClientCancel, CancelFind, GetDownloadByUUID,
       Goto
<1>5. CASE ListLock \/ ListSteps \/ ShutDownLock \/ ShutDownSteps
  BY <1>1, <1>2, <1>5 DEF ListLock, ListSteps, SendDownload, ListEnd, SendOne,
       ShutDownLock, ShutDownSteps, ShutDownStop, ShutDownReap, ShutDownEnd, Goto
<1>6. CASE DeferredTake
  BY <1>1, <1>2, <1>6 DEF DeferredTake, Goto
<1>7. ASSUME NEW t \in Threads, CancelOrRemove(t), t # d
      PROVE  at'[d] = at[d]
  BY <1>1, <1>2, <1>7 DEF CancelOrRemove, CancelRegister, CancelFlag, CancelRelock,
       RemoveBegin, RemoveLock, RemoveReap, Goto
<1>8. ASSUME NEW e \in Downloads, e # d, Run(e)
      PROVE  at'[d] = at[d]
  BY <1>1, <1>2, <1>7, <1>8 DEF Run, RunBegin, TransferEnds, RunSignal, CancelFind,
       CompleteEnter, InvokeCallbacks, CompleteFinish, Goto, Threads
<1>9. CASE UNCHANGED vars
  BY <1>9 DEF vars, threadvars
<1> QED
  BY <1>1, <1>3, <1>4, <1>5, <1>6, <1>7, <1>8, <1>9 DEF Next

(* Where a thread that goes on is next.                                      *)
LEMMA Progress ==
  ASSUME CoreInv, [Next]_vars, NEW d \in Downloads
  PROVE  /\ at[d] # "unborn" => at'[d] # "unborn"
         /\ at[d] \in DonePCs => at'[d] \in DonePCs
         /\ at[d] \in {"finish", "ended"} => at'[d] \in {"finish", "ended"}
         /\ at[d] = "ended" => at'[d] = "ended"
<1>1. /\ at \in [Threads -> MainPCs \cup RunPCs \cup {"idle"}]
      /\ d \in Threads /\ d # Main /\ d # Deferred
  BY AppAssumption DEF CoreInv, TypeOK, ThreadTypes, Threads
<1>2. CASE AddStart /\ d = target[Main]
  <2>1. at[d] = "unborn"
    BY <1>2 DEF AddStart, CoreInv, NewInv, AddPCs
  <2> QED
    BY <2>1 DEF DonePCs
<1>3. CASE CancelOrRemove(d)
  BY <1>1, <1>3 DEF CancelOrRemove, CancelRegister, CancelFlag, CancelRelock,
       RemoveBegin, RemoveLock, RemoveReap, Goto, Home, AfterRemove, DonePCs
<1>4. CASE Run(d) /\ ~CancelOrRemove(d)
  BY <1>1, <1>4 DEF Run, RunBegin, TransferEnds, RunSignal, CancelFind,
       CompleteEnter, InvokeCallbacks, CompleteFinish, Goto, Home, DonePCs
<1> QED
  BY <1>2, <1>3, <1>4, ThreadsGoOn

(* Who writes what.                                                          *)
LEMMA Writers ==
  ASSUME [Next]_vars
  PROVE  /\ \/ UNCHANGED status
            \/ AddStart \/ \E d \in Downloads : RunBegin(d) \/ TransferEnds(d)
         /\ \/ UNCHANGED reapstatus
            \/ \E d \in Downloads : CompleteEnter(d) \/ CompleteFinish(d)
         /\ \/ UNCHANGED obj
            \/ AddFind \/ ShutDownReap \/ \E t \in Threads : RemoveReap(t)
         /\ \/ UNCHANGED work
            \/ DeferredTake \/ \E d \in Downloads : InvokeCallbacks(d)
         /\ \/ UNCHANGED index
            \/ SendDownload \/ ListEnd \/ ShutDownReap
  BY DEF Next, AddSteps, ListSteps, ShutDownSteps, CancelOrRemove, Run,
       AddCheckUuid, ClientCancel, GetDownloadByUUID, AddCheckUrl, AddRegister,
       ListLock, SendOne, ShutDownLock, AddFind, AddStart, ShutDownReap, SendDownload, ListEnd,
       ShutDownStop, ShutDownEnd, DeferredTake, CancelFind, CancelRegister,
       CancelFlag, CancelRelock, RemoveBegin, RemoveLock, RemoveReap, RunBegin, TransferEnds,
       RunSignal, CompleteEnter, InvokeCallbacks, CompleteFinish, vars, Threads, dlvars, threadvars

(* A download's states go along with its thread.                             *)
LEMMA FarInvKeeps ==
  ASSUME CoreInv, LifeInv, [Next]_vars
  PROVE  FarInv'
<1> SUFFICES ASSUME NEW d \in Downloads
             PROVE  /\ status'[d] = "NOTSTARTED" => at'[d] = "unborn"
                    /\ reapstatus'[d] # "OK" => at'[d] \in DonePCs
                    /\ reapstatus'[d] = "CALLDONE" => at'[d] = "ended"
                    /\ obj'[d] = "freed" => at'[d] = "ended"
  BY DEF FarInv
<1>1. DownloadTypes /\ at \in [Threads -> MainPCs \cup RunPCs \cup {"idle"}] /\ d \in Threads
  BY DEF CoreInv, TypeOK, ThreadTypes, Threads
<1>2. ASSUME status'[d] = "NOTSTARTED" PROVE at'[d] = "unborn"
  <2>1. status[d] = "NOTSTARTED" /\ ~ (AddStart /\ d = target[Main])
    BY <1>1, <1>2, Writers DEF DownloadTypes, AddStart, RunBegin, TransferEnds
  <2>2. at[d] = "unborn"
    BY <2>1 DEF LifeInv, FarInv
  <2>3. ~ Run(d)
    BY <2>2 DEF Run, RunBegin, TransferEnds, RunSignal, CompleteEnter, InvokeCallbacks,
         CompleteFinish, CancelOrRemove, CancelRegister, CancelFlag, CancelRelock,
         RemoveBegin, RemoveLock, RemoveReap
  <2> QED
    BY <2>1, <2>2, <2>3, ThreadsGoOn
<1>3. /\ reapstatus'[d] # "OK" => at'[d] \in DonePCs
      /\ reapstatus'[d] = "CALLDONE" => at'[d] = "ended"
  <2>1. CASE CompleteEnter(d)
    BY <1>1, <2>1 DEF CompleteEnter, Goto, DonePCs, DownloadTypes
  <2>2. CASE CompleteFinish(d)
    BY <1>1, <2>2 DEF CompleteFinish, Goto, DonePCs, DownloadTypes
  <2>3. CASE reapstatus'[d] = reapstatus[d]
    BY <2>3, Progress DEF LifeInv, FarInv
  <2>4. ASSUME NEW e \in Downloads, e # d, CompleteEnter(e) \/ CompleteFinish(e)
        PROVE  reapstatus'[d] = reapstatus[d]
    BY <1>1, <2>4 DEF CompleteEnter, CompleteFinish, DownloadTypes
  <2> QED
    BY <2>1, <2>2, <2>3, <2>4, Writers
<1>4. ASSUME obj'[d] = "freed" PROVE at'[d] = "ended"
  <2>1. CASE obj[d] = "freed"
    BY <2>1, Progress DEF LifeInv, FarInv
  <2>2. ASSUME NEW t \in Threads, RemoveReap(t), obj[d] # "freed"
        PROVE  at'[d] = "ended"
    <3>1. d = target[t] /\ at[t] = "removeReap" /\ ReapOK(d)
      BY <1>1, <1>4, <2>2 DEF RemoveReap, DownloadTypes
    <3>2. at[d] \in DonePCs
      BY <3>1 DEF LifeInv, LateInv, RemovePCs
    <3>3. at[d] = "ended"
      BY <3>1, <3>2 DEF ReapOK, LifeInv, FarInv, DonePCs
    <3> QED
      BY <3>3, Progress
  <2>3. ASSUME ShutDownReap, obj[d] # "freed"
        PROVE  at'[d] = "ended"
    <3>1. d = transfers[index] /\ at[Main] = "stopReap" /\ ReapOK(d)
      BY <1>1, <1>4, <2>3 DEF ShutDownReap, DownloadTypes
    <3>2. index \in DOMAIN transfers
      BY <3>1 DEF LifeInv, StartedInv, CoreInv, TypeOK, ListTypes, ThreadTypes
    <3>3. at[d] # "unborn"
      BY <3>1, <3>2 DEF LifeInv, StartedInv
    <3>4. at[d] = "ended"
      BY <3>1, <3>3 DEF ReapOK, LifeInv, FarInv
    <3> QED
      BY <3>4, Progress
  <2>4. AddFind => obj[d] = "freed"
    BY <1>1, <1>4 DEF AddFind, DownloadTypes
  <2> QED
    BY <1>4, <2>1, <2>2, <2>3, <2>4, Writers
<1> QED
  BY <1>2, <1>3, <1>4

(* A removal begins with a download that has been told to call back.         *)
LEMMA LateInvKeeps ==
  ASSUME CoreInv, LifeInv, [Next]_vars
  PROVE  LateInv'
<1> DEFINE Targets == \A t \in Threads :
             /\ at'[t] \in CancelPCs \ {"cancelRelock"} => target'[t] \in Downloads
             /\ at'[t] \in RemovePCs => at'[target'[t]] \in DonePCs
           Stays(t) == /\ target'[t] = target[t]
                       /\ at'[t] \in CancelPCs \ {"cancelRelock"} =>
                             at[t] \in CancelPCs \ {"cancelRelock"}
                       /\ at'[t] \in RemovePCs => at[t] \in RemovePCs
<1>1. /\ at \in [Threads -> MainPCs \cup RunPCs \cup {"idle"}]
      /\ target \in [Threads -> Downloads \cup {None}]
      /\ Main \in Threads /\ Deferred \in Threads /\ Downloads \subseteq Threads
  BY DEF CoreInv, TypeOK, ThreadTypes, Threads
<1> USE DEF RemovePCs, CancelPCs
<1>2. ASSUME NEW t \in Threads, Stays(t)
      PROVE  /\ at'[t] \in CancelPCs \ {"cancelRelock"} => target'[t] \in Downloads
             /\ at'[t] \in RemovePCs => at'[target'[t]] \in DonePCs
  BY <1>2, Progress DEF LifeInv, LateInv
<1>3. Targets
  <2>1. CASE AddSteps
    <3>1. \A t \in Threads : Stays(t)
      BY <1>1, <2>1 DEF AddSteps, AddCheckUrl, AddFind, AddRegister, AddStart, Goto
    <3> QED
      BY <1>2, <3>1
  <2>2. ASSUME NEW e \in Downloads, AddCheckUuid(e) \/ GetDownloadByUUID(e)
        PROVE  Targets
    <3>1. /\ at'[Main] \notin CancelPCs
          /\ \A t \in Threads : t # Main => Stays(t)
      BY <1>1, <2>2 DEF AddCheckUuid, GetDownloadByUUID, Goto, Set
    <3> QED
      BY <1>2, <3>1
  <2>3. ASSUME NEW t \in Threads, NEW d \in Downloads, CancelFind(t, d),
               Home(t) \notin CancelPCs
        PROVE  Targets
    <3>1. /\ \A u \in Threads : u # t => Stays(u)
          /\ at'[t] \notin RemovePCs
          /\ at'[t] \in CancelPCs => target'[t] \in Downloads
      BY <1>1, <2>3, CancelFinds, CoreTypes DEF Asks, Goto
    <3> QED
      BY <1>2, <3>1
  <2>4. CASE ListLock \/ ListSteps \/ ShutDownLock \/ ShutDownSteps
    <3>1. \A t \in Threads : Stays(t)
      BY <1>1, <2>4 DEF ListLock, ListSteps, SendDownload, ListEnd, SendOne,
           ShutDownLock, ShutDownSteps, ShutDownStop, ShutDownReap, ShutDownEnd, Goto
    <3> QED
      BY <1>2, <3>1
  <2>5. ASSUME NEW t \in Threads, CancelOrRemove(t)
        PROVE  Targets
    <3>1. CASE ~CancelRegister(t)
      <4>1. \A u \in Threads : Stays(u)
        BY <1>1, <2>5, <3>1 DEF CancelOrRemove, CancelFlag, CancelRelock,
             RemoveBegin, RemoveLock, RemoveReap, Goto, Home, AfterRemove
      <4> QED
        BY <1>2, <4>1
    <3>2. CASE CancelRegister(t)
      <4>1. /\ \A u \in Threads : u # t => Stays(u)
            /\ at[t] = "cancelRegister" /\ UNCHANGED target
            /\ at'[t] \in RemovePCs => reapstatus[target[t]] # "OK"
        BY <1>1, <3>2 DEF CancelRegister, Goto
      <4>2. target[t] \in Downloads
        BY <4>1 DEF LifeInv, LateInv
      <4>3. at'[t] \in RemovePCs => at'[target'[t]] \in DonePCs
        BY <4>1, <4>2, Progress DEF LifeInv, FarInv
      <4> QED
        BY <1>2, <4>1, <4>2, <4>3
    <3> QED
      BY <3>1, <3>2
  <2>6. CASE DeferredTake
    <3>1. /\ work # <<>> /\ at'[Deferred] = "removeBegin" /\ target'[Deferred] = Head(work)
          /\ \A t \in Threads : t # Deferred => Stays(t)
      BY <1>1, <2>6 DEF DeferredTake, Goto, Set
    <3>2. 1 \in DOMAIN work /\ Head(work) = work[1] /\ work[1] \in Downloads
      BY <3>1 DEF CoreInv, TypeOK, ListTypes
    <3>3. at'[target'[Deferred]] \in DonePCs
      BY <3>1, <3>2, Progress DEF LifeInv, LateInv, DonePCs
    <3> QED
      BY <1>2, <3>1, <3>2, <3>3
  <2>7. ASSUME NEW d \in Downloads, \/ RunBegin(d) \/ TransferEnds(d) \/ CompleteEnter(d)
                                    \/ InvokeCallbacks(d) \/ CompleteFinish(d)
        PROVE  Targets
    <3>1. \A t \in Threads : Stays(t)
      BY <1>1, <2>7 DEF RunBegin, TransferEnds, CompleteEnter, InvokeCallbacks,
           CompleteFinish, Goto
    <3> QED
      BY <1>2, <3>1
  <2>8. ASSUME NEW d \in Downloads, RunSignal(d)
        PROVE  Targets
    <3>1. CASE CancelFind(d, d)
      BY <1>1, <2>3, <3>1, AppAssumption DEF Home
    <3>2. CASE ~ CancelFind(d, d)
      <4>1. \A t \in Threads : Stays(t)
        BY <1>1, <2>8, <3>2 DEF RunSignal, Goto
      <4> QED
        BY <1>2, <4>1
    <3> QED
      BY <3>1, <3>2
  <2>9. ASSUME NEW d \in Downloads, ClientCancel(d)
        PROVE  Targets
    BY <1>1, <2>3, <2>9 DEF ClientCancel, Home
  <2>10. CASE UNCHANGED vars
    <3>1. \A t \in Threads : Stays(t)
      BY <2>10 DEF vars, threadvars
    <3> QED
      BY <1>2, <3>1
  <2> HIDE DEF Targets
  <2> QED
    BY <1>1, <2>1, <2>2, <2>4, <2>5, <2>6, <2>7, <2>8, <2>9, <2>10 DEF Next, Run
<1>4. \A k \in DOMAIN work' : at'[work'[k]] \in {"finish", "ended"}
  <2>1. work \in Seq(Downloads)
    BY DEF CoreInv, TypeOK, ListTypes
  <2>2. \A k \in DOMAIN work : at'[work[k]] \in {"finish", "ended"}
    BY <2>1, Progress DEF LifeInv, LateInv
  <2>3. CASE UNCHANGED work
    BY <2>2, <2>3
  <2>4. CASE DeferredTake
    <3>1. work # <<>> /\ work' = Tail(work)
      BY <2>4 DEF DeferredTake
    <3>2. \A k \in DOMAIN work' : k + 1 \in DOMAIN work /\ work'[k] = work[k + 1]
      BY <2>1, <3>1
    <3> QED
      BY <2>2, <3>2
  <2>5. ASSUME NEW d \in Downloads, InvokeCallbacks(d)
        PROVE  \A k \in DOMAIN work' : at'[work'[k]] \in {"finish", "ended"}
    <3> DEFINE s == [k \in 1..callbacks[d] |-> d]
    <3>1. work' = work \o s /\ at'[d] = "finish"
      BY <1>1, <2>5 DEF InvokeCallbacks, Goto
    <3>2. callbacks[d] \in Nat
      BY DEF CoreInv, TypeOK, DownloadTypes
    <3>3. s \in Seq(Downloads) /\ \A k \in DOMAIN s : s[k] = d
      BY <3>2
    <3> HIDE DEF s
    <3>4. \A k \in DOMAIN work' :
             \/ k \in DOMAIN work /\ work'[k] = work[k]
             \/ k - Len(work) \in DOMAIN s /\ work'[k] = s[k - Len(work)]
      BY <2>1, <3>1, <3>3
    <3> QED
      BY <2>2, <3>1, <3>3, <3>4
  <2> QED
    BY <2>3, <2>4, <2>5, Writers
<1> QED
  BY <1>3, <1>4 DEF LateInv

(* The main thread moves by itself.                                          *)
LEMMA MainGoesOn ==
  ASSUME CoreInv, [Next]_vars
  PROVE  \/ UNCHANGED <<at[Main], target[Main]>>
         \/ AddSteps \/ ListLock \/ ListSteps \/ ShutDownLock \/ ShutDownSteps
         \/ CancelOrRemove(Main)
         \/ \E d \in Downloads : AddCheckUuid(d) \/ ClientCancel(d) \/ GetDownloadByUUID(d)
<1>1. /\ at \in [Threads -> MainPCs \cup RunPCs \cup {"idle"}]
      /\ target \in [Threads -> Downloads \cup {None}]
      /\ Main \in Threads /\ Deferred \in Threads /\ Downloads \subseteq Threads
      /\ Main \notin Downloads /\ Main # Deferred
  BY AppAssumption DEF CoreInv, TypeOK, ThreadTypes, Threads
<1>2. ASSUME NEW t \in Threads, CancelOrRemove(t), t # Main
      PROVE  UNCHANGED <<at[Main], target[Main]>>
  BY <1>1, <1>2 DEF CancelOrRemove, CancelRegister, CancelFlag, CancelRelock,
       RemoveBegin, RemoveLock, RemoveReap, Goto
<1>3. CASE DeferredTake
  BY <1>1, <1>3 DEF DeferredTake, Goto, Set
<1>4. ASSUME NEW d \in Downloads, Run(d)
      PROVE  UNCHANGED <<at[Main], target[Main]>>
  BY <1>1, <1>2, <1>4 DEF Run, RunBegin, TransferEnds, RunSignal, CancelFind,
       CompleteEnter, InvokeCallbacks, CompleteFinish, Goto, Set
<1>5. CASE UNCHANGED vars
  BY <1>5 DEF vars, threadvars
<1> QED
  BY <1>1, <1>2, <1>3, <1>4, <1>5 DEF Next

(* A download is on the list no earlier than just before its start.          *)
LEMMA StartedInvKeeps ==
  ASSUME CoreInv, LifeInv, [Next]_vars
  PROVE  StartedInv'
<1> DEFINE Waits(d) == at[Main] = "addStart" /\ target[Main] = d
           Waits1(d) == at'[Main] = "addStart" /\ target'[Main] = d
           Started == \A k \in DOMAIN transfers' :
                         at'[transfers'[k]] = "unborn" => Waits1(transfers'[k])
<1>1. /\ at \in [Threads -> MainPCs \cup RunPCs \cup {"idle"}]
      /\ target \in [Threads -> Downloads \cup {None}]
      /\ Main \in Threads /\ Deferred \in Threads /\ Downloads \subseteq Threads
      /\ transfers \in Seq(Downloads) /\ index \in Nat
  BY DEF CoreInv, TypeOK, ThreadTypes, ListTypes, Threads
<1>2. ASSUME NEW d \in Downloads, at'[d] = "unborn", at[d] = "unborn" => Waits(d)
      PROVE  Waits1(d)
  <2>1. at[d] = "unborn" /\ Waits(d)
    BY <1>2, Progress
  <2>2. ~AddStart
    BY <1>1, <1>2, <2>1, AppAssumption DEF AddStart
  <2>3. UNCHANGED <<at[Main], target[Main]>>
    BY <2>1, <2>2, MainGoesOn DEF AddSteps, ListSteps, ShutDownSteps, CancelOrRemove,
         AddCheckUuid, ClientCancel, GetDownloadByUUID, AddCheckUrl, AddRegister,
         ListLock, SendOne, ShutDownLock, AddFind, ShutDownReap, SendDownload,
         ListEnd, ShutDownStop, ShutDownEnd, CancelRegister, CancelFlag,
         CancelRelock, RemoveBegin, RemoveLock, RemoveReap
  <2> QED
    BY <2>1, <2>3
<1>3. Started
  <2>1. ASSUME NEW k \in DOMAIN transfers, at'[transfers[k]] = "unborn"
        PROVE  Waits1(transfers[k])
    <3>1. transfers[k] \in Downloads
      BY <1>1
    <3>2. at[transfers[k]] = "unborn" => Waits(transfers[k])
      BY DEF LifeInv, StartedInv
    <3> QED
      BY <1>2, <2>1, <3>1, <3>2
  <2>2. CASE UNCHANGED transfers
    BY <2>1, <2>2
  <2>3. CASE AddRegister
    <3>1. /\ transfers' = Append(transfers, target[Main])
          /\ at'[Main] = "addStart" /\ UNCHANGED target
      BY <1>1, <2>3 DEF AddRegister, Goto
    <3>2. target[Main] \in Downloads
      BY <2>3 DEF AddRegister, CoreInv, NewInv, AddPCs
    <3>3. \A k \in DOMAIN transfers' : \/ k \in DOMAIN transfers /\ transfers'[k] = transfers[k]
                                       \/ transfers'[k] = target[Main]
      BY <1>1, <3>1, <3>2
    <3> QED
      BY <2>1, <3>1, <3>3
  <2>4. CASE ShutDownEnd
    BY <2>4 DEF ShutDownEnd
  <2>5. ASSUME NEW t \in Threads, RemoveReap(t)
        PROVE  Started
    <3>1. transfers' = RemoveAt(transfers, hit[t]) /\ hit[t] \in DOMAIN transfers
      BY <2>5 DEF RemoveReap, CoreInv, EntryInv
    <3>2. Without(transfers', transfers, hit[t])
      BY <1>1, <3>1, Erased
    <3>3. \A k \in DOMAIN transfers' : \E j \in DOMAIN transfers : transfers'[k] = transfers[j]
      BY <3>2 DEF Without
    <3> QED
      BY <2>1, <3>3
  <2> HIDE DEF Started
  <2> QED
    BY <2>2, <2>3, <2>4, <2>5, Rewrites
<1>4. index' >= 1 /\ (at'[Main] = "stopReap" => index' <= Len(transfers'))
  <2>1. index >= 1 /\ index \in Nat /\ (at[Main] = "stopReap" => index <= Len(transfers))
    BY <1>1 DEF LifeInv, StartedInv
  <2>2. CASE at'[Main] # "stopReap"
    BY <2>1, <2>2, Writers DEF SendDownload, ListEnd, ShutDownReap
  <2>3. CASE at'[Main] = "stopReap" /\ ShutDownStop
    BY <2>1, <2>3 DEF ShutDownStop
  <2>4. ASSUME at'[Main] = "stopReap", ~ShutDownStop
        PROVE  at[Main] = "stopReap" /\ UNCHANGED <<transfers, index>>
    <3>1. at[Main] = "stopReap"
      BY <1>1, <2>4, MainGoesOn DEF AddSteps, ListSteps, ShutDownSteps, CancelOrRemove,
         AddCheckUuid, ClientCancel, GetDownloadByUUID, AddCheckUrl, AddRegister,
         ListLock, SendOne, ShutDownLock, AddFind, AddStart, ShutDownReap, SendDownload,
         ListEnd, ShutDownEnd, CancelFind, CancelRegister, CancelFlag,
         CancelRelock, RemoveBegin, RemoveLock, RemoveReap, Goto, Home, AfterRemove
    <3>2. ~ SendDownload /\ ~ ListEnd /\ ~ShutDownReap /\ ~AddRegister /\ ~ShutDownEnd
      BY <1>1, <2>4, <3>1 DEF SendDownload, ListEnd, ShutDownReap, AddRegister,
           ShutDownEnd, Goto
    <3>3. \A t \in Threads : ~RemoveReap(t)
      BY <1>1, <3>1, AppAssumption DEF RemoveReap, CoreInv, LockInv, Holds, StopPCs
    <3> QED
      BY <3>1, <3>2, <3>3, Writers, Rewrites
  <2> QED
    BY <2>1, <2>2, <2>3, <2>4
<1> QED
  BY <1>3, <1>4 DEF StartedInv

(* Nothing is deleted, listed or asked for when the daemon starts.           *)
LEMMA LifeInit ==
  ASSUME Init
  PROVE  LifeInv
<1>1. /\ transfers = <<>> /\ work = <<>> /\ index = 1 /\ at[Main] = "ready"
      /\ \A d \in Downloads : /\ obj[d] = "none" /\ reapstatus[d] = "OK"
                              /\ at[d] = "unborn"
      /\ \A t \in Threads : at[t] \in {"ready", "idle", "unborn"}
  BY AppAssumption DEF Init, Threads
<1> QED
  BY <1>1 DEF LifeInv, FarInv, LateInv, StartedInv, CancelPCs, RemovePCs

(* Whatever the clients ask for, threads and states go together.             *)
THEOREM LifeInvariant == Spec => []LifeInv
<1>1. CoreInv /\ LifeInv /\ [Next]_vars => LifeInv'
  BY FarInvKeeps, LateInvKeeps, StartedInvKeeps DEF LifeInv
<1> QED
  BY <1>1, LifeInit, CoreInvariant, PTL DEF Spec

(* A download lives for as long as its thread: nobody deletes it while it is *)
(* transferred, signals or calls its callbacks.                              *)
OwnObjectLives ==
    \A d \in Downloads : at[d] \notin {"unborn", "ended"} => obj[d] = "live"

(* However often and by whomever a download is cancelled, its own thread     *)
(* never uses a deleted object: that is what polling ReapOK is for.          *)
THEOREM NoThreadOutlivesItsDownload == Spec => []OwnObjectLives
<1>1. CoreInv /\ LifeInv => OwnObjectLives
  BY DEF CoreInv, TypeOK, DownloadTypes, NewInv, LifeInv, FarInv, OwnObjectLives
<1> QED
  BY <1>1, CoreInvariant, LifeInvariant, PTL

(* ShutDown waits for d, whose thread is about to call CancelDownload.       *)
Deadlocked(d) ==
    /\ at[Main] = "stopReap" /\ transfers[index] = d
    /\ at[d] = "signal" /\ AutoRemove(d)

(* Nobody else can move either of them.                                      *)
LEMMA DeadlockStays ==
  ASSUME CoreInv, LifeInv, [Next]_vars, NEW d \in Downloads, Deadlocked(d)
  PROVE  Deadlocked(d)'
<1>1. /\ at[Main] = "stopReap" /\ transfers[index] = d
      /\ at[d] = "signal" /\ AutoRemove(d)
      /\ Main \in Threads /\ d \in Threads
  BY DEF Deadlocked, Threads
<1>2. transfermutex = Main /\ Main # None
  BY <1>1, AppAssumption DEF CoreInv, LockInv, Holds, StopPCs
<1>3. ~ReapOK(d)
  BY <1>1 DEF ReapOK, LifeInv, FarInv
<1>4. UNCHANGED at[Main]
  BY <1>1, <1>3, MainGoesOn DEF AddSteps, ListSteps, ShutDownSteps, CancelOrRemove,
       AddCheckUuid, ClientCancel, GetDownloadByUUID, AddCheckUrl, AddRegister,
       ListLock, SendOne, ShutDownLock, AddFind, AddStart, ShutDownReap, SendDownload,
       ListEnd, ShutDownStop, ShutDownEnd, CancelRegister, CancelFlag,
       CancelRelock, RemoveBegin, RemoveLock, RemoveReap
<1>5. ~Run(d)
  BY <1>1, <1>2 DEF Run, RunBegin, TransferEnds, RunSignal, CancelFind, CompleteEnter,
       InvokeCallbacks, CompleteFinish, CancelOrRemove, CancelRegister, CancelFlag,
       CancelRelock, RemoveBegin, RemoveLock, RemoveReap
<1>6. UNCHANGED at[d]
  BY <1>1, <1>5, ThreadsGoOn DEF AddStart
<1>7. ~AddRegister /\ ~ShutDownEnd /\ ~SendDownload /\ ~ListEnd /\ ~ShutDownReap
  BY <1>1, <1>3 DEF AddRegister, ShutDownEnd, SendDownload, ListEnd, ShutDownReap
<1>8. \A t \in Threads : ~RemoveReap(t)
  BY <1>1, <1>2 DEF RemoveReap, CoreInv, LockInv, Holds
<1>9. UNCHANGED <<transfers, index>>
  BY <1>7, <1>8, Writers, Rewrites
<1>10. UNCHANGED plan
  BY <1>1, <1>2 DEF Next, AddSteps, ListSteps, ShutDownSteps, CancelOrRemove, Run,
       AddCheckUuid, ClientCancel, GetDownloadByUUID, AddCheckUrl, AddRegister,
       ListLock, SendOne, ShutDownLock, AddFind, AddStart, ShutDownReap,
       SendDownload, ListEnd, ShutDownStop, ShutDownEnd, DeferredTake, CancelRegister,
       CancelFlag, CancelRelock, RemoveBegin, RemoveLock, RemoveReap, RunBegin,
       TransferEnds, RunSignal, CompleteEnter, InvokeCallbacks, CompleteFinish, vars
<1> QED
  BY <1>1, <1>4, <1>6, <1>9, <1>10 DEF Deadlocked, AutoRemove

(* What ftdapp_stop_auto finds is a deadlock and no delay: once ShutDown     *)
(* waits for a download that is about to remove itself, it waits for ever.   *)
THEOREM DeadlockIsForever ==
  ASSUME NEW d \in Downloads
  PROVE  Spec => [](Deadlocked(d) => []Deadlocked(d))
<1>1. CoreInv /\ LifeInv /\ [Next]_vars /\ Deadlocked(d) => Deadlocked(d)'
  BY DeadlockStays
<1> QED
  BY <1>1, CoreInvariant, LifeInvariant, PTL DEF Spec

\* The code each thread runs.
PlacesInv == /\ at[Main] \in MainPCs
             /\ at[Deferred] \in RemovePCs \cup {"idle"}
             /\ \A d \in Downloads : at[d] \in RunPCs

\* What is on the list lives, unless ShutDown has been there, and who holds the
\* lock to cancel, to show or to erase an entry has found that entry.
LiveInv ==
    /\ \A k \in DOMAIN transfers :
          obj[transfers[k]] = IF at[Main] \in StopPCs /\ k < index THEN "freed" ELSE "live"
    /\ \A t \in Threads :
          at[t] \in {"cancelRegister", "cancelFlag"} \/ (t = Main /\ at[t] = "listOne") =>
             \E k \in DOMAIN transfers : transfers[k] = target[t]
    /\ \A t \in Threads : at[t] = "removeReap" =>
          UrlOf[transfers[hit[t]]] = UrlOf[target[t]]
    /\ index = 1 \/ at[Main] \in {"list", "exited"} \cup StopPCs

(* Every thread keeps to its code.                                           *)
LEMMA PlacesInvKeeps ==
  ASSUME CoreInv, PlacesInv, [Next]_vars
  PROVE  PlacesInv'
<1>1. /\ at \in [Threads -> MainPCs \cup RunPCs \cup {"idle"}]
      /\ Main \in Threads /\ Deferred \in Threads /\ Downloads \subseteq Threads
      /\ Main \notin Downloads /\ Deferred \notin Downloads /\ Main # Deferred
  BY AppAssumption DEF CoreInv, TypeOK, ThreadTypes, Threads
<1>2. at'[Main] \in MainPCs
  BY <1>1, MainGoesOn DEF PlacesInv, MainPCs, CancelPCs, AddSteps, ListSteps,
       ShutDownSteps, CancelOrRemove, AddCheckUuid, ClientCancel,
       GetDownloadByUUID, AddCheckUrl, AddRegister, ListLock, SendOne,
       ShutDownLock, AddFind, AddStart, ShutDownReap, SendDownload, ListEnd,
       ShutDownStop, ShutDownEnd, CancelFind, CancelRegister, CancelFlag,
       CancelRelock, RemoveBegin, RemoveLock, RemoveReap, Goto, Home, AfterRemove,
       NewInv, CoreInv, AddPCs
<1>3. ASSUME NEW d \in Downloads
      PROVE  at'[d] \in RunPCs
  <2>1. CASE at'[d] = at[d]
    BY <2>1 DEF PlacesInv
  <2>2. CASE AddStart /\ d = target[Main]
    BY <1>1, <2>2 DEF AddStart, RunPCs
  <2>3. CASE Run(d)
    BY <1>1, <2>3 DEF Run, RunBegin, TransferEnds, RunSignal, CancelFind, CompleteEnter,
       InvokeCallbacks, CompleteFinish, CancelOrRemove, CancelRegister, CancelFlag,
       CancelRelock, RemoveBegin, RemoveLock, RemoveReap, Goto, Home, AfterRemove,
       RunPCs, CancelPCs
  <2> QED
    BY <2>1, <2>2, <2>3, ThreadsGoOn
<1>4. at'[Deferred] \in RemovePCs \cup {"idle"}
  <2>1. ASSUME NEW d \in Downloads, Run(d)
        PROVE  at'[Deferred] = at[Deferred]
    BY <1>1, <2>1 DEF Run, RunBegin, TransferEnds, RunSignal, CancelFind, CompleteEnter,
       InvokeCallbacks, CompleteFinish, CancelOrRemove, CancelRegister, CancelFlag,
       CancelRelock, RemoveBegin, RemoveLock, RemoveReap, Goto
  <2>2. CASE \/ AddSteps \/ ListLock \/ ListSteps \/ ShutDownLock \/ ShutDownSteps
             \/ CancelOrRemove(Main)
             \/ \E d \in Downloads : AddCheckUuid(d) \/ ClientCancel(d) \/ GetDownloadByUUID(d)
    <3>1. at'[Deferred] = at[Deferred]
      BY <1>1, <2>2 DEF AddSteps, ListSteps, ShutDownSteps, CancelOrRemove,
           AddCheckUuid, ClientCancel, GetDownloadByUUID, AddCheckUrl, AddRegister,
           ListLock, SendOne, ShutDownLock, AddFind, AddStart, ShutDownReap,
           SendDownload, ListEnd, ShutDownStop, ShutDownEnd, CancelFind,
           CancelRegister, CancelFlag, CancelRelock, RemoveBegin, RemoveLock,
           RemoveReap, Goto, NewInv, CoreInv, AddPCs
    <3> QED
      BY <3>1 DEF PlacesInv
  <2>3. CASE DeferredTake
    BY <1>1, <2>3 DEF DeferredTake, Goto, RemovePCs
  <2>4. CASE CancelOrRemove(Deferred)
    BY <1>1, <2>4 DEF CancelOrRemove, CancelRegister, CancelFlag, CancelRelock,
         RemoveBegin, RemoveLock, RemoveReap, Goto, AfterRemove, PlacesInv, RemovePCs
  <2>5. CASE UNCHANGED vars
    BY <2>5 DEF vars, threadvars, PlacesInv
  <2> QED
    BY <2>1, <2>2, <2>3, <2>4, <2>5 DEF Next, PlacesInv
<1> QED
  BY <1>2, <1>3, <1>4 DEF PlacesInv

(* No thread ever leaves its code.                                           *)
LEMMA PlacesInvariant == Spec => []PlacesInv
<1>1. Init => PlacesInv
  <2> SUFFICES ASSUME Init PROVE PlacesInv
    OBVIOUS
  <2>1. /\ at[Main] = "ready" /\ at[Deferred] = "idle"
        /\ \A d \in Downloads : at[d] = "unborn"
    BY AppAssumption DEF Init, Threads
  <2> QED
    BY <2>1 DEF PlacesInv, MainPCs, RunPCs
<1>2. CoreInv /\ PlacesInv /\ [Next]_vars => PlacesInv'
  BY PlacesInvKeeps
<1> QED
  BY <1>1, <1>2, CoreInvariant, PTL DEF Spec

(* Where a holder of the lock comes from: he has just taken it, or nothing   *)
(* that he has found has changed.                                            *)
LEMMA HolderKeeps ==
  ASSUME CoreInv, PlacesInv, [Next]_vars, NEW t \in Threads,
         at'[t] \in {"cancelRegister", "cancelFlag", "removeReap"}
  PROVE  \/ at'[t] = "cancelRegister" /\ \E d \in Downloads : CancelFind(t, d)
         \/ at'[t] = "cancelFlag" /\ CancelRegister(t)
         \/ at'[t] = "removeReap" /\ RemoveLock(t)
         \/ UNCHANGED <<at[t], target[t], hit[t], transfers>>
<1>1. /\ at \in [Threads -> MainPCs \cup RunPCs \cup {"idle"}]
      /\ target \in [Threads -> Downloads \cup {None}] /\ hit \in [Threads -> Nat]
      /\ Main \in Threads /\ Deferred \in Threads /\ Downloads \subseteq Threads
      /\ Main \notin Downloads /\ Deferred \notin Downloads /\ Main # Deferred
  BY AppAssumption DEF CoreInv, TypeOK, ThreadTypes, Threads
<1>2. ASSUME at'[t] = at[t]
      PROVE  UNCHANGED transfers
  <2>1. Holds(t)
    BY <1>2 DEF Holds
  <2>2. \A u \in Threads : Holds(u) => u = t
    BY <2>1 DEF CoreInv, LockInv
  <2>3. ~AddRegister
    BY <2>1, AppAssumption DEF AddRegister, CoreInv, LockInv, Threads
  <2>4. ~ShutDownEnd
    BY <1>1, <1>2, <2>2 DEF ShutDownEnd, Holds, StopPCs
  <2>5. \A u \in Threads : ~RemoveReap(u)
    BY <1>1, <1>2, <2>2 DEF RemoveReap, Holds, Goto, AfterRemove
  <2> QED
    BY <2>3, <2>4, <2>5, Rewrites
<1>3. CASE AddSteps
  BY <1>1, <1>2, <1>3 DEF AddSteps, AddCheckUrl, AddFind, AddRegister, AddStart, Goto
<1>4. CASE \E d \in Downloads : AddCheckUuid(d) \/ GetDownloadByUUID(d)
  BY <1>1, <1>2, <1>4 DEF AddCheckUuid, GetDownloadByUUID, Goto, Set
<1>5. ASSUME NEW u \in Threads, NEW d \in Downloads, CancelFind(u, d), Home(u) \in {"ready", "complete"}
      PROVE  \/ at'[t] = "cancelRegister" /\ CancelFind(t, d)
             \/ UNCHANGED <<at[t], target[t], hit[t], transfers>>
  BY <1>1, <1>5 DEF CancelFind, Goto, Set
<1>6. CASE ListLock \/ ListSteps \/ ShutDownLock \/ ShutDownSteps
  BY <1>1, <1>2, <1>6 DEF ListLock, ListSteps, SendDownload, ListEnd, SendOne,
       ShutDownLock, ShutDownSteps, ShutDownStop, ShutDownReap, ShutDownEnd, Goto
<1>7. ASSUME NEW u \in Threads, CancelOrRemove(u), u # t
      PROVE  UNCHANGED <<at[t], target[t], hit[t]>>
  BY <1>1, <1>7 DEF CancelOrRemove, CancelRegister, CancelFlag, CancelRelock,
       RemoveBegin, RemoveLock, RemoveReap, Goto
<1>8. ASSUME CancelOrRemove(t)
      PROVE  \/ at'[t] = "cancelFlag" /\ CancelRegister(t)
             \/ at'[t] = "removeReap" /\ RemoveLock(t)
  BY <1>1, <1>8 DEF CancelOrRemove, CancelRegister, CancelFlag, CancelRelock,
       RemoveBegin, RemoveLock, RemoveReap, Goto, Home, AfterRemove
<1>9. CASE DeferredTake
  BY <1>1, <1>2, <1>9 DEF DeferredTake, Goto, Set
<1>10. ASSUME NEW d \in Downloads, \/ RunBegin(d) \/ TransferEnds(d) \/ CompleteEnter(d)
                                   \/ InvokeCallbacks(d) \/ CompleteFinish(d)
                                   \/ (RunSignal(d) /\ ~CancelFind(d, d))
       PROVE  UNCHANGED <<at[t], target[t], hit[t], transfers>>
  BY <1>1, <1>10 DEF RunBegin, TransferEnds, RunSignal, CompleteEnter, InvokeCallbacks,
       CompleteFinish, Goto
<1>11. CASE UNCHANGED vars
  BY <1>11 DEF vars, threadvars
<1>12. \A u \in Threads : Home(u) \in {"ready", "complete"}
  BY DEF Home
<1> QED
  BY <1>1, <1>2, <1>3, <1>4, <1>5, <1>6, <1>7, <1>8, <1>9, <1>10, <1>11, <1>12
     DEF Next, Run, ClientCancel

(* Where ShutDown is in the list changes with what it deletes.               *)
LEMMA StopGoesOn ==
  ASSUME CoreInv, [Next]_vars, at'[Main] \in StopPCs, ~ShutDownReap
  PROVE  \/ at[Main] \in StopPCs /\ UNCHANGED index
         \/ ShutDownLock
<1>1. /\ at \in [Threads -> MainPCs \cup RunPCs \cup {"idle"}] /\ Main \in Threads
  BY DEF CoreInv, TypeOK, ThreadTypes, Threads
<1>2. at[Main] \in StopPCs \/ ShutDownLock
  BY <1>1, MainGoesOn DEF AddSteps, ListSteps, StopPCs,
       ShutDownSteps, CancelOrRemove, AddCheckUuid, ClientCancel,
       GetDownloadByUUID, AddCheckUrl, AddRegister, ListLock, SendOne,
       AddFind, AddStart, SendDownload, ListEnd,
       ShutDownStop, ShutDownEnd, CancelFind, CancelRegister, CancelFlag,
       CancelRelock, RemoveBegin, RemoveLock, RemoveReap, Goto, Home, AfterRemove,
       NewInv, CoreInv, AddPCs
<1>3. at[Main] \in StopPCs => ~SendDownload /\ ~ListEnd
  BY DEF StopPCs, SendDownload, ListEnd
<1> QED
  BY <1>2, <1>3, Writers

(* The list keeps to the living.                                             *)
LEMMA LiveInvKeeps ==
  ASSUME CoreInv, LifeInv, PlacesInv, LiveInv, NoDuplicateUrl, [Next]_vars
  PROVE  LiveInv'
<1> DEFINE Passed(k) == at[Main] \in StopPCs /\ k < index
           Passed1(k) == at'[Main] \in StopPCs /\ k < index'
           Listed1 == \A k \in DOMAIN transfers' :
                         obj'[transfers'[k]] = IF Passed1(k) THEN "freed" ELSE "live"
<1>1. /\ at \in [Threads -> MainPCs \cup RunPCs \cup {"idle"}]
      /\ target \in [Threads -> Downloads \cup {None}] /\ hit \in [Threads -> Nat]
      /\ Main \in Threads /\ Deferred \in Threads /\ Downloads \subseteq Threads
      /\ Main \notin Downloads /\ Deferred \notin Downloads /\ Main # Deferred
      /\ transfers \in Seq(Downloads) /\ index \in Nat
      /\ obj \in [Downloads -> {"none", "live", "freed"}]
  BY AppAssumption DEF CoreInv, TypeOK, ThreadTypes, ListTypes, DownloadTypes, Threads
<1>2. \A k \in DOMAIN transfers : /\ transfers[k] \in Downloads
                                  /\ obj[transfers[k]] = IF Passed(k) THEN "freed" ELSE "live"
  BY <1>1 DEF LiveInv
<1>3. \A j, k \in DOMAIN transfers : transfers[j] = transfers[k] => j = k
  BY DEF NoDuplicateUrl
<1>4. Listed1
  <2>1. CASE ShutDownReap
    <3>1. /\ at[Main] = "stopReap" /\ at'[Main] = "stop" /\ UNCHANGED transfers
          /\ index' = index + 1 /\ obj' = [obj EXCEPT ![transfers[index]] = "freed"]
      BY <1>1, <2>1 DEF ShutDownReap, Goto
    <3>2. index \in DOMAIN transfers
      BY <1>1, <3>1 DEF LifeInv, StartedInv
    <3>3. ASSUME NEW k \in DOMAIN transfers
          PROVE  obj'[transfers[k]] = IF k < index + 1 THEN "freed" ELSE "live"
      <4>1. CASE k = index
        BY <1>1, <1>2, <3>1, <3>2, <4>1
      <4>2. CASE k # index
        <5>1. obj'[transfers[k]] = obj[transfers[k]]
          BY <1>1, <1>2, <1>3, <3>1, <3>2, <4>2
        <5>2. k < index + 1 <=> k < index
          BY <1>1, <4>2
        <5> QED
          BY <1>2, <3>1, <5>1, <5>2 DEF StopPCs
      <4> QED
        BY <4>1, <4>2
    <3> QED
      BY <3>1, <3>3 DEF StopPCs
  <2>2. CASE ShutDownEnd
    BY <2>2 DEF ShutDownEnd
  <2>3. ASSUME ~ShutDownReap, ~ShutDownEnd
        PROVE  \A k \in Nat : k >= 1 => (Passed1(k) <=> Passed(k))
    <3>1. CASE at'[Main] \in StopPCs
      <4>1. CASE ShutDownLock
        <5>1. index = 1 /\ UNCHANGED index
          BY <4>1 DEF ShutDownLock, LiveInv, StopPCs
        <5> QED
          BY <5>1
      <4>2. CASE at[Main] \in StopPCs /\ UNCHANGED index
        BY <3>1, <4>2
      <4> QED
        BY <2>3, <3>1, <4>1, <4>2, StopGoesOn
    <3>2. CASE at'[Main] \notin StopPCs
      <4>1. at[Main] \notin StopPCs
        BY <1>1, <2>3, <3>2, MainGoesOn DEF AddSteps, ListSteps, StopPCs,
             ShutDownSteps, CancelOrRemove, AddCheckUuid, ClientCancel,
             GetDownloadByUUID, AddCheckUrl, AddRegister, ListLock, SendOne,
             AddFind, AddStart, SendDownload, ListEnd, ShutDownLock,
             ShutDownStop, CancelRegister, CancelFlag, CancelRelock, RemoveBegin,
             RemoveLock, RemoveReap, Goto
      <4> QED
        BY <3>2, <4>1
    <3> QED
      BY <3>1, <3>2
  <2>4. CASE AddRegister
    <3> DEFINE new == target[Main]
    <3>1. /\ transfers' = Append(transfers, new) /\ UNCHANGED obj
          /\ at[Main] = "addRegister"
      BY <2>4 DEF AddRegister
    <3>2. new \in Downloads /\ obj[new] = "live"
      BY <1>1, <3>1 DEF CoreInv, NewInv, AddPCs, LifeInv, FarInv
    <3>3. \A k \in DOMAIN transfers' : /\ k \in Nat /\ k >= 1
                                       /\ \/ k \in DOMAIN transfers /\ transfers'[k] = transfers[k]
                                          \/ transfers'[k] = new
      BY <1>1, <3>1, <3>2
    <3>4. ~ShutDownReap /\ ~ShutDownEnd /\ \A k \in Nat : ~Passed(k)
      BY <3>1 DEF ShutDownReap, ShutDownEnd, StopPCs
    <3> HIDE DEF new, Passed, Passed1
    <3> QED
      BY <1>2, <2>3, <3>1, <3>2, <3>3, <3>4
  <2>5. ASSUME NEW t \in Threads, RemoveReap(t)
        PROVE  Listed1
    <3> DEFINE i == hit[t]
               e == target[t]
    <3>1. /\ at[t] = "removeReap" /\ transfers' = RemoveAt(transfers, i)
          /\ obj' = [obj EXCEPT ![e] = "freed"] /\ UNCHANGED index
          /\ at'[t] \notin StopPCs
      BY <1>1, <2>5 DEF RemoveReap, Goto, AfterRemove, StopPCs
    <3>2. i \in DOMAIN transfers /\ UrlOf[transfers[i]] = UrlOf[e] /\ e \in Downloads
      BY <3>1 DEF CoreInv, EntryInv, LiveInv, LifeInv, LateInv, CancelPCs
    <3>3. Without(transfers', transfers, i)
      BY <1>1, <3>1, <3>2, Erased
    <3>4. \A k \in DOMAIN transfers' :
             \E j \in DOMAIN transfers \ {i} : transfers'[k] = transfers[j]
      BY <3>3 DEF Without
    <3>5. \A j \in DOMAIN transfers \ {i} : transfers[j] # e
      BY <3>2 DEF NoDuplicateUrl
    <3>6. at[Main] \notin StopPCs
      BY <1>1, <3>1 DEF CoreInv, LockInv, Holds, StopPCs
    <3>7. at'[Main] \notin StopPCs
      BY <1>1, <2>5, <3>1, <3>6 DEF RemoveReap, Goto
    <3> HIDE DEF i, e
    <3>8. \A j \in DOMAIN transfers \ {i} : obj'[transfers[j]] = "live"
      BY <1>1, <1>2, <3>1, <3>5, <3>6
    <3> QED
      BY <3>4, <3>7, <3>8
  <2>6. CASE AddFind
    <3> DEFINE new == target[Main]
    <3>1. /\ obj' = [obj EXCEPT ![new] = "live"] \/ UNCHANGED obj
          /\ UNCHANGED transfers /\ at[Main] = "addFind"
      BY <2>6 DEF AddFind
    <3>2. ~ShutDownReap /\ ~ShutDownEnd /\ \A k \in Nat : ~Passed(k)
      BY <3>1 DEF ShutDownReap, ShutDownEnd, StopPCs
    <3>3. \A k \in DOMAIN transfers : k \in Nat /\ k >= 1
      BY <1>1
    <3> HIDE DEF Passed, Passed1, new
    <3>4. \A k \in DOMAIN transfers : transfers[k] \in Downloads /\ obj[transfers[k]] = "live"
      BY <1>2, <3>2, <3>3
    <3>5. \A k \in DOMAIN transfers : obj'[transfers[k]] = "live"
      BY <1>1, <3>1, <3>4
    <3> QED
      BY <2>3, <3>1, <3>2, <3>3, <3>5
  <2>7. CASE ~ShutDownReap /\ ~ShutDownEnd /\ UNCHANGED <<transfers, obj>>
    <3>1. \A k \in DOMAIN transfers : k \in Nat /\ k >= 1
      BY <1>1
    <3> HIDE DEF Passed, Passed1
    <3> QED
      BY <1>2, <2>3, <2>7, <3>1
  <2> HIDE DEF Listed1
  <2> QED
    BY <2>1, <2>2, <2>4, <2>5, <2>6, <2>7, Writers, Rewrites
<1>5. ASSUME NEW t \in Threads, at'[t] \in {"cancelRegister", "cancelFlag"}
      PROVE  \E k \in DOMAIN transfers' : transfers'[k] = target'[t]
  <2>1. ASSUME NEW d \in Downloads, CancelFind(t, d), at'[t] = "cancelRegister"
        PROVE  \E k \in DOMAIN transfers' : transfers'[k] = target'[t]
    BY <1>1, <2>1, CancelAsks DEF Asks, Goto, Home
  <2>2. CASE CancelRegister(t)
    BY <1>1, <2>2 DEF CancelRegister, LiveInv
  <2>3. CASE UNCHANGED <<at[t], target[t], hit[t], transfers>>
    BY <1>5, <2>3 DEF LiveInv
  <2> QED
    BY <1>5, <2>1, <2>2, <2>3, HolderKeeps
<1>6. ASSUME at'[Main] = "listOne"
      PROVE  \E k \in DOMAIN transfers' : transfers'[k] = target'[Main]
  <2>1. ASSUME NEW d \in Downloads, GetDownloadByUUID(d)
        PROVE  \E k \in DOMAIN transfers' : transfers'[k] = target'[Main]
    <3>1. FindByUUID(UuidOf[d]) \in DOMAIN transfers
      BY <1>1, <2>1, SearchFinds DEF GetDownloadByUUID
    <3>2. UNCHANGED transfers /\ target'[Main] = transfers[FindByUUID(UuidOf[d])]
      BY <1>1, <2>1 DEF GetDownloadByUUID, Set
    <3> QED
      BY <3>1, <3>2
  <2>2. ASSUME \A d \in Downloads : ~GetDownloadByUUID(d)
        PROVE  UNCHANGED <<at[Main], target[Main]>>
    BY <1>1, <1>6, <2>2, MainGoesOn DEF AddSteps, ListSteps, StopPCs,
         ShutDownSteps, CancelOrRemove, AddCheckUuid, ClientCancel,
         AddCheckUrl, AddRegister, ListLock, SendOne,
         AddFind, AddStart, SendDownload, ListEnd, ShutDownLock, ShutDownReap, ShutDownEnd,
         ShutDownStop, CancelFind, CancelRegister, CancelFlag, CancelRelock, RemoveBegin,
         RemoveLock, RemoveReap, Goto, Home, AfterRemove, CoreInv, NewInv, AddPCs
  <2>3. CASE UNCHANGED <<at[Main], target[Main]>>
    <3>1. at[Main] = "listOne" /\ Holds(Main)
      BY <1>6, <2>3 DEF Holds
    <3>2. ~AddRegister /\ ~ShutDownEnd
      BY <3>1 DEF AddRegister, ShutDownEnd
    <3>3. \A u \in Threads : ~RemoveReap(u)
      BY <1>1, <3>1 DEF RemoveReap, CoreInv, LockInv, Holds
    <3>4. UNCHANGED transfers
      BY <3>2, <3>3, Rewrites
    <3> QED
      BY <2>3, <3>1, <3>4, <1>1 DEF LiveInv
  <2> QED
    BY <2>1, <2>2, <2>3
<1>7. ASSUME NEW t \in Threads, at'[t] = "removeReap"
      PROVE  UrlOf[transfers'[hit'[t]]] = UrlOf[target'[t]]
  <2>1. CASE RemoveLock(t)
    <3> DEFINE h == FindByURL(UrlOf[target[t]])
    <3>1. h # 0 /\ hit'[t] = h /\ UNCHANGED <<target, transfers>>
      BY <1>1, <1>7, <2>1 DEF RemoveLock, Goto, AfterRemove
    <3>2. UrlOf[transfers[h]] = UrlOf[target[t]]
      BY <1>1, <3>1, SearchFinds
    <3> QED
      BY <3>1, <3>2
  <2>2. CASE UNCHANGED <<at[t], target[t], hit[t], transfers>>
    BY <1>7, <2>2 DEF LiveInv
  <2> QED
    BY <1>7, <2>1, <2>2, HolderKeeps
<1>8. index' = 1 \/ at'[Main] \in {"list", "exited"} \cup StopPCs
  <2>1. CASE ListEnd \/ SendDownload \/ ShutDownReap
    BY <1>1, <2>1 DEF ListEnd, SendDownload, ShutDownReap, Goto, StopPCs
  <2>2. CASE UNCHANGED index /\ index # 1 /\ ~ListEnd
    <3>1. at[Main] \in {"list", "exited"} \cup StopPCs
      BY <2>2 DEF LiveInv
    <3> QED
      BY <1>1, <2>2, <3>1, MainGoesOn DEF AddSteps, ListSteps, StopPCs,
         ShutDownSteps, CancelOrRemove, AddCheckUuid, ClientCancel, GetDownloadByUUID,
         AddCheckUrl, AddRegister, ListLock, SendOne,
         AddFind, AddStart, SendDownload, ShutDownLock, ShutDownReap, ShutDownEnd,
         ShutDownStop, CancelRegister, CancelFlag, CancelRelock, RemoveBegin,
         RemoveLock, RemoveReap, Goto
  <2> QED
    BY <2>1, <2>2, Writers
<1> QED
  BY <1>4, <1>5, <1>6, <1>7, <1>8 DEF LiveInv

(* Only a removal uses a deleted download, and only the one it is to delete; *)
(* the next to take the lock finds none in the list.                         *)
OnlyRemovalsUseFreed ==
    /\ \A t \in Threads : \A d \in Uses(t) :
           obj[d] # "live" => at[t] \in RemovePCs /\ d = target[t]
    /\ transfermutex = None => \A d \in ToSet(transfers) : obj[d] = "live"

(* Whatever the clients cancel, and however often: no listing, no search, no *)
(* thread and no shutdown ever uses a deleted download; what ftdapp_twice    *)
(* finds, a removal that comes after another one, is all that goes wrong.    *)
THEOREM SecondRemovalsAreAllThatFails ==
  ASSUME UrlsAsSent
  PROVE  Spec => []OnlyRemovalsUseFreed
<1>1. Init => LiveInv
  <2> SUFFICES ASSUME Init PROVE LiveInv
    OBVIOUS
  <2>1. /\ transfers = <<>> /\ index = 1
        /\ \A t \in Threads : at[t] \in {"ready", "idle", "unborn"}
    BY DEF Init
  <2> QED
    BY <2>1 DEF LiveInv
<1>2. /\ CoreInv /\ LifeInv /\ PlacesInv /\ NoDuplicateUrl /\ LiveInv /\ [Next]_vars
      => LiveInv'
  BY LiveInvKeeps
<1>3. ASSUME CoreInv, LifeInv, PlacesInv, LiveInv
      PROVE  OnlyRemovalsUseFreed
  <2>1. /\ transfers \in Seq(Downloads) /\ index \in Nat /\ index >= 1
        /\ obj \in [Downloads -> {"none", "live", "freed"}]
        /\ Main \notin Downloads /\ Deferred \notin Downloads
    BY <1>3, AppAssumption DEF CoreInv, TypeOK, ListTypes, ThreadTypes, DownloadTypes,
         LifeInv, StartedInv
  <2>2. \A k \in DOMAIN transfers :
           k >= index \/ at[Main] \notin StopPCs => obj[transfers[k]] = "live"
    BY <1>3, <2>1 DEF LiveInv
  <2>3. ASSUME NEW t \in Threads, NEW d \in Uses(t), obj[d] # "live"
        PROVE  at[t] \in RemovePCs /\ d = target[t]
    <3>1. ~(d = target[t] /\ at[t] \in {"addRegister", "addStart"})
      <4> SUFFICES ASSUME d = target[t] /\ at[t] \in {"addRegister", "addStart"} PROVE FALSE
        OBVIOUS
      <4>1. t = Main
        BY <1>3 DEF PlacesInv, RunPCs, RemovePCs, CancelPCs, Threads
      <4> QED
        BY <1>3, <2>1, <2>3, <4>1 DEF CoreInv, NewInv, AddPCs, LifeInv, FarInv
    <3>2. ~(d = target[t] /\ at[t] \in {"cancelRegister", "cancelFlag", "listOne"})
      <4> SUFFICES ASSUME d = target[t] /\ at[t] \in {"cancelRegister", "cancelFlag", "listOne"}
                   PROVE  FALSE
        OBVIOUS
      <4>1. at[t] = "listOne" => t = Main
        BY <1>3 DEF PlacesInv, RunPCs, RemovePCs, CancelPCs, Threads
      <4>2. \E k \in DOMAIN transfers : transfers[k] = d
        BY <1>3, <4>1 DEF LiveInv
      <4>3. Main \in Threads /\ at[Main] \in StopPCs => t = Main
        BY <1>3, <4>1 DEF CoreInv, LockInv, Holds
      <4>4. at[Main] \notin StopPCs
        BY <4>3 DEF StopPCs, Threads
      <4> QED
        BY <2>2, <2>3, <4>2, <4>4
    <3>3. ~(d = t /\ t \in Downloads /\ at[t] \notin {"unborn", "ended"})
      BY <1>3, <2>1, <2>3 DEF CoreInv, NewInv, LifeInv, FarInv
    <3>4. ~(d = transfers[index] /\ ((at[t] \in {"stop", "list"} /\ index <= Len(transfers))
                                     \/ at[t] = "stopReap"))
      <4> SUFFICES ASSUME d = transfers[index],
                          (at[t] \in {"stop", "list"} /\ index <= Len(transfers))
                              \/ at[t] = "stopReap"
                   PROVE  FALSE
        OBVIOUS
      <4>1. t = Main
        BY <1>3 DEF PlacesInv, RunPCs, RemovePCs, CancelPCs, Threads
      <4>2. index \in DOMAIN transfers
        BY <1>3, <2>1, <4>1 DEF LifeInv, StartedInv
      <4> QED
        BY <2>1, <2>2, <2>3, <4>2
    <3> QED
      BY <2>3, <3>1, <3>2, <3>3, <3>4 DEF Uses, RemovePCs
  <2>4. ASSUME transfermutex = None
        PROVE  \A d \in ToSet(transfers) : obj[d] = "live"
    <3>1. at[Main] \notin StopPCs
      BY <1>3, <2>4, AppAssumption DEF CoreInv, LockInv, Holds, Threads
    <3> QED
      BY <2>2, <3>1 DEF ToSet
  <2> QED
    BY <2>3, <2>4 DEF OnlyRemovalsUseFreed
<1> QED
  BY <1>1, <1>2, <1>3, CoreInvariant, LifeInvariant, PlacesInvariant, UrlsAreUnique, PTL
     DEF Spec

-------------------------------------------------------------------------------
(* What a cancel finds, and who erases, when the clients are Considerate.    *)

(* A client's cancel finds a live download whose removal nobody has asked for.*)
LEMMA ClientFinds ==
  ASSUME AppInv, NEW d \in Downloads, ClientCancel(d), Sought(d) # 0
  PROVE  LET e == transfers[Sought(d)]
         IN  /\ e \in Downloads /\ MayAsk(Main, e)
             /\ plan.cancels[d] = 1
             /\ \A c \in Downloads : Reaches(c, e) /\ c # d => plan.cancels[c] = 0
<1> DEFINE e == transfers[Sought(d)]
<1>1. at[Main] = "ready" /\ plan.cancels[d] > 0
  BY DEF ClientCancel
<1>2. Sought(d) \in DOMAIN transfers /\ Reaches(d, e)
  BY SoughtReaches DEF AppInv, ListTypes
<1>3. e \in Downloads
  BY <1>2 DEF AppInv, ListTypes
<1>4. plan.cancels \in [Downloads -> Nat]
  BY DEF AppInv, PlanType
<1> HIDE DEF e
<1>5. e \notin asked
  BY <1>1, <1>2 DEF AppInv, PlanInv
<1>6. ~AutoRemove(e) /\ ~plan.stop
  BY <1>1, <1>2, <1>3 DEF AppInv, PlanInv, OneRemoverEach, AutoRemove
<1>7. \A c \in Downloads :
         Reaches(c, e) /\ plan.cancels[c] > 0 => c = d /\ plan.cancels[d] = 1
  BY <1>1, <1>2, <1>3 DEF AppInv, PlanInv, OneRemoverEach
<1>8. obj[e] = "live"
  BY <1>1, <1>2 DEF AppInv, ListedInv, StopPCs, e
<1>9. at[e] # "unborn" /\ callbacks[e] = 0
  BY <1>1, <1>3, <1>5, <1>8 DEF AppInv, AddInv, WorkInv
<1> QED
  BY <1>1, <1>2, <1>3, <1>4, <1>5, <1>6, <1>7, <1>8, <1>9 DEF e, MayAsk

(* A download's own thread finds its own, whose removal nobody has asked for. *)
LEMMA SignalFinds ==
  ASSUME AppInv, NEW d \in Downloads, at[d] = "signal", AutoRemove(d)
  PROVE  Sought(d) \in DOMAIN transfers /\ transfers[Sought(d)] = d /\ MayAsk(d, d)
<1>1. obj[d] = "live"
  BY DEF AppInv, ThreadInv, DownloadTypes
<1>2. PICK k \in DOMAIN transfers : transfers[k] = d
  BY <1>1 DEF AppInv, ListedInv, AddInv
<1>3. Sought(d) = k
  BY <1>2, SoughtReaches DEF AppInv, ListTypes
<1>4. d \notin asked
  BY DEF AppInv, PlanInv
<1>5. callbacks[d] = 0
  BY <1>4 DEF AppInv, WorkInv
<1> QED
  BY <1>1, <1>2, <1>3, <1>4, <1>5 DEF AppInv, PlanInv, OneRemoverEach, AutoRemove,
       MayAsk

(* The removal that erases a download has waited for the end of its thread,  *)
(* and no other removal of it is left anywhere.                              *)
LEMMA ReapsAlone ==
  ASSUME AppInv, NEW t \in Threads, RemoveReap(t)
  PROVE  LET e == target[t]
         IN  /\ e \in Downloads /\ e \in asked /\ obj[e] = "live" /\ at[e] = "ended"
             /\ hit[t] \in DOMAIN transfers /\ transfers[hit[t]] = e
             /\ t \in {Main, Deferred}
             /\ at[Main] \notin StopPCs \cup {"exited", "listOne"}
             /\ \A u \in Threads :
                   at[u] \in CancelPCs \ {"cancelRelock"} /\ target[u] = e => u = t
             /\ \A k \in DOMAIN work : work[k] # e
<1> DEFINE e == target[t]
<1>1. at[t] = "removeReap" /\ ReapOK(e) /\ t \in Threads
  BY DEF RemoveReap
<1>2. e \in asked /\ obj[e] = "live"
  BY <1>1 DEF AppInv, RequestInv, CancelPCs
<1>3. e \in Downloads
  BY <1>2 DEF AppInv, ListTypes
<1>4. hit[t] \in DOMAIN transfers /\ transfers[hit[t]] = e
  BY <1>1 DEF AppInv, HitInv
<1>5. t \in {Main, Deferred}
  BY <1>1 DEF AppInv, PCInv, OwnPCs, Threads
<1>6. at[e] = "ended"
  <2>1. status[e] # "NOTSTARTED"
    BY <1>2, <1>3 DEF AppInv, ThreadInv
  <2> QED
    BY <1>1, <1>3, <2>1 DEF ReapOK, AppInv, ThreadInv
<1>7. transfermutex = t
  BY <1>1 DEF AppInv, LockInv, Holds
<1>8. at[Main] \notin StopPCs \cup {"listOne"}
  BY <1>1, <1>5, <1>7, AppAssumption DEF AppInv, LockInv, Holds, StopPCs, Threads
<1>9. at[Main] # "exited"
  BY <1>2, <1>3 DEF AppInv, PCInv, PlanInv
<1>10. ASSUME NEW u \in Threads, at[u] \in CancelPCs \ {"cancelRelock"}, target[u] = e
       PROVE  u = t
  <2> HIDE DEF e
  <2>1. u \notin Downloads
    BY <1>3, <1>6, <1>10 DEF AppInv, PCInv, RequestInv, OwnPCs, CancelPCs
  <2>2. at[u] \notin {"cancelRegister", "cancelFlag"}
    BY <1>1, <1>7, <1>10, AppAssumption DEF AppInv, LockInv, Holds, Threads
  <2>3. at[u] \in RemovePCs
    BY <1>10, <2>2 DEF CancelPCs, RemovePCs
  <2>4. t = Main => callbacks[e] = 0
    BY <1>1 DEF AppInv, RequestInv, RemovePCs, e
  <2>5. t = Deferred => callbacks[e] = 1
    BY <1>1 DEF AppInv, WorkInv, RemovePCs, e
  <2>6. u = Main => callbacks[e] = 0
    BY <1>10, <2>3 DEF AppInv, RequestInv
  <2>7. u = Deferred => callbacks[e] = 1
    BY <1>10, <2>3 DEF AppInv, WorkInv
  <2> QED
    BY <1>5, <2>1, <2>4, <2>5, <2>6, <2>7 DEF Threads
<1>11. \A k \in DOMAIN work : work[k] # e
  <2>1. t = Main => callbacks[e] = 0
    BY <1>1 DEF AppInv, RequestInv, RemovePCs
  <2>2. t = Main => \A k \in DOMAIN work : work[k] # e
    BY <2>1 DEF AppInv, WorkInv
  <2>3. t = Deferred => \A k \in DOMAIN work : work[k] # e
    BY <1>1 DEF AppInv, WorkInv, RemovePCs
  <2> QED
    BY <1>5, <2>2, <2>3
<1> QED
  BY <1>2, <1>3, <1>4, <1>5, <1>6, <1>8, <1>9, <1>10, <1>11

(* What it leaves of the list are the other entries.                         *)
LEMMA ReapErases ==
  ASSUME AppInv, NEW t \in Threads, RemoveReap(t)
  PROVE  transfers' \in Seq(Downloads) /\ Without(transfers', transfers, hit[t])
<1>1. transfers' = RemoveAt(transfers, hit[t])
  BY DEF RemoveReap
<1>2. transfers \in Seq(Downloads) /\ hit[t] \in DOMAIN transfers
  BY ReapsAlone DEF AppInv, ListTypes
<1> QED
  BY <1>1, <1>2, Erased

(* ShutDown deletes a download whose thread has ended.                       *)
LEMMA ShutDownReapsEnded ==
  ASSUME AppInv, ShutDownReap
  PROVE  LET e == transfers[index]
         IN  /\ at[Main] = "stopReap" /\ index \in DOMAIN transfers /\ e \in Downloads
             /\ obj[e] = "live" /\ at[e] = "ended"
<1> DEFINE e == transfers[index]
<1>1. at[Main] = "stopReap" /\ ReapOK(e)
  BY DEF ShutDownReap
<1>2. index \in DOMAIN transfers /\ e \in Downloads
  BY <1>1 DEF AppInv, IndexInv, ThreadTypes, ListTypes
<1>3. obj[e] = "live"
  BY <1>2 DEF AppInv, ListedInv, ThreadTypes
<1> HIDE DEF e
<1>4. status[e] # "NOTSTARTED"
  BY <1>1, <1>2, <1>3 DEF AppInv, AddInv, ThreadInv
<1>5. at[e] = "ended"
  BY <1>1, <1>2, <1>4 DEF ReapOK, AppInv, ThreadInv
<1> QED
  BY <1>1, <1>2, <1>3, <1>5 DEF e

-------------------------------------------------------------------------------
(* Every step keeps the invariant.                                           *)

(* The uuid that has passed the test is of no entry of the list.             *)
LEMMA AddCheckUuidKeeps ==
  ASSUME AppInv, CoreInv', NEW d \in Downloads, AddCheckUuid(d)
  PROVE  AppInv'
<1>1. DistinctInv'
  BY DEF AppInv, ListTypes, DownloadTypes, PlanType, DistinctInv, AddCheckUuid, dlvars
<1>2. PlanInv'
  BY DEF AppInv, PlanInv, ThreadTypes, ListTypes, AddCheckUuid, Goto, Threads,
       AutoRemove
<1>3. PCInv'
  BY AppAssumption DEF AppInv, PCInv, ThreadTypes, AddCheckUuid, Goto, Threads,
       StopPCs, MainPCs
<1>4. ThreadInv'
  BY DEF AppInv, ThreadInv, ThreadTypes, AddCheckUuid, Goto, dlvars, Threads
<1>5. ListedInv'
  BY DEF AppInv, ListedInv, ThreadTypes, AddCheckUuid, Goto, StopPCs
<1>6. IndexInv'
  BY DEF AppInv, IndexInv, ThreadTypes, AddCheckUuid, Goto, StopPCs
<1>7. AddInv'
  <2>1. obj[d] = "none" /\ at[Main] = "ready"
    BY DEF AddCheckUuid
  <2>2. CASE FindByUUID(UuidOf[d]) # 0
    BY <2>1, <2>2 DEF AddCheckUuid, AppInv, AddInv, dlvars
  <2>3. CASE FindByUUID(UuidOf[d]) = 0
    <3>1. \A k \in DOMAIN transfers : UuidOf[transfers[k]] # UuidOf[d]
      BY <2>3, SearchFinds DEF AppInv, ListTypes
    <3>2. target'[Main] = d /\ at'[Main] = "addUrl" /\ \A x \in Downloads : at'[x] = at[x]
      BY <2>3, AppAssumption DEF AddCheckUuid, Goto, Set, AppInv, ThreadTypes, Threads
    <3>3. UNCHANGED <<transfers, obj>>
      BY DEF AddCheckUuid
    <3> QED
      BY <2>1, <3>1, <3>2, <3>3 DEF AppInv, AddInv
  <2> QED
    BY <2>2, <2>3
<1>8. RequestInv'
  BY DEF AppInv, RequestInv, ThreadTypes, AddCheckUuid, Goto, Set, dlvars, Threads,
       RemovePCs, CancelPCs, AutoRemove
<1>9. WorkInv'
  BY AppAssumption DEF AppInv, WorkInv, ThreadTypes, ListTypes, AddCheckUuid, Goto,
       Set, dlvars, Threads
<1>10. HitInv'
  BY DEF AppInv, HitInv, ThreadTypes, AddCheckUuid, Goto, Set
<1> QED
  BY <1>1, <1>2, <1>3, <1>4, <1>5, <1>6, <1>7, <1>8, <1>9, <1>10
       DEF AppInv, CoreInv, TypeOK

(* Nor is the URL, which the test compares as it was sent.                   *)
LEMMA AddCheckUrlKeeps ==
  ASSUME AppInv, CoreInv', Considerate, AddCheckUrl
  PROVE  AppInv'
<1>1. DistinctInv'
  BY DEF AppInv, ListTypes, DownloadTypes, PlanType, DistinctInv, AddCheckUrl, dlvars
<1>2. PlanInv'
  BY DEF AppInv, PlanInv, ThreadTypes, ListTypes, AddCheckUrl, Goto, Threads,
       AutoRemove
<1>3. PCInv'
  BY AppAssumption DEF AppInv, PCInv, ThreadTypes, AddCheckUrl, Goto, Threads, StopPCs,
       MainPCs
<1>4. ThreadInv'
  BY DEF AppInv, ThreadInv, ThreadTypes, AddCheckUrl, Goto, dlvars, Threads
<1>5. ListedInv'
  BY DEF AppInv, ListedInv, ThreadTypes, AddCheckUrl, Goto, StopPCs
<1>6. IndexInv'
  BY DEF AppInv, IndexInv, ThreadTypes, AddCheckUrl, Goto, StopPCs
<1>7. AddInv'
  <2> DEFINE d == target[Main]
  <2>1. at[Main] = "addUrl" /\ d \in Downloads /\ obj[d] = "none"
    BY DEF AddCheckUrl, AppInv, AddInv
  <2>2. FindByURL(RawUrlOf[d]) = 0 =>
           \A k \in DOMAIN transfers : UrlOf[transfers[k]] # UrlOf[d]
    <3>1. \A k \in DOMAIN transfers : transfers[k] \in Downloads /\ transfers[k] # d
      BY <2>1 DEF AddCheckUrl, AppInv, ListTypes, ListedInv
    <3>2. FindByURL(RawUrlOf[d]) = 0 =>
             \A k \in DOMAIN transfers : UrlOf[transfers[k]] # RawUrlOf[d]
      BY SearchFinds DEF AppInv, ListTypes
    <3> QED
      BY <2>1, <3>1, <3>2 DEF Considerate, UrlsAsSent
  <2>3. /\ at'[Main] = IF FindByURL(RawUrlOf[d]) # 0 THEN "ready" ELSE "addFind"
        /\ \A x \in Downloads : at'[x] = at[x]
    BY AppAssumption DEF AddCheckUrl, Goto, AppInv, ThreadTypes, Threads
  <2>4. UNCHANGED <<transfers, obj, target>>
    BY DEF AddCheckUrl
  <2> QED
    BY <2>1, <2>2, <2>3, <2>4 DEF AppInv, AddInv
<1>8. RequestInv'
  BY DEF AppInv, RequestInv, ThreadTypes, AddCheckUrl, Goto, dlvars, Threads,
       RemovePCs, CancelPCs, AutoRemove
<1>9. WorkInv'
  BY AppAssumption DEF AppInv, WorkInv, ThreadTypes, ListTypes, AddCheckUrl, Goto,
       dlvars, Threads
<1>10. HitInv'
  BY DEF AppInv, HitInv, ThreadTypes, AddCheckUrl, Goto
<1> QED
  BY <1>1, <1>2, <1>3, <1>4, <1>5, <1>6, <1>7, <1>8, <1>9, <1>10
       DEF AppInv, CoreInv, TypeOK

(* A new object has no thread yet and nobody else knows it.                  *)
LEMMA AddFindKeeps ==
  ASSUME AppInv, CoreInv', AddFind
  PROVE  AppInv'
<1>1. DistinctInv'
  BY DEF AppInv, ListTypes, PlanType, DistinctInv, AddFind
<1>2. PlanInv'
  BY DEF AppInv, PlanInv, ThreadTypes, ListTypes, AddFind, Goto, Threads, AutoRemove
<1>3. PCInv'
  BY AppAssumption DEF AppInv, PCInv, ThreadTypes, AddFind, Goto, Threads, StopPCs,
       MainPCs
<1>4. ThreadInv'
  BY DEF AppInv, ThreadInv, ThreadTypes, DownloadTypes, AddFind, Goto, dlvars, Threads
<1>5. ListedInv'
  BY AppAssumption DEF AppInv, ListedInv, ThreadTypes, PCInv, ListTypes, DownloadTypes,
       AddFind, Goto, dlvars, Threads, StopPCs
<1>6. IndexInv'
  BY DEF AppInv, IndexInv, ThreadTypes, AddFind, Goto, StopPCs
<1>7. AddInv'
  BY DEF AppInv, AddInv, ThreadTypes, DownloadTypes, ThreadInv, AddFind, Goto, Threads
<1>8. RequestInv'
  BY DEF AppInv, RequestInv, ThreadTypes, PCInv, ListTypes, DownloadTypes, AddFind,
       Goto, dlvars, Threads, RemovePCs, CancelPCs, AutoRemove
<1>9. WorkInv'
  BY AppAssumption DEF AppInv, WorkInv, ThreadTypes, PCInv, ListTypes, DownloadTypes,
       AddFind, Goto, dlvars, Threads
<1>10. HitInv'
  BY DEF AppInv, HitInv, ThreadTypes, AddFind, Goto
<1> QED
  BY <1>1, <1>2, <1>3, <1>4, <1>5, <1>6, <1>7, <1>8, <1>9, <1>10
       DEF AppInv, CoreInv, TypeOK

(* The new entry cannot be taken for one of the others.                      *)
LEMMA AddRegisterKeeps ==
  ASSUME AppInv, CoreInv', AddRegister
  PROVE  AppInv'
<1>1. PlanInv' /\ PCInv'
  BY AppAssumption DEF AppInv, ThreadTypes, PlanInv, PCInv, AddRegister, Goto, Threads,
       StopPCs, MainPCs, AutoRemove
<1>2. ThreadInv' /\ IndexInv'
  BY DEF AppInv, LockInv, ThreadInv, IndexInv, AddRegister, Goto, dlvars, StopPCs,
       Holds
<1>3. DistinctInv'
  BY DEF AppInv, DistinctInv, AddInv, AddRegister, Reaches
<1>4. ListedInv'
  <2> DEFINE d == target[Main]
             n == Len(transfers)
  <2>1. at[Main] = "addRegister" /\ d \in Downloads /\ obj[d] = "live"
    BY DEF AddRegister, AppInv, AddInv
  <2>2. at'[Main] = "addStart" /\ UNCHANGED <<obj, target>>
    BY DEF AddRegister, Goto, AppInv, ThreadTypes, Threads
  <2>3. /\ DOMAIN transfers' = 1..(n + 1) /\ DOMAIN transfers = 1..n /\ n \in Nat
        /\ \A k \in 1..n : transfers'[k] = transfers[k]
        /\ transfers'[n + 1] = d
    BY <2>1 DEF AddRegister, AppInv, ListTypes
  <2> HIDE DEF d, n
  <2>4. \A k \in DOMAIN transfers' : obj'[transfers'[k]] = "live"
    <3> SUFFICES ASSUME NEW k \in 1..(n + 1) PROVE obj[transfers'[k]] = "live"
      BY <2>2, <2>3
    <3>1. CASE k = n + 1
      BY <3>1, <2>1, <2>3
    <3>2. CASE k # n + 1
      BY <3>2, <2>1, <2>3, k \in 1..n DEF AppInv, ListedInv, StopPCs
    <3> QED
      BY <3>1, <3>2
  <2>5. ASSUME NEW x \in Downloads, obj'[x] = "live"
        PROVE  \E k \in DOMAIN transfers' : transfers'[k] = x
    BY <2>1, <2>2, <2>3, <2>5, n + 1 \in 1..(n + 1), 1..n \subseteq 1..(n + 1)
         DEF AppInv, ListedInv, d
  <2> QED
    BY <2>2, <2>4, <2>5 DEF ListedInv, StopPCs
<1>5. AddInv'
  BY AppAssumption DEF AppInv, AddInv, ThreadTypes, AddRegister, Goto, Threads
<1>6. RequestInv' /\ WorkInv' /\ HitInv'
  BY DEF AppInv, RequestInv, WorkInv, HitInv, AddRegister, Goto, dlvars, RemovePCs,
       CancelPCs, AutoRemove
<1> QED
  BY <1>1, <1>2, <1>3, <1>4, <1>5, <1>6 DEF AppInv, CoreInv, TypeOK

(* The new download's thread begins; nobody can have asked for its removal.  *)
LEMMA AddStartKeeps ==
  ASSUME AppInv, CoreInv', AddStart
  PROVE  AppInv'
<1>1. DistinctInv'
  BY DEF AppInv, ListTypes, PlanType, DistinctInv, AddStart
<1>2. PlanInv'
  <2> DEFINE d == target[Main]
  <2>1. at[Main] = "addStart" /\ at[d] = "unborn" /\ d \in Downloads
    BY DEF AddStart, AppInv, AddInv
  <2>2. d \notin asked
    BY <2>1 DEF AppInv, ThreadInv
  <2>3. \A x \in Downloads : x # d => at'[x] = at[x]
    BY <2>1, AppAssumption DEF AddStart, AppInv, ThreadTypes, Threads
  <2>4. UNCHANGED <<plan, asked>>
    BY DEF AddStart
  <2>5. asked \subseteq Downloads
    BY DEF AppInv, ListTypes
  <2> QED
    BY <2>2, <2>3, <2>4, <2>5 DEF AppInv, PlanInv, AutoRemove
<1>3. PCInv'
  BY AppAssumption DEF AppInv, PCInv, ThreadTypes, AddStart, Threads, StopPCs, OwnPCs,
       MainPCs
<1>4. ThreadInv'
  <2> DEFINE d == target[Main]
  <2>1. at[Main] = "addStart" /\ at[d] = "unborn" /\ d \in Downloads
    BY DEF AddStart, AppInv, AddInv
  <2>2. obj[d] = "live"
    <3>1. PICK k \in DOMAIN transfers : transfers[k] = d
      BY <2>1 DEF AppInv, AddInv
    <3> QED
      BY <2>1, <3>1 DEF AppInv, ListedInv, StopPCs
  <2>3. /\ at'[d] = "begin" /\ status'[d] = "QUEUED"
        /\ \A x \in Downloads : x # d => at'[x] = at[x] /\ status'[x] = status[x]
    BY <2>1, AppAssumption DEF AddStart, AppInv, ThreadTypes, DownloadTypes, Threads
  <2>4. UNCHANGED <<obj, reapstatus, callbacks, asked>>
    BY DEF AddStart
  <2> HIDE DEF d
  <2> QED
    BY <2>1, <2>2, <2>3, <2>4 DEF AppInv, ThreadInv
<1>5. ListedInv'
  BY DEF AppInv, ListedInv, ThreadTypes, AddStart, Threads, StopPCs
<1>6. IndexInv'
  BY DEF AppInv, IndexInv, ThreadTypes, AddStart, Threads, StopPCs
<1>7. AddInv'
  BY DEF AppInv, AddInv, ThreadTypes, AddStart, Threads
<1>8. RequestInv'
  BY DEF AppInv, RequestInv, ThreadTypes, AddStart, Threads, RemovePCs, CancelPCs,
       AutoRemove
<1>9. WorkInv'
  BY AppAssumption DEF AppInv, WorkInv, ThreadTypes, ListTypes, AddInv, AddStart,
       Threads, StopPCs, RemovePCs
<1>10. HitInv'
  BY DEF AppInv, HitInv, ThreadTypes, AddStart
<1> QED
  BY <1>1, <1>2, <1>3, <1>4, <1>5, <1>6, <1>7, <1>8, <1>9, <1>10
       DEF AppInv, CoreInv, TypeOK

(* The callback is the only one, or the removal begins in the caller.        *)
LEMMA CancelRegisterKeeps ==
  ASSUME AppInv, CoreInv', NEW t \in Threads, CancelRegister(t)
  PROVE  AppInv'
<1>1. DistinctInv'
  BY DEF AppInv, PlanType, DistinctInv, CancelRegister
<1>2. PlanInv'
  BY DEF AppInv, PlanInv, ThreadTypes, ListTypes, CancelRegister, Goto, Threads,
       AutoRemove
<1>3. PCInv'
  <2>1. CASE t = Main
    BY <2>1, AppAssumption DEF CancelRegister, Goto, AppInv, ThreadTypes, PCInv,
         Threads, MainPCs, CancelPCs, StopPCs
  <2>2. CASE t \in Downloads
    <3>1. target[t] = t
      BY <2>2 DEF CancelRegister, AppInv, RequestInv
    <3>2. reapstatus[t] = "OK"
      BY <2>2 DEF CancelRegister, AppInv, ThreadInv, DownloadTypes
    <3>3. at' = [at EXCEPT ![t] = "cancelFlag"]
      BY <3>1, <3>2 DEF CancelRegister, Goto
    <3> QED
      BY <2>2, <3>3, AppAssumption DEF AppInv, ThreadTypes, PCInv, Threads, OwnPCs,
           CancelRegister
  <2>3. CASE t = Deferred
    BY <2>3 DEF CancelRegister, AppInv, PCInv, RemovePCs
  <2> QED
    BY <2>1, <2>2, <2>3 DEF Threads
<1>4. ThreadInv'
  BY AppAssumption DEF AppInv, ThreadInv, ThreadTypes, PCInv, DownloadTypes,
       RequestInv, CancelRegister, Goto, Threads, CancelPCs
<1>5. ListedInv'
  BY DEF AppInv, ListedInv, ThreadTypes, CancelRegister, Goto, Threads, StopPCs
<1>6. IndexInv'
  BY DEF AppInv, IndexInv, ThreadTypes, CancelRegister, Goto, Threads, StopPCs
<1>7. AddInv'
  BY DEF AppInv, AddInv, ThreadTypes, CancelRegister, Goto, Threads
<1>8. RequestInv'
  BY AppAssumption DEF AppInv, RequestInv, ThreadTypes, PCInv, ListTypes,
       DownloadTypes, CancelRegister, Goto, Threads, StopPCs, RemovePCs, CancelPCs,
       AutoRemove
<1>9. WorkInv'
  BY AppAssumption DEF AppInv, WorkInv, ThreadTypes, PCInv, ListTypes, DownloadTypes,
       RequestInv, CancelRegister, Goto, Threads, StopPCs, RemovePCs, OwnPCs,
       CancelPCs, RunPCs, AutoRemove
<1>10. HitInv'
  BY DEF AppInv, HitInv, ThreadTypes, CancelRegister, Goto
<1> QED
  BY <1>1, <1>2, <1>3, <1>4, <1>5, <1>6, <1>7, <1>8, <1>9,
       <1>10 DEF AppInv, CoreInv, TypeOK

(* The lock is held until cancel is set, so the download still lives.        *)
LEMMA CancelFlagKeeps ==
  ASSUME AppInv, CoreInv', NEW t \in Threads, CancelFlag(t)
  PROVE  AppInv'
<1>1. PlanInv'
  BY DEF AppInv, ThreadTypes, ListTypes, PlanInv, CancelFlag, Home, Goto, MainPCs,
       RunPCs, AutoRemove
<1>2. DistinctInv'
  BY DEF AppInv, PlanType, DistinctInv, CancelFlag
<1>3. PCInv' /\ ThreadInv' /\ ListedInv'
  BY AppAssumption DEF AppInv, PCInv, ThreadInv, ListedInv, CancelFlag, Home, Goto,
       StopPCs, RemovePCs, OwnPCs, MainPCs
<1>4. IndexInv' /\ AddInv' /\ RequestInv'
  BY DEF AppInv, IndexInv, AddInv, RequestInv, CancelFlag, Home, Goto, StopPCs,
       RemovePCs, CancelPCs, AutoRemove
<1>5. WorkInv' /\ HitInv'
  BY DEF AppInv, WorkInv, HitInv, CancelFlag, Home, Goto, RemovePCs
<1> QED
  BY <1>1, <1>2, <1>3, <1>4, <1>5 DEF AppInv, CoreInv, TypeOK

(* A removal before it takes the lock.                                       *)
LEMMA RemoveBeginKeeps ==
  ASSUME AppInv, CoreInv', NEW t \in Threads, RemoveBegin(t)
  PROVE  AppInv'
<1>1. PlanInv' /\ PCInv'
  BY DEF AppInv, ThreadTypes, PlanInv, PCInv, RemoveBegin, Goto, StopPCs, RemovePCs,
       OwnPCs, MainPCs, AutoRemove, CancelPCs
<1>2. DistinctInv'
  BY DEF AppInv, ListTypes, DownloadTypes, PlanType, DistinctInv, RemoveBegin, dlvars
<1>3. ThreadInv' /\ ListedInv'
  BY DEF AppInv, LockInv, ThreadInv, ListedInv, RemoveBegin, Goto, dlvars, StopPCs,
       Holds
<1>4. IndexInv' /\ AddInv' /\ RequestInv'
  BY DEF AppInv, IndexInv, AddInv, RequestInv, RemoveBegin, Goto, dlvars, StopPCs,
       RemovePCs, CancelPCs, AutoRemove
<1>5. WorkInv' /\ HitInv'
  BY DEF AppInv, WorkInv, HitInv, RemoveBegin, Goto, dlvars, RemovePCs
<1> QED
  BY <1>1, <1>2, <1>3, <1>4, <1>5 DEF AppInv, CoreInv, TypeOK

(* The entry found by URL is the download that is to be removed.             *)
LEMMA RemoveLockKeeps ==
  ASSUME AppInv, CoreInv', NEW t \in Threads, RemoveLock(t)
  PROVE  AppInv'
<1>1. DistinctInv'
  BY DEF AppInv, DownloadTypes, PlanType, DistinctInv, RemoveLock, dlvars
<1>2. PlanInv'
  BY DEF AppInv, PlanInv, ThreadTypes, ListTypes, RemoveLock, AfterRemove, Goto,
       Threads, AutoRemove
<1>3. PCInv'
  BY AppAssumption DEF AppInv, PCInv, ThreadTypes, RemoveLock, AfterRemove, Goto,
       Threads, StopPCs, RemovePCs, OwnPCs, MainPCs, CancelPCs
<1>4. ThreadInv'
  BY DEF AppInv, ThreadInv, ThreadTypes, RemoveLock, AfterRemove, Goto, dlvars, Threads
<1>5. ListedInv'
  BY DEF AppInv, ListedInv, ThreadTypes, RemoveLock, AfterRemove, Goto, Threads,
       StopPCs
<1>6. IndexInv'
  BY DEF AppInv, IndexInv, ThreadTypes, RemoveLock, AfterRemove, Goto, Threads, StopPCs
<1>7. AddInv'
  BY DEF AppInv, AddInv, ThreadTypes, RemoveLock, AfterRemove, Goto, Threads
<1>8. RequestInv'
  BY DEF AppInv, RequestInv, ThreadTypes, RemoveLock, AfterRemove, Goto, dlvars,
       Threads, RemovePCs, CancelPCs, AutoRemove
<1>9. WorkInv'
  <2>1. \A u \in Threads : u # t => at'[u] = at[u]
    BY DEF RemoveLock, Goto, AppInv, ThreadTypes
  <2>2. at[t] = "removeLock" /\ UNCHANGED <<callbacks, obj, asked, work, target>>
    BY DEF RemoveLock, dlvars
  <2>3. t \notin Downloads
    BY <2>2 DEF AppInv, PCInv, OwnPCs
  <2>4. \A k \in DOMAIN work : work[k] \in Downloads
    BY DEF AppInv, ListTypes
  <2>5. Downloads \subseteq Threads /\ Deferred \in Threads
    BY DEF Threads
  <2>6. at'[Deferred] \in RemovePCs => at[Deferred] \in RemovePCs
    BY <2>1, <2>2, <2>5 DEF RemovePCs
  <2> QED
    BY <2>1, <2>2, <2>3, <2>4, <2>5, <2>6 DEF AppInv, WorkInv
<1>10. HitInv'
  <2> DEFINE h == FindByURL(UrlOf[target[t]])
  <2>1. CASE h = 0
    BY <2>1, AppAssumption DEF RemoveLock, AfterRemove, Goto, AppInv, ThreadTypes,
         HitInv
  <2>2. CASE h # 0
    <3>1. h \in DOMAIN transfers /\ UrlOf[transfers[h]] = UrlOf[target[t]]
      BY <2>2, SearchFinds DEF AppInv, ListTypes
    <3>2. target[t] \in Downloads /\ obj[target[t]] = "live" /\ target[t] \in asked
      BY DEF RemoveLock, AppInv, RequestInv, CancelPCs, ListTypes
    <3>3. at[target[t]] # "unborn"
      BY <3>2 DEF AppInv, ThreadInv
    <3>4. PICK k \in DOMAIN transfers : transfers[k] = target[t]
      BY <3>2, <3>3 DEF AppInv, ListedInv, AddInv
    <3>5. transfers[h] = target[t]
      BY <3>1, <3>4 DEF AppInv, DistinctInv, Reaches
    <3>6. /\ hit'[t] = h /\ \A u \in Threads : u # t => hit'[u] = hit[u] /\ at'[u] = at[u]
          /\ UNCHANGED <<transfers, target>>
      BY <2>2 DEF RemoveLock, Goto, AppInv, ThreadTypes
    <3> HIDE DEF h
    <3> QED
      BY <3>1, <3>5, <3>6 DEF AppInv, HitInv
  <2> QED
    BY <2>1, <2>2
<1> QED
  BY <1>1, <1>2, <1>3, <1>4, <1>5, <1>6, <1>7, <1>8, <1>9, <1>10
       DEF AppInv, CoreInv, TypeOK

(* Erasing and deleting: see ReapsAlone and ReapErases.                      *)
LEMMA RemoveReapKeeps ==
  ASSUME AppInv, CoreInv', NEW t \in Threads, RemoveReap(t)
  PROVE  AppInv'
<1>1. PlanInv' /\ PCInv'
  BY AppAssumption DEF AppInv, ThreadTypes, PlanInv, PCInv, RemoveReap, AfterRemove,
       Goto, StopPCs, OwnPCs, MainPCs, AutoRemove, CancelPCs
<1>2. ThreadInv'
  BY DEF AppInv, ThreadInv, RequestInv, RemoveReap, AfterRemove, ReapOK, Goto, dlvars,
       CancelPCs
<1>3. DistinctInv'
  <2>1. PICK f \in [DOMAIN transfers' -> DOMAIN transfers \ {hit[t]}] :
           /\ \A k \in DOMAIN transfers' : transfers'[k] = transfers[f[k]]
           /\ \A k, l \in DOMAIN transfers' : f[k] = f[l] => k = l
    BY ReapErases DEF Without
  <2> QED
    BY <2>1 DEF AppInv, DistinctInv
<1>4. ListedInv'
  <2> DEFINE e == target[t]
  <2>1. /\ e \in Downloads /\ hit[t] \in DOMAIN transfers /\ transfers[hit[t]] = e
        /\ t \in {Main, Deferred} /\ at[Main] \notin StopPCs
    BY ReapsAlone
  <2>2. PICK f \in [DOMAIN transfers' -> DOMAIN transfers \ {hit[t]}] :
           /\ \A k \in DOMAIN transfers' : transfers'[k] = transfers[f[k]]
           /\ \A j \in DOMAIN transfers \ {hit[t]} : \E k \in DOMAIN transfers' : f[k] = j
    BY ReapErases DEF Without
  <2>3. /\ obj'[e] = "freed" /\ \A x \in Downloads : x # e => obj'[x] = obj[x]
        /\ UNCHANGED target
    BY <2>1 DEF RemoveReap, AppInv, DownloadTypes
  <2>4. /\ at'[Main] \notin StopPCs
        /\ at[Main] = "addRegister" => at'[Main] = "addRegister"
    BY <2>1, AppAssumption DEF RemoveReap, Goto, AfterRemove, AppInv, ThreadTypes,
         Threads, StopPCs
  <2> HIDE DEF e
  <2>5. ASSUME NEW k \in DOMAIN transfers'
        PROVE  obj'[transfers'[k]] = "live"
    <3>1. f[k] \in DOMAIN transfers /\ f[k] # hit[t] /\ transfers'[k] = transfers[f[k]]
      BY <2>2
    <3>2. transfers[f[k]] # e
      BY <2>1, <3>1 DEF AppInv, DistinctInv, Reaches
    <3>3. transfers[f[k]] \in Downloads /\ obj[transfers[f[k]]] = "live"
      BY <2>1, <3>1 DEF AppInv, ListTypes, ListedInv
    <3> QED
      BY <2>3, <3>1, <3>2, <3>3
  <2>6. ASSUME NEW x \in Downloads, obj'[x] = "live"
        PROVE  \/ \E k \in DOMAIN transfers' : transfers'[k] = x
               \/ at'[Main] = "addRegister" /\ target'[Main] = x
    <3>1. x # e /\ obj[x] = "live"
      BY <2>3, <2>6
    <3>2. CASE at[Main] = "addRegister" /\ target[Main] = x
      BY <2>3, <2>4, <3>2
    <3>3. ASSUME NEW j \in DOMAIN transfers, transfers[j] = x
          PROVE  \E k \in DOMAIN transfers' : transfers'[k] = x
      BY <2>1, <2>2, <3>1, <3>3
    <3> QED
      BY <3>1, <3>2, <3>3 DEF AppInv, ListedInv
  <2> QED
    BY <2>4, <2>5, <2>6 DEF ListedInv
<1>5. IndexInv'
  BY DEF AppInv, IndexInv, LockInv, RemoveReap, AfterRemove, Goto, Threads, StopPCs,
       Holds
<1>6. AddInv'
  <2> DEFINE e == target[t]
             new == target[Main]
  <2>1. /\ e \in Downloads /\ hit[t] \in DOMAIN transfers /\ transfers[hit[t]] = e
        /\ t \in {Main, Deferred} /\ obj[e] = "live" /\ at[e] = "ended"
    BY ReapsAlone
  <2>2. PICK f \in [DOMAIN transfers' -> DOMAIN transfers \ {hit[t]}] :
           /\ \A k \in DOMAIN transfers' : transfers'[k] = transfers[f[k]]
           /\ \A j \in DOMAIN transfers \ {hit[t]} : \E k \in DOMAIN transfers' : f[k] = j
    BY ReapErases DEF Without
  <2>3. /\ \A x \in Downloads : x # e => obj'[x] = obj[x]
        /\ obj'[e] = "freed"
        /\ UNCHANGED target
    BY <2>1 DEF RemoveReap, AppInv, DownloadTypes
  <2>4. \A x \in Downloads : at'[x] = at[x]
    BY <2>1, AppAssumption DEF RemoveReap, Goto, AppInv, ThreadTypes, Threads
  <2>5. CASE t = Main
    <3>1. at'[Main] = "cancelRelock" /\ at[Main] = "removeReap"
      BY <2>5, AppAssumption DEF RemoveReap, Goto, AfterRemove, AppInv, ThreadTypes,
           Threads
    <3>2. \A x \in Downloads : obj'[x] = "live" => obj[x] = "live"
      BY <2>3
    <3> HIDE DEF e, new
    <3> QED
      BY <2>4, <3>1, <3>2 DEF AppInv, AddInv
  <2>6. CASE t # Main
    <3>1. at'[Main] = at[Main]
      BY <2>6, AppAssumption DEF RemoveReap, Goto, AppInv, ThreadTypes, Threads
    <3>2. at[Main] \in {"addUrl", "addFind", "addRegister", "addStart"} =>
             new \in Downloads /\ new # e
      BY <2>1 DEF AppInv, AddInv
    <3>3. \A k \in DOMAIN transfers' : f[k] \in DOMAIN transfers
      BY <2>2
    <3>4. at[Main] = "addStart" => \E k \in DOMAIN transfers' : transfers'[k] = new
      BY <2>1, <2>2, <3>2 DEF AppInv, AddInv
    <3> HIDE DEF e, new
    <3> QED
      BY <2>2, <2>3, <2>4, <3>1, <3>2, <3>3, <3>4 DEF AppInv, AddInv, new
  <2> QED
    BY <2>5, <2>6
<1>7. RequestInv'
  <2> DEFINE e == target[t]
  <2>1. /\ e \in Downloads /\ t \in {Main, Deferred}
        /\ \A u \in Threads :
              at[u] \in CancelPCs \ {"cancelRelock"} /\ target[u] = e => u = t
        /\ at[Main] # "listOne"
    BY ReapsAlone
  <2>2. \A x \in Downloads : x # e => obj'[x] = obj[x]
    BY <2>1 DEF RemoveReap, AppInv, DownloadTypes
  <2>3. \A u \in Threads : u # t => at'[u] = at[u]
    BY DEF RemoveReap, Goto, AppInv, ThreadTypes
  <2>4. at'[t] \in {"idle", "cancelRelock"}
    BY DEF RemoveReap, Goto, AfterRemove, AppInv, ThreadTypes
  <2>5. UNCHANGED <<target, asked, callbacks, reapstatus, plan>>
    BY DEF RemoveReap, dlvars
  <2>6. /\ Downloads \cup {Main} \subseteq Threads
        /\ t \notin Downloads /\ asked \subseteq Downloads
    BY <2>1, AppAssumption DEF Threads, AppInv, ListTypes
  <2>7. ASSUME NEW u \in Threads, at'[u] \in CancelPCs \ {"cancelRelock"}
        PROVE  target[u] \in asked /\ obj'[target[u]] = "live"
    <3>1. u # t /\ at[u] \in CancelPCs \ {"cancelRelock"}
      BY <2>3, <2>4, <2>7 DEF CancelPCs
    <3>2. target[u] \in asked /\ obj[target[u]] = "live"
      BY <3>1 DEF AppInv, RequestInv
    <3> QED
      BY <2>1, <2>2, <2>6, <3>1, <3>2
  <2> HIDE DEF e
  <2>8. at'[Main] # "listOne"
    BY <2>1, <2>3, <2>4, <2>6
  <2> QED
    BY <2>3, <2>4, <2>5, <2>6, <2>7, <2>8 DEF AppInv, RequestInv, AutoRemove,
         CancelPCs, RemovePCs
<1>8. WorkInv'
  <2> DEFINE e == target[t]
  <2>1. /\ e \in Downloads /\ t \in {Main, Deferred}
        /\ \A k \in DOMAIN work : work[k] # e
    BY ReapsAlone
  <2>2. \A x \in Downloads : x # e => obj'[x] = obj[x]
    BY <2>1 DEF RemoveReap, AppInv, DownloadTypes
  <2>3. /\ \A x \in Downloads : at'[x] = at[x]
        /\ at'[Deferred] \in RemovePCs => at[Deferred] \in RemovePCs
    BY <2>1, AppAssumption DEF RemoveReap, Goto, AfterRemove, AppInv, ThreadTypes,
         Threads, RemovePCs
  <2>4. UNCHANGED <<target, asked, callbacks, work>>
    BY DEF RemoveReap, dlvars
  <2>5. \A k \in DOMAIN work : work[k] \in Downloads
    BY DEF AppInv, ListTypes
  <2> HIDE DEF e
  <2> QED
    BY <2>1, <2>2, <2>3, <2>4, <2>5 DEF AppInv, WorkInv
<1>9. HitInv'
  BY DEF AppInv, HitInv, ThreadTypes, LockInv, RemoveReap, AfterRemove, Goto, Holds
<1> QED
  BY <1>1, <1>2, <1>3, <1>4, <1>5, <1>6, <1>7, <1>8, <1>9
       DEF AppInv, CoreInv, TypeOK

(* The end of CancelDownload after a removal of its own.                     *)
LEMMA CancelRelockKeeps ==
  ASSUME AppInv, CoreInv', NEW t \in Threads, CancelRelock(t)
  PROVE  AppInv'
<1>1. PlanInv' /\ PCInv'
  BY DEF AppInv, ThreadTypes, PlanInv, PCInv, CancelRelock, Home, Goto, Threads,
       StopPCs, RemovePCs, OwnPCs, MainPCs, AutoRemove
<1>2. DistinctInv'
  BY DEF AppInv, ListTypes, DownloadTypes, PlanType, DistinctInv, CancelRelock, dlvars
<1>3. ThreadInv' /\ ListedInv'
  BY DEF AppInv, LockInv, ThreadInv, ListedInv, CancelRelock, Home, Goto, dlvars,
       StopPCs, Holds
<1>4. IndexInv' /\ AddInv' /\ RequestInv'
  BY DEF AppInv, IndexInv, AddInv, RequestInv, CancelRelock, Home, Goto, dlvars,
       StopPCs, RemovePCs, CancelPCs, AutoRemove
<1>5. WorkInv' /\ HitInv'
  BY DEF AppInv, WorkInv, HitInv, CancelRelock, Home, Goto, dlvars, RemovePCs
<1> QED
  BY <1>1, <1>2, <1>3, <1>4, <1>5 DEF AppInv, CoreInv, TypeOK

(* The unit of work taken is a removal that is nowhere else.                 *)
LEMMA DeferredTakeKeeps ==
  ASSUME AppInv, CoreInv', DeferredTake
  PROVE  AppInv'
<1>1. PlanInv' /\ PCInv'
  BY AppAssumption DEF AppInv, ListTypes, PlanInv, PCInv, DeferredTake, Goto,
       RemovePCs, AutoRemove
<1>2. DistinctInv'
  BY DEF AppInv, DownloadTypes, PlanType, DistinctInv, DeferredTake, dlvars
<1>3. ThreadInv' /\ ListedInv'
  BY AppAssumption DEF AppInv, LockInv, ThreadInv, ListedInv, DeferredTake, Goto, Set,
       dlvars, Holds
<1>4. IndexInv' /\ AddInv' /\ HitInv'
  BY AppAssumption DEF AppInv, IndexInv, AddInv, HitInv, DeferredTake, Goto, Set
<1>5. RequestInv'
  BY AppAssumption DEF AppInv, RequestInv, ThreadTypes, ListTypes, WorkInv,
       DeferredTake, Goto, Set, dlvars, AutoRemove
<1>6. WorkInv'
  <2> DEFINE e == Head(work)
  <2>1. /\ 1 \in DOMAIN work /\ work[1] = e
        /\ \A k \in DOMAIN work' : /\ k + 1 \in DOMAIN work /\ k \in Nat \ {0}
                                   /\ work'[k] = work[k + 1]
    BY DEF DeferredTake, AppInv, ListTypes
  <2>2. e \in Downloads
    BY <2>1 DEF AppInv, ListTypes
  <2>3. /\ target'[Deferred] = e /\ at'[Deferred] = "removeBegin"
        /\ \A x \in Downloads : at'[x] = at[x]
    BY AppAssumption DEF DeferredTake, Set, Goto, AppInv, ThreadTypes, Threads
  <2>4. UNCHANGED <<callbacks, obj, asked>>
    BY DEF DeferredTake, dlvars
  <2> HIDE DEF e
  <2>5. ASSUME NEW k \in DOMAIN work'
        PROVE  /\ work'[k] # e /\ work'[k] \in Downloads
               /\ callbacks[work'[k]] = 1 /\ at[work'[k]] \in {"finish", "ended"}
               /\ obj[work'[k]] = "live"
               /\ \A j \in DOMAIN work' : work'[j] = work'[k] => j = k
    <3>1. \A j \in DOMAIN work : work[j] = work[k + 1] => j = k + 1
      BY <2>1 DEF AppInv, WorkInv
    <3> QED
      BY <2>1, <3>1 DEF AppInv, WorkInv, ListTypes
  <2>6. callbacks[e] = 1 /\ at[e] \in {"finish", "ended"}
    BY <2>1 DEF AppInv, WorkInv
  <2> QED
    BY <2>2, <2>3, <2>4, <2>5, <2>6 DEF AppInv, WorkInv
<1> QED
  BY <1>1, <1>2, <1>3, <1>4, <1>5, <1>6 DEF AppInv, CoreInv, TypeOK

(* A download's thread before its transfer.                                  *)
LEMMA RunBeginKeeps ==
  ASSUME AppInv, CoreInv', NEW d \in Downloads, RunBegin(d)
  PROVE  AppInv'
<1>1. DistinctInv'
  BY DEF AppInv, ListTypes, PlanType, DistinctInv, RunBegin
<1>2. PlanInv'
  BY DEF AppInv, PlanInv, ThreadTypes, ListTypes, RunBegin, Goto, Threads, AutoRemove
<1>3. PCInv'
  BY AppAssumption DEF AppInv, PCInv, ThreadTypes, RunBegin, Goto, Threads, OwnPCs
<1>4. ThreadInv'
  BY DEF AppInv, ThreadInv, ThreadTypes, DownloadTypes, RunBegin, Goto, Threads
<1>5. ListedInv'
  BY AppAssumption DEF AppInv, ListedInv, ThreadTypes, RunBegin, Goto, Threads
<1>6. IndexInv'
  BY AppAssumption DEF AppInv, IndexInv, ThreadTypes, RunBegin, Goto, Threads
<1>7. AddInv'
  BY DEF AppInv, AddInv, ThreadTypes, RunBegin, Goto, Threads
<1>8. RequestInv'
  BY AppAssumption DEF AppInv, RequestInv, ThreadTypes, RunBegin, Goto, Threads,
       CancelPCs, AutoRemove
<1>9. WorkInv'
  <2>1. at[d] = "begin" /\ UNCHANGED <<work, callbacks, obj, asked, target>>
    BY DEF RunBegin
  <2>2. \A u \in Threads : u # d => at'[u] = at[u]
    BY DEF RunBegin, Goto, AppInv, ThreadTypes, Threads
  <2>3. \A k \in DOMAIN work : work[k] \in Downloads
    BY DEF AppInv, ListTypes
  <2>4. Downloads \subseteq Threads /\ Deferred \in Threads /\ Deferred # d
    BY AppAssumption DEF Threads
  <2> QED
    BY <2>1, <2>2, <2>3, <2>4 DEF AppInv, WorkInv
<1>10. HitInv'
  BY DEF AppInv, HitInv, ThreadTypes, RunBegin, Goto
<1> QED
  BY <1>1, <1>2, <1>3, <1>4, <1>5, <1>6, <1>7, <1>8, <1>9, <1>10
       DEF AppInv, CoreInv, TypeOK

(* The end of a transfer.                                                    *)
LEMMA TransferEndsKeeps ==
  ASSUME AppInv, CoreInv', NEW d \in Downloads, TransferEnds(d)
  PROVE  AppInv'
<1>1. PlanInv'
  BY DEF AppInv, ThreadTypes, DownloadTypes, PlanInv, TransferEnds, Goto, Threads,
       RunPCs, AutoRemove
<1>2. DistinctInv'
  BY DEF AppInv, ListTypes, PlanType, DistinctInv, TransferEnds
<1>3. PCInv' /\ ThreadInv'
  BY AppAssumption DEF AppInv, PCInv, LockInv, ThreadInv, TransferEnds, Goto, OwnPCs,
       Holds
<1>4. ListedInv' /\ IndexInv' /\ AddInv'
  BY AppAssumption DEF AppInv, ListedInv, IndexInv, AddInv, TransferEnds, Goto
<1>5. RequestInv' /\ WorkInv' /\ HitInv'
  BY AppAssumption DEF AppInv, RequestInv, WorkInv, HitInv, TransferEnds, Goto,
       CancelPCs, AutoRemove
<1> QED
  BY <1>1, <1>2, <1>3, <1>4, <1>5 DEF AppInv, CoreInv, TypeOK

(* From here on no callback is registered.                                   *)
LEMMA CompleteEnterKeeps ==
  ASSUME AppInv, CoreInv', NEW d \in Downloads, CompleteEnter(d)
  PROVE  AppInv'
<1>1. PlanInv'
  BY DEF AppInv, ThreadTypes, DownloadTypes, PlanInv, CompleteEnter, Goto, Threads,
       RunPCs, AutoRemove
<1>2. DistinctInv'
  BY DEF AppInv, ListTypes, PlanType, DistinctInv, CompleteEnter
<1>3. PCInv' /\ ListedInv'
  BY AppAssumption DEF AppInv, PCInv, LockInv, ListedInv, CompleteEnter, Goto, OwnPCs,
       Holds
<1>4. ThreadInv'
  BY DEF AppInv, ThreadInv, ThreadTypes, DownloadTypes, CompleteEnter, Goto, Threads
<1>5. IndexInv' /\ AddInv' /\ RequestInv'
  BY AppAssumption DEF AppInv, IndexInv, AddInv, RequestInv, CompleteEnter, Goto,
       CancelPCs, AutoRemove
<1>6. WorkInv' /\ HitInv'
  BY AppAssumption DEF AppInv, WorkInv, HitInv, CompleteEnter, Goto
<1> QED
  BY <1>1, <1>2, <1>3, <1>4, <1>5, <1>6 DEF AppInv, CoreInv, TypeOK

(* The one callback there may be becomes deferred work.                      *)
LEMMA InvokeCallbacksKeeps ==
  ASSUME AppInv, CoreInv', NEW d \in Downloads, InvokeCallbacks(d)
  PROVE  AppInv'
<1>1. PlanInv' /\ PCInv'
  BY AppAssumption DEF AppInv, ThreadTypes, PlanInv, PCInv, InvokeCallbacks, Goto,
       Threads, OwnPCs, RunPCs, AutoRemove
<1>2. DistinctInv'
  BY DEF AppInv, DownloadTypes, PlanType, DistinctInv, InvokeCallbacks, dlvars
<1>3. ThreadInv'
  BY DEF AppInv, ThreadInv, InvokeCallbacks, Goto, dlvars
<1>4. ListedInv'
  BY AppAssumption DEF AppInv, ListedInv, InvokeCallbacks, Goto
<1>5. IndexInv' /\ AddInv' /\ RequestInv'
  BY AppAssumption DEF AppInv, IndexInv, AddInv, RequestInv, InvokeCallbacks, Goto,
       dlvars, CancelPCs, AutoRemove
<1>6. WorkInv'
  BY AppAssumption DEF AppInv, WorkInv, ThreadTypes, PCInv, DownloadTypes, ThreadInv,
       InvokeCallbacks, Goto, dlvars, Threads, StopPCs, OwnPCs
<1>7. HitInv'
  BY DEF AppInv, HitInv, InvokeCallbacks, Goto
<1> QED
  BY <1>1, <1>2, <1>3, <1>4, <1>5, <1>6, <1>7 DEF AppInv, CoreInv, TypeOK

(* The thread ends, and its download may be reaped.                          *)
LEMMA CompleteFinishKeeps ==
  ASSUME AppInv, CoreInv', NEW d \in Downloads, CompleteFinish(d)
  PROVE  AppInv'
<1>1. PlanInv'
  BY DEF AppInv, ThreadTypes, DownloadTypes, PlanInv, CompleteFinish, Goto, Threads,
       RunPCs, AutoRemove
<1>2. DistinctInv'
  BY DEF AppInv, ListTypes, PlanType, DistinctInv, CompleteFinish
<1>3. PCInv' /\ ListedInv'
  BY AppAssumption DEF AppInv, PCInv, LockInv, ListedInv, CompleteFinish, Goto, OwnPCs,
       Holds
<1>4. ThreadInv'
  BY DEF AppInv, ThreadInv, ThreadTypes, DownloadTypes, CompleteFinish, Goto, Threads
<1>5. IndexInv' /\ AddInv' /\ RequestInv'
  BY AppAssumption DEF AppInv, IndexInv, AddInv, RequestInv, CompleteFinish, Goto,
       CancelPCs, AutoRemove
<1>6. WorkInv' /\ HitInv'
  BY AppAssumption DEF AppInv, WorkInv, HitInv, CompleteFinish, Goto
<1> QED
  BY <1>1, <1>2, <1>3, <1>4, <1>5, <1>6 DEF AppInv, CoreInv, TypeOK

(* The shutdown begins with no removal under way.                            *)
LEMMA ShutDownLockKeeps ==
  ASSUME AppInv, CoreInv', ShutDownLock
  PROVE  AppInv'
<1>1. PlanInv'
  BY DEF AppInv, ThreadTypes, ListTypes, PlanInv, ShutDownLock, Goto, Threads, MainPCs
<1>2. DistinctInv'
  BY DEF AppInv, DownloadTypes, PlanType, DistinctInv, ShutDownLock, dlvars
<1>3. PCInv' /\ ThreadInv' /\ IndexInv'
  BY AppAssumption DEF AppInv, PCInv, ThreadInv, IndexInv, ShutDownLock, Goto, dlvars,
       StopPCs, MainPCs
<1>4. ListedInv'
  <2>1. at[Main] = "ready" /\ index = 1 /\ transfers \in Seq(Downloads)
    BY AppAssumption DEF ShutDownLock, AppInv, IndexInv, StopPCs, ListTypes
  <2>2. at'[Main] = "stop" /\ UNCHANGED <<transfers, obj, index>>
    BY DEF ShutDownLock, Goto, AppInv, ThreadTypes, Threads
  <2>3. \A k \in DOMAIN transfers : ~(k < index)
    BY <2>1
  <2> QED
    BY <2>1, <2>2, <2>3 DEF AppInv, ListedInv, StopPCs
<1>5. AddInv' /\ RequestInv' /\ WorkInv'
  BY DEF AppInv, AddInv, RequestInv, WorkInv, ShutDownLock, Goto, dlvars, RemovePCs,
       CancelPCs, AutoRemove
<1>6. HitInv'
  BY DEF AppInv, HitInv, ShutDownLock, Goto
<1> QED
  BY <1>1, <1>2, <1>3, <1>4, <1>5, <1>6 DEF AppInv, CoreInv, TypeOK

(* A stop sets cancel of an entry.                                           *)
LEMMA ShutDownStopKeeps ==
  ASSUME AppInv, CoreInv', ShutDownStop
  PROVE  AppInv'
<1>1. PlanInv' /\ PCInv'
  BY AppAssumption DEF AppInv, ThreadTypes, PlanInv, PCInv, ShutDownStop, Goto,
       Threads, StopPCs, MainPCs
<1>2. DistinctInv'
  BY DEF AppInv, ListTypes, PlanType, DistinctInv, ShutDownStop
<1>3. ThreadInv' /\ ListedInv'
  BY DEF AppInv, LockInv, ThreadInv, ListedInv, ShutDownStop, Goto, StopPCs, Holds
<1>4. IndexInv' /\ AddInv' /\ RequestInv'
  BY DEF AppInv, IndexInv, AddInv, RequestInv, ShutDownStop, Goto, StopPCs, RemovePCs,
       CancelPCs, AutoRemove
<1>5. WorkInv' /\ HitInv'
  BY AppAssumption DEF AppInv, WorkInv, HitInv, ShutDownStop, Goto
<1> QED
  BY <1>1, <1>2, <1>3, <1>4, <1>5 DEF AppInv, CoreInv, TypeOK

(* What is deleted is in the part of the list that is done with.             *)
LEMMA ShutDownReapKeeps ==
  ASSUME AppInv, CoreInv', ShutDownReap
  PROVE  AppInv'
<1>1. PlanInv' /\ PCInv'
  BY AppAssumption DEF AppInv, ThreadTypes, PlanInv, PCInv, ShutDownReap, Goto,
       Threads, StopPCs, MainPCs
<1>2. DistinctInv'
  BY DEF AppInv, ListTypes, PlanType, DistinctInv, ShutDownReap
<1>3. AddInv' /\ HitInv'
  BY DEF AppInv, LockInv, AddInv, HitInv, ShutDownReap, Goto, Holds, StopPCs
<1>4. ThreadInv'
  <2> DEFINE e == transfers[index]
  <2>1. /\ at[Main] = "stopReap" /\ index \in DOMAIN transfers /\ e \in Downloads
        /\ obj[e] = "live" /\ at[e] = "ended"
    BY ShutDownReapsEnded

  <2>2. obj'[e] = "freed" /\ \A x \in Downloads : x # e => obj'[x] = obj[x]
    BY <2>1 DEF ShutDownReap, AppInv, DownloadTypes
  <2>3. \A x \in Downloads : at'[x] = at[x]
    BY AppAssumption DEF ShutDownReap, Goto, AppInv, ThreadTypes, Threads
  <2>4. UNCHANGED <<dlvars, asked>>
    BY DEF ShutDownReap
  <2> HIDE DEF e
  <2> QED
    BY <2>1, <2>2, <2>3, <2>4 DEF AppInv, ThreadInv, dlvars
<1>5. ListedInv'
  <2> DEFINE e == transfers[index]
  <2>1. /\ at[Main] = "stopReap" /\ index \in DOMAIN transfers /\ e \in Downloads
        /\ obj[e] = "live" /\ at[e] = "ended"
    BY ShutDownReapsEnded

  <2>2. obj'[e] = "freed" /\ \A x \in Downloads : x # e => obj'[x] = obj[x]
    BY <2>1 DEF ShutDownReap, AppInv, DownloadTypes
  <2>3. at'[Main] = "stop" /\ index' = index + 1 /\ index \in Nat /\ UNCHANGED transfers
    BY DEF ShutDownReap, Goto, AppInv, ThreadTypes, Threads
  <2>4. ASSUME NEW k \in DOMAIN transfers
        PROVE  obj'[transfers[k]] = IF k < index + 1 THEN "freed" ELSE "live"
    <3>1. CASE k = index
      BY <3>1, <2>2, <2>3
    <3>2. CASE k # index
      <4>1. transfers[k] # e
        BY <2>1, <3>2 DEF AppInv, DistinctInv, Reaches
      <4>2. transfers[k] \in Downloads /\ k \in Nat
        BY DEF AppInv, ListTypes
      <4>3. obj[transfers[k]] = IF k < index THEN "freed" ELSE "live"
        BY <2>1 DEF AppInv, ListedInv, StopPCs
      <4> QED
        BY <2>2, <2>3, <3>2, <4>1, <4>2, <4>3
    <3> QED
      BY <3>1, <3>2
  <2>5. \A x \in Downloads :
           obj'[x] = "live" => \E k \in DOMAIN transfers : transfers[k] = x
    BY <2>1, <2>2 DEF AppInv, ListedInv
  <2> QED
    BY <2>3, <2>4, <2>5 DEF ListedInv, StopPCs
<1>6. IndexInv'
  BY DEF AppInv, IndexInv, ThreadTypes, ShutDownReap, Goto, Threads, StopPCs
<1>7. RequestInv'
  <2> DEFINE e == transfers[index]
  <2>1. /\ at[Main] = "stopReap" /\ index \in DOMAIN transfers /\ e \in Downloads
        /\ obj[e] = "live" /\ at[e] = "ended"
    BY ShutDownReapsEnded

  <2>2. asked = {}
    BY <2>1 DEF AppInv, PCInv, PlanInv, StopPCs
  <2>3. \A u \in Threads : at[u] \notin CancelPCs \ {"cancelRelock"}
    BY <2>2 DEF AppInv, RequestInv
  <2>4. at' = [at EXCEPT ![Main] = "stop"]
    BY DEF ShutDownReap, Goto
  <2>5. Main \in Threads /\ Downloads \subseteq Threads
    BY DEF Threads
  <2>6. at'[Main] = "stop" /\ \A u \in Threads : u # Main => at'[u] = at[u]
    BY <2>4, <2>5 DEF AppInv, ThreadTypes
  <2>7. \A u \in Threads : at'[u] \notin CancelPCs \ {"cancelRelock"}
    BY <2>3, <2>6 DEF CancelPCs
  <2> QED
    BY <2>5, <2>6, <2>7 DEF RequestInv, CancelPCs, RemovePCs
<1>8. WorkInv'
  <2> DEFINE e == transfers[index]
  <2>1. /\ at[Main] = "stopReap" /\ index \in DOMAIN transfers /\ e \in Downloads
        /\ obj[e] = "live" /\ at[e] = "ended"
    BY ShutDownReapsEnded

  <2>2. asked = {}
    BY <2>1 DEF AppInv, PCInv, PlanInv, StopPCs
  <2>3. \A x \in Downloads : callbacks[x] = 0
    BY <2>2 DEF AppInv, WorkInv
  <2>4. \A k \in DOMAIN work : work[k] \in Downloads
    BY DEF AppInv, ListTypes
  <2>5. ASSUME NEW k \in DOMAIN work PROVE FALSE
    BY <2>3, <2>4 DEF AppInv, WorkInv
  <2>6. at'[Deferred] = at[Deferred] /\ at[Deferred] \notin RemovePCs
    BY <2>3, AppAssumption DEF ShutDownReap, Goto, AppInv, ThreadTypes, Threads, WorkInv
  <2>7. UNCHANGED <<work, callbacks>>
    BY DEF ShutDownReap, dlvars
  <2> QED
    BY <2>3, <2>5, <2>6, <2>7 DEF WorkInv
<1> QED
  BY <1>1, <1>2, <1>3, <1>4, <1>5, <1>6, <1>7, <1>8 DEF AppInv, CoreInv, TypeOK

(* All are deleted, and the list is emptied.                                 *)
LEMMA ShutDownEndKeeps ==
  ASSUME AppInv, CoreInv', ShutDownEnd
  PROVE  AppInv'
<1>1. PlanInv'
  BY DEF AppInv, ThreadTypes, ListTypes, PlanInv, ShutDownEnd, Goto, Threads, MainPCs,
       AutoRemove
<1>2. PCInv' /\ ThreadInv' /\ DistinctInv'
  BY AppAssumption DEF AppInv, PCInv, ThreadInv, DistinctInv, ShutDownEnd, Goto,
       dlvars, StopPCs, MainPCs
<1>3. ListedInv'
  BY DEF AppInv, ListedInv, ThreadTypes, ShutDownEnd, StopPCs
<1>4. IndexInv' /\ AddInv' /\ RequestInv'
  BY DEF AppInv, IndexInv, AddInv, RequestInv, ShutDownEnd, Goto, dlvars, RemovePCs,
       CancelPCs, AutoRemove
<1>5. WorkInv'
  BY AppAssumption DEF AppInv, WorkInv, ShutDownEnd, Goto, dlvars
<1>6. HitInv'
  BY DEF AppInv, HitInv, LockInv, ShutDownEnd, Goto, Threads, StopPCs, Holds
<1> QED
  BY <1>1, <1>2, <1>3, <1>4, <1>5, <1>6 DEF AppInv, CoreInv, TypeOK

(* A listing begins.                                                         *)
LEMMA ListLockKeeps ==
  ASSUME AppInv, CoreInv', ListLock
  PROVE  AppInv'
<1>1. PlanInv'
  BY DEF AppInv, ThreadTypes, ListTypes, PlanInv, ListLock, Goto, Threads, MainPCs,
       AutoRemove
<1>2. DistinctInv'
  BY DEF AppInv, DownloadTypes, PlanType, DistinctInv, ListLock, dlvars
<1>3. PCInv' /\ ThreadInv' /\ ListedInv'
  BY AppAssumption DEF AppInv, PCInv, ThreadInv, ListedInv, ListLock, Goto, dlvars,
       StopPCs, MainPCs
<1>4. IndexInv' /\ AddInv' /\ RequestInv'
  BY DEF AppInv, IndexInv, AddInv, RequestInv, ListLock, Goto, dlvars, RemovePCs,
       CancelPCs, AutoRemove
<1>5. WorkInv' /\ HitInv'
  BY AppAssumption DEF AppInv, WorkInv, HitInv, ListLock, Goto, dlvars
<1> QED
  BY <1>1, <1>2, <1>3, <1>4, <1>5 DEF AppInv, CoreInv, TypeOK

(* A listing goes on.                                                        *)
LEMMA SendDownloadKeeps ==
  ASSUME AppInv, CoreInv', SendDownload
  PROVE  AppInv'
<1>1. ListedInv'
  BY DEF AppInv, ThreadTypes, ListedInv, SendDownload, StopPCs
<1>2. ListTypes' /\ DownloadTypes' /\ PlanType' /\ PlanInv' /\ PCInv' /\ LockInv' /\
     ThreadInv' /\ DistinctInv' /\ AddInv' /\ RequestInv' /\ WorkInv' /\ HitInv'
  BY DEF AppInv, ListTypes, DownloadTypes, PlanType, PlanInv, PCInv, LockInv,
       ThreadInv, DistinctInv, AddInv, RequestInv, WorkInv, HitInv, SendDownload,
       dlvars, AutoRemove, Holds
<1>3. IndexInv'
  BY DEF AppInv, IndexInv, ThreadTypes, SendDownload
<1> QED
  BY <1>1, <1>2, <1>3 DEF AppInv, CoreInv, TypeOK

(* A listing ends.                                                           *)
LEMMA ListEndKeeps ==
  ASSUME AppInv, CoreInv', ListEnd
  PROVE  AppInv'
<1>1. PlanInv'
  BY DEF AppInv, ThreadTypes, ListTypes, PlanInv, ListEnd, Goto, Threads, MainPCs,
       AutoRemove
<1>2. DistinctInv'
  BY DEF AppInv, DownloadTypes, PlanType, DistinctInv, ListEnd, dlvars
<1>3. PCInv' /\ ThreadInv' /\ ListedInv'
  BY AppAssumption DEF AppInv, PCInv, ThreadInv, ListedInv, ListEnd, Goto, dlvars,
       StopPCs, MainPCs
<1>4. IndexInv' /\ AddInv' /\ RequestInv'
  BY DEF AppInv, IndexInv, AddInv, RequestInv, ListEnd, Goto, dlvars, RemovePCs,
       CancelPCs, AutoRemove
<1>5. WorkInv' /\ HitInv'
  BY AppAssumption DEF AppInv, WorkInv, HitInv, ListEnd, Goto, dlvars
<1> QED
  BY <1>1, <1>2, <1>3, <1>4, <1>5 DEF AppInv, CoreInv, TypeOK

(* A listing of one download, which lives.                                   *)
LEMMA GetDownloadByUUIDKeeps ==
  ASSUME AppInv, CoreInv', NEW d \in Downloads, GetDownloadByUUID(d)
  PROVE  AppInv'
<1>1. PlanInv' /\ PCInv'
  BY AppAssumption DEF AppInv, ListTypes, PlanInv, PCInv, GetDownloadByUUID, Goto,
       Threads, StopPCs, MainPCs, AutoRemove
<1>2. DistinctInv'
  BY DEF AppInv, DownloadTypes, PlanType, DistinctInv, GetDownloadByUUID, dlvars
<1>3. ThreadInv' /\ ListedInv' /\ IndexInv'
  BY DEF AppInv, ThreadInv, ListedInv, IndexInv, GetDownloadByUUID, Goto, dlvars,
       StopPCs
<1>4. AddInv' /\ WorkInv' /\ HitInv'
  BY AppAssumption DEF AppInv, AddInv, WorkInv, HitInv, GetDownloadByUUID, Goto, Set,
       dlvars
<1>5. RequestInv'
  <2> DEFINE e == transfers[FindByUUID(UuidOf[d])]
  <2>1. FindByUUID(UuidOf[d]) \in DOMAIN transfers /\ at[Main] = "ready"
    BY SearchFinds DEF GetDownloadByUUID, AppInv, ListTypes
  <2>2. e \in Downloads /\ obj[e] = "live"
    BY <2>1 DEF AppInv, ListTypes, ListedInv, StopPCs
  <2>3. /\ at'[Main] = "listOne" /\ target'[Main] = e
        /\ \A u \in Threads : u # Main => at'[u] = at[u] /\ target'[u] = target[u]
        /\ UNCHANGED <<asked, obj, callbacks, plan, reapstatus>>
    BY DEF GetDownloadByUUID, Goto, Set, AppInv, ThreadTypes, Threads, dlvars
  <2> HIDE DEF e
  <2>4. Downloads \subseteq Threads /\ Main \notin Downloads
    BY AppAssumption DEF Threads
  <2> QED
    BY <2>2, <2>3, <2>4 DEF AppInv, RequestInv, AutoRemove, CancelPCs, RemovePCs
<1> QED
  BY <1>1, <1>2, <1>3, <1>4, <1>5 DEF AppInv, CoreInv, TypeOK

(* The end of that.                                                          *)
LEMMA SendOneKeeps ==
  ASSUME AppInv, CoreInv', SendOne
  PROVE  AppInv'
<1>1. PlanInv'
  BY DEF AppInv, ThreadTypes, ListTypes, PlanInv, SendOne, Goto, Threads, MainPCs,
       AutoRemove
<1>2. DistinctInv'
  BY DEF AppInv, DownloadTypes, PlanType, DistinctInv, SendOne, dlvars
<1>3. PCInv' /\ ThreadInv' /\ ListedInv'
  BY AppAssumption DEF AppInv, PCInv, ThreadInv, ListedInv, SendOne, Goto, dlvars,
       StopPCs, MainPCs
<1>4. IndexInv' /\ AddInv' /\ RequestInv'
  BY DEF AppInv, IndexInv, AddInv, RequestInv, SendOne, Goto, dlvars, StopPCs,
       RemovePCs, CancelPCs, AutoRemove
<1>5. WorkInv' /\ HitInv'
  BY AppAssumption DEF AppInv, WorkInv, HitInv, SendOne, Goto, dlvars
<1> QED
  BY <1>1, <1>2, <1>3, <1>4, <1>5 DEF AppInv, CoreInv, TypeOK

(* A cancel that has found its download.                                     *)
LEMMA AskKeeps ==
  ASSUME AppInv, NEW t \in Threads, NEW e \in Downloads, Asks(t, e), MayAsk(t, e),
       plan'.policy = plan.policy, plan'.stop = plan.stop
  PROVE  PlanType' /\ PlanInv' => AppInv'
<1>1. ThreadTypes' /\ ListTypes' /\ PCInv'
  BY AppAssumption DEF AppInv, ThreadTypes, ListTypes, PCInv, Asks, MayAsk, StopPCs,
       OwnPCs, MainPCs, CancelPCs
<1>2. DownloadTypes' /\ DistinctInv'
  BY DEF AppInv, DownloadTypes, DistinctInv, Asks, dlvars
<1>3. LockInv'
  BY AppAssumption DEF AppInv, LockInv, ThreadTypes, Asks, Threads, Holds
<1>4. ThreadInv' /\ ListedInv' /\ IndexInv'
  BY DEF AppInv, ThreadInv, ListedInv, IndexInv, Asks, MayAsk, dlvars, StopPCs
<1>5. AddInv' /\ WorkInv' /\ HitInv'
  BY AppAssumption DEF AppInv, AddInv, WorkInv, HitInv, Asks, MayAsk, dlvars
<1>6. RequestInv'
  BY AppAssumption DEF AppInv, RequestInv, ThreadTypes, Asks, MayAsk, dlvars,
       RemovePCs, AutoRemove
<1> QED
  BY <1>1, <1>2, <1>3, <1>4, <1>5, <1>6 DEF AppInv

(* A download that is done and has no policy goes on to Complete.            *)
LEMMA SignalKeeps ==
  ASSUME AppInv, CoreInv', NEW d \in Downloads, at[d] = "signal", Goto(d, "complete"), UNCHANGED
       <<transfers, transfermutex, obj, dlvars, work, target, hit, index, asked, plan>>
  PROVE  AppInv'
<1>1. PlanInv' /\ PCInv'
  BY AppAssumption DEF AppInv, ThreadTypes, PlanInv, PCInv, Goto, Threads, OwnPCs,
       RunPCs, AutoRemove
<1>2. DistinctInv'
  BY DEF AppInv, ListTypes, DownloadTypes, PlanType, DistinctInv, dlvars
<1>3. ThreadInv' /\ ListedInv'
  BY AppAssumption DEF AppInv, LockInv, ThreadInv, ListedInv, Goto, dlvars, Holds
<1>4. IndexInv' /\ AddInv' /\ RequestInv'
  BY AppAssumption DEF AppInv, IndexInv, AddInv, RequestInv, Goto, dlvars, CancelPCs,
       AutoRemove
<1>5. WorkInv' /\ HitInv'
  BY AppAssumption DEF AppInv, WorkInv, HitInv, Goto, dlvars
<1> QED
  BY <1>1, <1>2, <1>3, <1>4, <1>5 DEF AppInv, CoreInv, TypeOK

(* A client's cancel uses up the only one that is left for its download.     *)
LEMMA ClientCancelKeeps ==
  ASSUME AppInv, CoreInv', NEW d \in Downloads, ClientCancel(d)
  PROVE  AppInv'
<1>1. /\ at[Main] = "ready" /\ CancelFind(Main, d)
      /\ plan' = [plan EXCEPT !.cancels[d] = @ - 1]
      /\ plan.cancels[d] > 0 /\ plan.cancels \in [Downloads -> Nat]
  BY DEF ClientCancel, AppInv, PlanType
<1>2. /\ plan'.policy = plan.policy /\ plan'.stop = plan.stop
      /\ plan'.cancels \in [Downloads -> Nat]
      /\ plan'.cancels[d] = plan.cancels[d] - 1
      /\ \A c \in Downloads : c # d => plan'.cancels[c] = plan.cancels[c]
      /\ PlanType'
  BY <1>1 DEF AppInv, PlanType
<1>3. \A c \in Downloads : /\ plan.cancels[c] = 0 => plan'.cancels[c] = 0
                           /\ plan'.cancels[c] > 0 => plan.cancels[c] > 0
  BY <1>1, <1>2
<1>4. OneRemoverEach(plan')
  <2>1. \A c, e, x \in Downloads :
           /\ Reaches(c, x) /\ plan'.cancels[c] > 0
           /\ Reaches(e, x) /\ plan'.cancels[e] > 0
           => c = e /\ plan'.cancels[c] = 1
    <3> SUFFICES ASSUME NEW c \in Downloads, NEW e \in Downloads, NEW x \in Downloads,
                        Reaches(c, x), plan'.cancels[c] > 0,
                        Reaches(e, x), plan'.cancels[e] > 0
                 PROVE  c = e /\ plan'.cancels[c] = 1
      OBVIOUS
    <3>1. c = e /\ plan.cancels[c] = 1
      BY <1>3 DEF AppInv, PlanInv, OneRemoverEach
    <3>2. c # d
      BY <1>1, <1>2, <3>1
    <3> QED
      BY <1>2, <3>1, <3>2
  <2>2. \A c, e \in Downloads : Reaches(c, e) /\ plan'.policy[e] # 0 => plan'.cancels[c] = 0
    BY <1>2, <1>3 DEF AppInv, PlanInv, OneRemoverEach
  <2>3. plan'.stop => \A c \in Downloads : plan'.policy[c] = 0 /\ plan'.cancels[c] = 0
    BY <1>2, <1>3 DEF AppInv, PlanInv, OneRemoverEach
  <2> QED
    BY <2>1, <2>2, <2>3 DEF OneRemoverEach
<1>5. CASE Sought(d) = 0
  <2>1. at' = at
    BY <1>1, <1>5 DEF CancelFind, Goto, Home, AppInv, ThreadTypes
  <2>2. UNCHANGED <<transfers, transfermutex, obj, dlvars, work, target, hit,
                    index, asked>>
    BY <1>1, <1>5, CancelAsks DEF AppInv, ListTypes, Asks
  <2>3. PlanInv'
    BY <1>2, <1>3, <1>4, <2>1, <2>2 DEF AppInv, PlanInv, AutoRemove
  <2>4. PCInv' /\ RequestInv'
    BY <1>2, <2>1, <2>2 DEF AppInv, PCInv, RequestInv, AutoRemove, dlvars
  <2> QED
    BY <1>2, <2>1, <2>2, <2>3, <2>4
       DEF AppInv, ThreadTypes, ListTypes, DownloadTypes, LockInv, Holds, ThreadInv,
           DistinctInv, ListedInv, IndexInv, AddInv, WorkInv, HitInv, dlvars
<1>6. CASE Sought(d) # 0
  <2> DEFINE e == transfers[Sought(d)]
  <2>1. /\ e \in Downloads /\ MayAsk(Main, e) /\ plan.cancels[d] = 1
        /\ \A c \in Downloads : Reaches(c, e) /\ c # d => plan.cancels[c] = 0
    BY <1>6, ClientFinds
  <2>2. Asks(Main, e)
    BY <1>1, <1>6, CancelAsks DEF AppInv, ListTypes
  <2> HIDE DEF e
  <2>3. Main \in Threads /\ Main \notin Downloads
    BY AppAssumption DEF Threads
  <2>4. PlanInv'
    <3>1. asked' = asked \cup {e} /\ \A x \in Downloads : at'[x] = at[x]
      BY <2>2, <2>3 DEF Asks, AppInv, ThreadTypes, Threads
    <3>2. \A c \in Downloads : Reaches(c, e) => plan'.cancels[c] = 0
      BY <1>2, <1>3, <2>1
    <3>3. ~plan'.stop /\ ~AutoRemove(e)
      BY <1>2, <2>1, <2>3 DEF MayAsk
    <3>4. asked \subseteq Downloads
      BY DEF AppInv, ListTypes
    <3> QED
      BY <1>2, <1>3, <1>4, <3>1, <3>2, <3>3, <3>4 DEF AppInv, PlanInv, AutoRemove
  <2> QED
    BY <1>2, <2>1, <2>2, <2>3, <2>4, AskKeeps
<1> QED
  BY <1>5, <1>6

(* A download that is done removes itself when its policy says so.           *)
LEMMA RunSignalKeeps ==
  ASSUME AppInv, CoreInv', NEW d \in Downloads, RunSignal(d)
  PROVE  AppInv'
<1>1. at[d] = "signal" /\ UNCHANGED plan
  BY DEF RunSignal
<1>2. CASE ~AutoRemove(d)
  BY <1>1, <1>2, SignalKeeps DEF RunSignal
<1>3. CASE AutoRemove(d)
  <2>1. Sought(d) \in DOMAIN transfers /\ transfers[Sought(d)] = d /\ MayAsk(d, d)
    BY <1>1, <1>3, SignalFinds
  <2>2. Asks(d, d)
    <3>1. CancelFind(d, d)
      BY <1>3 DEF RunSignal
    <3>2. Sought(d) # 0
      BY <2>1 DEF AppInv, ListTypes
    <3> QED
      BY <2>1, <3>1, <3>2, CancelAsks DEF AppInv, ListTypes
  <2>3. PlanInv'
    <3>1. /\ asked' = asked \cup {d} /\ at'[d] = "cancelRegister"
          /\ \A x \in Downloads : x # d => at'[x] = at[x]
      BY <2>2 DEF Asks, AppInv, ThreadTypes, Threads
    <3>2. \A c \in Downloads : Reaches(c, d) => plan.cancels[c] = 0
      BY <1>3 DEF AppInv, PlanInv, OneRemoverEach, AutoRemove
    <3>3. ~plan.stop /\ asked \subseteq Downloads
      BY <2>1 DEF MayAsk, AppInv, ListTypes
    <3> QED
      BY <1>1, <3>1, <3>2, <3>3 DEF AppInv, PlanInv, AutoRemove
  <2>4. PlanType'
    BY <1>1 DEF AppInv, PlanType
  <2> QED
    BY <1>1, <2>1, <2>2, <2>3, <2>4, AskKeeps DEF Threads
<1> QED
  BY <1>2, <1>3

-------------------------------------------------------------------------------
(* The theorems.                                                             *)

(* The daemon starts with an empty list and nothing asked for.               *)
LEMMA InitInv ==
  ASSUME Considerate, Init
  PROVE  AppInv
<1>1. plan \in Plans /\ OneRemoverEach(plan)
  BY DEF Init, Considerate
<1>2. Main \in Threads /\ Deferred \in Threads /\ Downloads \subseteq Threads
  BY DEF Threads
<1>3. /\ at[Main] = "ready" /\ at[Deferred] = "idle"
      /\ \A d \in Downloads : at[d] = "unborn"
  BY <1>2, AppAssumption DEF Init
<1>4. \A t \in Threads : at[t] \in {"ready", "idle", "unborn"}
  BY DEF Init
<1>5. ThreadTypes
  BY DEF Init, ThreadTypes, MainPCs, RunPCs
<1>6. ListTypes /\ DownloadTypes
  BY DEF Init, ListTypes, DownloadTypes
<1>7. PlanType
  BY <1>1, AppAssumption DEF PlanType
<1>8. PlanInv
  BY <1>1 DEF Init, PlanInv
<1>9. PCInv
  BY <1>3 DEF PCInv, MainPCs, OwnPCs, StopPCs
<1>10. LockInv
  BY <1>4, AppAssumption DEF Init, LockInv, Holds, StopPCs, Threads
<1>11. ThreadInv
  BY <1>3 DEF Init, ThreadInv
<1>12. DistinctInv /\ ListedInv /\ IndexInv
  BY <1>3 DEF Init, DistinctInv, ListedInv, IndexInv
<1>13. AddInv
  BY <1>3 DEF Init, AddInv
<1>14. RequestInv /\ HitInv
  BY <1>2, <1>4 DEF RequestInv, HitInv, CancelPCs, RemovePCs
<1>15. WorkInv
  BY <1>3 DEF Init, WorkInv, RemovePCs
<1> QED
  BY <1>5, <1>6, <1>7, <1>8, <1>9, <1>10, <1>11, <1>12, <1>13, <1>14, <1>15 DEF AppInv

(* The steps of CancelDownload and RemoveDownload, in any thread.            *)
LEMMA CancelOrRemoveKeeps ==
  ASSUME AppInv, CoreInv', NEW t \in Threads, CancelOrRemove(t)
  PROVE  AppInv'
  BY CancelRegisterKeeps, CancelFlagKeeps, CancelRelockKeeps, RemoveBeginKeeps,
     RemoveLockKeeps, RemoveReapKeeps DEF CancelOrRemove

(* The steps of a download's own thread.                                     *)
LEMMA RunKeeps ==
  ASSUME AppInv, CoreInv', NEW d \in Downloads, Run(d)
  PROVE  AppInv'
  BY RunBeginKeeps, TransferEndsKeeps, RunSignalKeeps, CompleteEnterKeeps,
     InvokeCallbacksKeeps, CompleteFinishKeeps, CancelOrRemoveKeeps DEF Run, Threads

(* A step that changes nothing keeps the invariant.                          *)
LEMMA StutterKeeps ==
  ASSUME AppInv, CoreInv', UNCHANGED vars
  PROVE  AppInv'
<1>1. PlanInv' /\ PCInv' /\ ThreadInv'
  BY DEF AppInv, vars, threadvars, dlvars, PlanInv, AutoRemove, PCInv, LockInv, Holds,
       ThreadInv
<1>2. DistinctInv' /\ ListedInv' /\ IndexInv' /\ AddInv'
  BY DEF AppInv, vars, threadvars, dlvars, DistinctInv, ListedInv, IndexInv, AddInv
<1>3. RequestInv' /\ WorkInv' /\ HitInv'
  BY DEF AppInv, vars, threadvars, dlvars, RequestInv, AutoRemove, WorkInv, HitInv
<1> QED
  BY <1>1, <1>2, <1>3 DEF AppInv, CoreInv, TypeOK

(* Every step of the daemon keeps the invariant.                             *)
LEMMA NextInv ==
  ASSUME AppInv, CoreInv', Considerate, [Next]_vars
  PROVE  AppInv'
<1>1. ASSUME NEW d \in Downloads, AddCheckUuid(d) \/ ClientCancel(d) \/ Run(d)
                                     \/ GetDownloadByUUID(d)
      PROVE  AppInv'
  BY <1>1, AddCheckUuidKeeps, ClientCancelKeeps, RunKeeps, GetDownloadByUUIDKeeps
<1>2. CASE AddSteps
  BY <1>2, AddCheckUrlKeeps, AddFindKeeps, AddRegisterKeeps, AddStartKeeps DEF AddSteps
<1>3. CASE ListLock \/ ListSteps
  BY <1>3, ListLockKeeps, SendDownloadKeeps, ListEndKeeps, SendOneKeeps DEF ListSteps
<1>4. CASE ShutDownLock \/ ShutDownSteps
  BY <1>4, ShutDownLockKeeps, ShutDownStopKeeps, ShutDownReapKeeps, ShutDownEndKeeps
     DEF ShutDownSteps
<1>5. CASE CancelOrRemove(Main) \/ DeferredTake \/ CancelOrRemove(Deferred)
  BY <1>5, CancelOrRemoveKeeps, DeferredTakeKeeps DEF Threads
<1>6. CASE UNCHANGED vars
  BY <1>6, StutterKeeps
<1> QED
  BY <1>1, <1>2, <1>3, <1>4, <1>5, <1>6 DEF Next

(* The invariant holds in every state of the daemon.                         *)
THEOREM AppInvariant ==
  ASSUME Considerate
  PROVE  Spec => []AppInv
<1>1. Init => AppInv
  BY InitInv
<1>2. AppInv /\ CoreInv' /\ [Next]_vars => AppInv'
  BY NextInv
<1> QED
  BY <1>1, <1>2, CoreInvariant, PTL DEF Spec

(* No thread uses a deleted download, and none is ever in the list when      *)
(* somebody may take the lock.                                               *)
THEOREM NobodyUsesFreed ==
  ASSUME Considerate
  PROVE  Spec => []NoUseAfterFree
<1>1. ASSUME AppInv PROVE NoUseAfterFree
  <2>1. ASSUME NEW t \in Threads, NEW d \in Uses(t)
        PROVE  obj[d] = "live"
    <3>1. CASE at[t] = "addRegister" /\ d = target[t]
      BY <1>1, <3>1, AppAssumption DEF AppInv, PCInv, AddInv, Threads, RemovePCs, OwnPCs
    <3>2. CASE at[t] = "addStart" /\ d = target[t]
      <4>1. t = Main
        BY <1>1, <3>2 DEF AppInv, PCInv, Threads, RemovePCs, OwnPCs
      <4> QED
        BY <1>1, <3>2, <4>1 DEF AppInv, AddInv, ListedInv, StopPCs
    <3>3. CASE at[t] \in {"cancelRegister", "cancelFlag", "removeBegin", "removeReap",
                          "removeLock"} /\ d = target[t]
      BY <1>1, <3>3 DEF AppInv, RequestInv, CancelPCs
    <3>4. CASE at[t] = "listOne" /\ d = target[t]
      BY <1>1, <3>4 DEF AppInv, PCInv, RequestInv, Threads, RemovePCs, OwnPCs
    <3>5. CASE t \in Downloads /\ at[t] \notin {"unborn", "ended"} /\ d = t
      BY <1>1, <3>5 DEF AppInv, ThreadInv, DownloadTypes
    <3>6. CASE /\ \/ at[t] \in {"stop", "list"} /\ index <= Len(transfers)
                  \/ at[t] = "stopReap"
               /\ d = transfers[index]
      <4>1. t = Main
        BY <1>1, <3>6 DEF AppInv, PCInv, Threads, RemovePCs, OwnPCs
      <4>2. index \in DOMAIN transfers /\ index \in Nat
        BY <1>1, <3>6, <4>1 DEF AppInv, IndexInv, ThreadTypes, ListTypes
      <4> QED
        BY <1>1, <3>6, <4>2 DEF AppInv, ListedInv
    <3> QED
      BY <3>1, <3>2, <3>3, <3>4, <3>5, <3>6 DEF Uses
  <2>2. ASSUME transfermutex = None, NEW d \in ToSet(transfers)
        PROVE  obj[d] = "live"
    <3>1. at[Main] \notin StopPCs
      BY <1>1, <2>2, AppAssumption DEF AppInv, LockInv, Holds, Threads
    <3> QED
      BY <1>1, <2>2, <3>1 DEF AppInv, ListedInv, ToSet
  <2> QED
    BY <2>1, <2>2 DEF NoUseAfterFree
<1> QED
  BY <1>1, AppInvariant, PTL

(* No object is left behind: what lives is listed, or AddDownload is at it.  *)
THEOREM NothingIsOrphaned ==
  ASSUME Considerate
  PROVE  Spec => []NoOrphans
<1>1. AppInv => NoOrphans
  BY DEF AppInv, ListedInv, NoOrphans, ToSet
<1> QED
  BY <1>1, AppInvariant, PTL

-------------------------------------------------------------------------------
(* What removals wait for, and that none is lost.                            *)

(* Who polls ReapOK with the lock held, and for which download.              *)
Polls(t) == at[t] \in {"removeReap", "stopReap"}
Polled(t) == IF at[t] = "removeReap" THEN target[t] ELSE transfers[index]

(* Who is polled for with the lock held gets to the end of his completion    *)
(* without the lock: he is past the signal that may cancel, or his download  *)
(* has no removal policy.                                                    *)
PolledNeedsNoLock ==
    \A t \in Threads : Polls(t) =>
        LET d == Polled(t)
        IN  \/ at[d] \in {"complete", "invoke", "finish", "ended"}
            \/ at[d] \in {"begin", "transfer", "signal"} /\ ~AutoRemove(d)

(* No circle of waits: with one remover for each download, the deadlock that *)
(* ftdapp_stop_auto finds cannot come about, in ShutDown or in a removal.    *)
THEOREM NoCircularWait ==
  ASSUME Considerate
  PROVE  Spec => []PolledNeedsNoLock
<1>1. ASSUME AppInv, NEW t \in Threads, at[t] = "removeReap"
      PROVE  at[target[t]] \in {"invoke", "finish", "ended"}
  <2>1. t \in {Main, Deferred}
    BY <1>1 DEF AppInv, PCInv, OwnPCs, Threads
  <2> DEFINE d == target[t]
  <2>2. d \in Downloads
    BY <1>1 DEF AppInv, RequestInv, CancelPCs, ListTypes
  <2>3. t = Deferred => at[d] \in {"finish", "ended"}
    BY <1>1 DEF AppInv, WorkInv, RemovePCs
  <2>4. t = Main => reapstatus[d] # "OK"
    BY <1>1 DEF AppInv, RequestInv, RemovePCs
  <2> HIDE DEF d
  <2>5. reapstatus[d] \in {"OK", "CALLINPROGRESS", "CALLDONE"}
    BY <1>1, <2>2 DEF AppInv, DownloadTypes
  <2>6. at[d] \in {"invoke", "finish", "ended"}
    BY <1>1, <2>1, <2>2, <2>3, <2>4, <2>5 DEF AppInv, ThreadInv
  <2> QED
    BY <2>6 DEF d
<1>2. ASSUME AppInv, NEW t \in Threads, at[t] = "stopReap"
      PROVE  LET d == transfers[index]
             IN  \/ at[d] \in {"complete", "invoke", "finish", "ended"}
                 \/ at[d] \in {"begin", "transfer", "signal"} /\ ~AutoRemove(d)
  <2> DEFINE d == transfers[index]
  <2>1. t = Main
    BY <1>2 DEF AppInv, PCInv, OwnPCs, RemovePCs, Threads
  <2>2. plan.stop
    BY <1>2, <2>1 DEF AppInv, PCInv, StopPCs
  <2>3. index \in DOMAIN transfers /\ d \in Downloads
    BY <1>2, <2>1 DEF AppInv, IndexInv, ThreadTypes, ListTypes
  <2>4. obj[d] = "live"
    BY <1>2, <2>1, <2>3 DEF AppInv, ListedInv, ThreadTypes
  <2>5. at[d] # "unborn"
    BY <1>2, <2>1, <2>3, <2>4 DEF AppInv, AddInv
  <2> HIDE DEF d
  <2>6. ~AutoRemove(d)
    BY <1>2, <2>2, <2>3 DEF AppInv, PlanInv, OneRemoverEach, AutoRemove
  <2>7. at[d] \in OwnPCs /\ at[d] \notin {"cancelRegister", "cancelFlag"}
    BY <1>2, <2>3, <2>6 DEF AppInv, PCInv, RequestInv
  <2>8. \/ at[d] \in {"complete", "invoke", "finish", "ended"}
        \/ at[d] \in {"begin", "transfer", "signal"} /\ ~AutoRemove(d)
    BY <2>5, <2>6, <2>7 DEF OwnPCs
  <2> QED
    BY <2>8 DEF d
<1>3. AppInv => PolledNeedsNoLock
  BY <1>1, <1>2 DEF PolledNeedsNoLock, Polls, Polled
<1> QED
  BY <1>3, AppInvariant, PTL

\* A removal of d that is registered, queued or under way.
Pending(d) ==
    \/ callbacks[d] = 1 /\ at[d] \notin {"finish", "ended"}
    \/ \E k \in DOMAIN work : work[k] = d
    \/ \E t \in Threads : at[t] \in {"cancelRegister"} \cup RemovePCs /\ target[t] = d

(* A download whose removal was asked for is gone, or its removal is on its  *)
(* way: no race of CancelDownload with Complete loses one.                   *)
NoRemovalIsLost == \A d \in asked : obj[d] = "live" => Pending(d)

(* A thread with a removal in its hands keeps it until it acts.              *)
LEMMA RemoverKeeps ==
  ASSUME CoreInv, PlacesInv, [Next]_vars, NEW t \in Threads,
         at[t] \in {"cancelRegister"} \cup RemovePCs
  PROVE  \/ CancelRegister(t) \/ RemoveBegin(t) \/ RemoveLock(t) \/ RemoveReap(t)
         \/ UNCHANGED <<at[t], target[t]>>
<1>1. /\ at \in [Threads -> MainPCs \cup RunPCs \cup {"idle"}]
      /\ target \in [Threads -> Downloads \cup {None}]
      /\ Main \in Threads /\ Deferred \in Threads /\ Downloads \subseteq Threads
      /\ Main \notin Downloads /\ Deferred \notin Downloads /\ Main # Deferred
  BY AppAssumption DEF CoreInv, TypeOK, ThreadTypes, Threads
<1> USE DEF RemovePCs
<1>2. CASE AddSteps
  BY <1>1, <1>2 DEF AddSteps, AddCheckUrl, AddFind, AddRegister, AddStart, Goto,
       CoreInv, NewInv, AddPCs
<1>3. CASE \E d \in Downloads : AddCheckUuid(d) \/ GetDownloadByUUID(d) \/ ClientCancel(d)
  BY <1>1, <1>3 DEF AddCheckUuid, GetDownloadByUUID, ClientCancel, CancelFind, Goto, Set
<1>4. CASE ListLock \/ ListSteps \/ ShutDownLock \/ ShutDownSteps
  BY <1>1, <1>4 DEF ListLock, ListSteps, SendDownload, ListEnd, SendOne,
       ShutDownLock, ShutDownSteps, ShutDownStop, ShutDownReap, ShutDownEnd, Goto
<1>5. ASSUME NEW u \in Threads, CancelOrRemove(u), u # t
      PROVE  UNCHANGED <<at[t], target[t]>>
  BY <1>1, <1>5 DEF CancelOrRemove, CancelRegister, CancelFlag, CancelRelock,
       RemoveBegin, RemoveLock, RemoveReap, Goto
<1>6. CASE CancelOrRemove(t)
  BY <1>1, <1>6 DEF CancelOrRemove, CancelFlag, CancelRelock
<1>7. CASE DeferredTake
  BY <1>1, <1>7 DEF DeferredTake, Goto, Set
<1>8. ASSUME NEW d \in Downloads, Run(d), ~CancelOrRemove(d)
      PROVE  UNCHANGED <<at[t], target[t]>>
  BY <1>1, <1>8 DEF Run, RunBegin, TransferEnds, RunSignal, CancelFind, CompleteEnter,
       InvokeCallbacks, CompleteFinish, Goto, Set
<1>9. CASE UNCHANGED vars
  BY <1>9 DEF vars, threadvars
<1> QED
  BY <1>1, <1>2, <1>3, <1>4, <1>5, <1>6, <1>7, <1>8, <1>9 DEF Next

(* The request goes from hand to hand.                                       *)
LEMMA PendingKeeps ==
  ASSUME CoreInv, PlacesInv, AppInv, AppInv', NoRemovalIsLost, [Next]_vars
  PROVE  NoRemovalIsLost'
<1> SUFFICES ASSUME NEW d \in asked', obj'[d] = "live"
             PROVE  Pending(d)'
  BY DEF NoRemovalIsLost
<1>1. /\ at \in [Threads -> MainPCs \cup RunPCs \cup {"idle"}]
      /\ target \in [Threads -> Downloads \cup {None}]
      /\ Main \in Threads /\ Deferred \in Threads /\ Downloads \subseteq Threads
      /\ Main \notin Downloads /\ Deferred \notin Downloads /\ Main # Deferred
      /\ d \in Downloads /\ transfers \in Seq(Downloads) /\ work \in Seq(Downloads)
      /\ obj \in [Downloads -> {"none", "live", "freed"}]
      /\ reapstatus \in [Downloads -> {"OK", "CALLINPROGRESS", "CALLDONE"}]
      /\ callbacks \in [Downloads -> Nat]
  BY AppAssumption DEF CoreInv, TypeOK, ThreadTypes, ListTypes, DownloadTypes, Threads,
     AppInv
<1>2. ASSUME d \notin asked
      PROVE  Pending(d)'
  <2>1. \E t \in Threads : \E e \in Downloads : CancelFind(t, e) /\ asked' # asked
    BY <1>1, <1>2 DEF Next, AddSteps, ListSteps, ShutDownSteps, CancelOrRemove, Run,
       AddCheckUuid, ClientCancel, GetDownloadByUUID, AddCheckUrl, AddRegister,
       ListLock, SendOne, ShutDownLock, AddFind, AddStart, ShutDownReap, SendDownload, ListEnd,
       ShutDownStop, ShutDownEnd, DeferredTake, CancelRegister,
       CancelFlag, CancelRelock, RemoveBegin, RemoveLock, RemoveReap, RunBegin, TransferEnds,
       RunSignal, CompleteEnter, InvokeCallbacks, CompleteFinish, vars
  <2>2. PICK t \in Threads, c \in Downloads : CancelFind(t, c) /\ asked' # asked
    BY <2>1
  <2>3. PICK e \in Downloads : Asks(t, e)
    BY <1>1, <2>2, CancelFinds
  <2>4. at'[t] = "cancelRegister" /\ target'[t] = d
    BY <1>1, <1>2, <2>3 DEF Asks
  <2> QED
    BY <2>4 DEF Pending
<1>3. ASSUME d \in asked
      PROVE  obj[d] = "live" /\ at[d] # "unborn"
  <2>1. at[d] # "unborn" /\ obj[d] # "none"
    BY <1>1, <1>3 DEF AppInv, ThreadInv
  <2>2. obj[d] # "freed"
    BY <1>1, <2>1, Writers DEF AddFind, ShutDownReap, RemoveReap, CoreInv, NewInv,
         AddPCs
  <2> QED
    BY <1>1, <2>1, <2>2
<1>4. ASSUME d \in asked, callbacks[d] = 1, at[d] \notin {"finish", "ended"}
      PROVE  Pending(d)'
  <2>1. CASE InvokeCallbacks(d)
    <3> DEFINE s == [k \in 1..callbacks[d] |-> d]
    <3>1. work' = work \o s
      BY <2>1 DEF InvokeCallbacks
    <3>2. s \in Seq(Downloads) /\ Len(s) = 1 /\ s[1] = d
      BY <1>1, <1>4
    <3> HIDE DEF s
    <3>3. work \in Seq(Downloads) /\ Len(work) \in Nat
      BY <1>1
    <3>4. /\ work' \in Seq(Downloads) /\ Len(work') = Len(work) + 1
          /\ work'[Len(work) + 1] = s[1]
      <4>1. /\ work' \in Seq(Downloads) /\ Len(work') = Len(work) + Len(s)
            /\ \A i \in 1..(Len(work) + Len(s)) :
                  work'[i] = IF i <= Len(work) THEN work[i] ELSE s[i - Len(work)]
        BY <3>1, <3>2, <3>3, ConcatProperties
      <4> QED
        BY <3>2, <3>3, <4>1
    <3>5. Len(work) + 1 \in DOMAIN work' /\ work'[Len(work) + 1] = d
      BY <3>2, <3>3, <3>4
    <3> QED
      BY <3>5 DEF Pending
  <2>2. CASE ~InvokeCallbacks(d)
    <3>1. at'[d] \notin {"finish", "ended"}
      BY <1>1, <1>3, <1>4, <2>2, ThreadsGoOn DEF AddStart, Run, RunBegin, TransferEnds,
         RunSignal, CancelFind, CompleteEnter, CompleteFinish, CancelOrRemove,
         CancelRegister, CancelFlag, CancelRelock, RemoveBegin, RemoveLock, RemoveReap,
         Goto, Home, AfterRemove
    <3>2. callbacks'[d] \in {0, 1} /\ callbacks'[d] >= callbacks[d]
      <4>1. callbacks' = callbacks \/ \E t \in Threads : CancelRegister(t)
        BY <1>1 DEF Next, AddSteps, ListSteps, ShutDownSteps, CancelOrRemove, Run,
             AddCheckUuid, ClientCancel, GetDownloadByUUID, AddCheckUrl, AddRegister,
             ListLock, SendOne, ShutDownLock, AddFind, AddStart, ShutDownReap,
             SendDownload, ListEnd, ShutDownStop, ShutDownEnd, DeferredTake,
             CancelFind, CancelFlag, CancelRelock, RemoveBegin, RemoveLock,
             RemoveReap, RunBegin, TransferEnds, RunSignal, CompleteEnter,
             InvokeCallbacks, CompleteFinish, vars, dlvars
      <4>2. callbacks'[d] >= callbacks[d]
        BY <1>1, <4>1 DEF CancelRegister
      <4> QED
        BY <1>1, <4>2 DEF AppInv, WorkInv
    <3> QED
      BY <1>4, <3>1, <3>2 DEF Pending
  <2> QED
    BY <2>1, <2>2
<1>5. ASSUME NEW k \in DOMAIN work, work[k] = d
      PROVE  Pending(d)'
  <2>1. CASE UNCHANGED work
    BY <1>5, <2>1 DEF Pending
  <2>2. CASE DeferredTake /\ k = 1
    <3>1. at'[Deferred] = "removeBegin" /\ target'[Deferred] = d
      BY <1>1, <1>5, <2>2 DEF DeferredTake, Goto, Set
    <3> QED
      BY <1>1, <3>1 DEF Pending, RemovePCs
  <2>3. CASE DeferredTake /\ k # 1
    <3>1. work' = Tail(work) /\ work # <<>>
      BY <2>3 DEF DeferredTake
    <3>2. k - 1 \in DOMAIN work' /\ work'[k - 1] = d
      BY <1>1, <1>5, <2>3, <3>1
    <3> QED
      BY <3>2 DEF Pending
  <2>4. ASSUME NEW e \in Downloads, InvokeCallbacks(e)
        PROVE  Pending(d)'
    <3> DEFINE s == [i \in 1..callbacks[e] |-> e]
    <3>1. work' = work \o s
      BY <2>4 DEF InvokeCallbacks
    <3>2. s \in Seq(Downloads)
      <4>1. callbacks[e] \in Nat
        BY <1>1
      <4> QED
        BY <4>1
    <3> HIDE DEF s
    <3>3. k \in DOMAIN work' /\ work'[k] = d
      BY <1>1, <1>5, <3>1, <3>2
    <3> QED
      BY <3>3 DEF Pending
  <2> QED
    BY <2>1, <2>2, <2>3, <2>4, Writers
<1>6. ASSUME d \in asked, NEW t \in Threads, target[t] = d,
             at[t] \in {"cancelRegister"} \cup RemovePCs
      PROVE  Pending(d)'
  <2>1. CASE CancelRegister(t)
    <3>1. CASE reapstatus[d] = "OK"
      <4>1. callbacks'[d] = callbacks[d] + 1 /\ at[t] = "cancelRegister"
        BY <1>1, <1>6, <2>1, <3>1 DEF CancelRegister
      <4>2. callbacks'[d] = 1
        BY <1>1, <1>6, <4>1 DEF AppInv, RequestInv
      <4>3. at'[d] \notin {"finish", "ended"}
        <5>1. at[d] \notin {"finish", "ended"}
          BY <1>1, <3>1 DEF AppInv, ThreadInv
        <5> QED
          BY <1>1, <2>1, <5>1 DEF CancelRegister, Goto
      <4> QED
        BY <4>2, <4>3 DEF Pending
    <3>2. CASE reapstatus[d] # "OK"
      <4>1. at'[t] = "removeBegin" /\ target'[t] = d
        BY <1>1, <1>6, <2>1, <3>2 DEF CancelRegister, Goto
      <4> QED
        BY <4>1 DEF Pending, RemovePCs
    <3> QED
      BY <3>1, <3>2
  <2>2. CASE RemoveBegin(t)
    <3>1. at'[t] = "removeLock" /\ target'[t] = d
      BY <1>1, <1>6, <2>2 DEF RemoveBegin, Goto
    <3> QED
      BY <3>1 DEF Pending, RemovePCs
  <2>3. CASE RemoveLock(t)
    <3>1. \E k \in DOMAIN transfers : transfers[k] = d
      BY <1>1, <1>3, <1>6 DEF AppInv, ListedInv, AddInv
    <3>2. FindByURL(UrlOf[d]) # 0
      BY <1>1, <3>1, SearchFinds
    <3>3. at'[t] = "removeReap" /\ target'[t] = d
      BY <1>1, <1>6, <2>3, <3>2 DEF RemoveLock, Goto
    <3> QED
      BY <3>3 DEF Pending, RemovePCs
  <2>4. CASE RemoveReap(t)
    BY <1>1, <1>6, <2>4 DEF RemoveReap
  <2>5. CASE UNCHANGED <<at[t], target[t]>>
    BY <1>6, <2>5 DEF Pending
  <2> QED
    BY <1>6, <2>1, <2>2, <2>3, <2>4, <2>5, RemoverKeeps
<1> QED
  BY <1>2, <1>3, <1>4, <1>5, <1>6 DEF NoRemovalIsLost, Pending

(* The safety half of AskedIsRemoved: what has been asked for is on its way. *)
THEOREM RemovalsAreNotLost ==
  ASSUME Considerate
  PROVE  Spec => []NoRemovalIsLost
<1>1. Init => NoRemovalIsLost
  BY DEF Init, NoRemovalIsLost
<1>2. CoreInv /\ PlacesInv /\ AppInv /\ AppInv' /\ NoRemovalIsLost /\ [Next]_vars
      => NoRemovalIsLost'
  BY PendingKeeps
<1> QED
  BY <1>1, <1>2, CoreInvariant, PlacesInvariant, AppInvariant, PTL DEF Spec

-------------------------------------------------------------------------------
(* FtdApp implements DownloadList.                                           *)

Listed == ToSet(transfers) \ Freed
Closing == at[Main] \in {"stop", "stopReap", "exited"}

\* Steps the clients do not see.
Quiet == UNCHANGED <<Listed, Freed, asked, Closing>>

(* Adding a download before it is on the list, and all that its thread and   *)
(* the removals do before they erase it, is not seen.                        *)
LEMMA ThreadsAreQuiet ==
  ASSUME AppInv, NEW t \in Threads,
         \/ CancelRegister(t) \/ CancelFlag(t) \/ CancelRelock(t)
         \/ RemoveBegin(t) \/ RemoveLock(t)
         \/ t \in Downloads /\ (\/ RunBegin(t) \/ TransferEnds(t) \/ CompleteEnter(t)
                                \/ InvokeCallbacks(t) \/ CompleteFinish(t))
         \/ t = Deferred /\ DeferredTake
  PROVE  Quiet
<1>1. UNCHANGED <<transfers, obj, asked>>
  BY DEF CancelRegister, CancelFlag, CancelRelock, RemoveBegin, RemoveLock, RunBegin,
       TransferEnds, CompleteEnter, InvokeCallbacks, CompleteFinish, DeferredTake,
       dlvars
<1>2. \A u \in Threads : u # t => at'[u] = at[u]
  BY DEF CancelRegister, CancelFlag, CancelRelock, RemoveBegin, RemoveLock, RunBegin,
       TransferEnds, CompleteEnter, InvokeCallbacks, CompleteFinish, DeferredTake,
       Goto, AppInv, ThreadTypes
<1>3. ASSUME t = Main PROVE ~Closing /\ ~Closing'
  BY <1>3, AppAssumption DEF CancelRegister, CancelFlag, CancelRelock, RemoveBegin,
         RemoveLock, Goto, Home, AfterRemove, AppInv, ThreadTypes, Closing
<1>4. Closing' = Closing
  BY <1>2, <1>3 DEF Closing, Threads
<1> QED
  BY <1>1, <1>4 DEF Quiet, Listed, Freed

(* Neither is what the main thread does to look at the list.                 *)
LEMMA MainIsQuiet ==
  ASSUME AppInv,
         \/ \E d \in Downloads : AddCheckUuid(d) \/ GetDownloadByUUID(d)
         \/ AddCheckUrl \/ AddStart \/ ListLock \/ ListSteps \/ ShutDownStop
  PROVE  Quiet
<1>1. UNCHANGED <<transfers, obj, asked>>
  BY DEF AddCheckUuid, GetDownloadByUUID, AddCheckUrl, AddStart, ListLock, ListSteps,
         SendDownload, ListEnd, SendOne, ShutDownStop
<1>2. ASSUME ShutDownStop PROVE Closing' = Closing
  <2>1. at[Main] = "stop" /\ at'[Main] \in {"stopReap", "exited"}
    BY <1>2 DEF ShutDownStop, Goto, AppInv, ThreadTypes, Threads
  <2> QED
    BY <2>1 DEF Closing
<1>3. ASSUME AddStart PROVE Closing' = Closing
  <2>1. target[Main] \in Downloads /\ target[Main] # Main
    BY <1>3, AppAssumption DEF AddStart, AppInv, AddInv
  <2>2. at[Main] = "addStart" /\ at'[Main] = "ready"
    BY <1>3, <2>1, AppAssumption DEF AddStart, AppInv, ThreadTypes, Threads
  <2> QED
    BY <2>2 DEF Closing
<1>4. ASSUME ListLock \/ ListSteps PROVE Closing' = Closing
  <2>1. /\ at[Main] \notin {"stop", "stopReap", "exited"}
        /\ at'[Main] \notin {"stop", "stopReap", "exited"}
    BY <1>4 DEF ListLock, ListSteps, SendDownload, ListEnd, SendOne, Goto, AppInv,
                ThreadTypes, Threads
  <2> QED
    BY <2>1 DEF Closing
<1>5. ASSUME AddCheckUrl \/ \E d \in Downloads : AddCheckUuid(d) \/ GetDownloadByUUID(d)
      PROVE  Closing' = Closing
  <2>1. /\ at[Main] \notin {"stop", "stopReap", "exited"}
        /\ at'[Main] \notin {"stop", "stopReap", "exited"}
    BY <1>5 DEF AddCheckUrl, AddCheckUuid, GetDownloadByUUID, Goto, AppInv, ThreadTypes,
                Threads
  <2> QED
    BY <2>1 DEF Closing
<1>6. Closing' = Closing
  BY <1>2, <1>3, <1>4, <1>5
<1> QED
  BY <1>1, <1>6 DEF Quiet, Listed, Freed

(* A new object is not listed yet, and one that is discarded never was.      *)
LEMMA AddFindIsQuiet ==
  ASSUME AppInv, AddFind
  PROVE  Quiet
<1>1. target[Main] \in Downloads /\ obj[target[Main]] = "none" /\ at[Main] = "addFind"
  BY DEF AddFind, AppInv, AddInv
<1>2. UNCHANGED <<transfers, asked>> /\ ~Closing /\ ~Closing'
  BY <1>1 DEF AddFind, Goto, Closing, AppInv, ThreadTypes
<1>3. \A d \in Downloads : obj'[d] = "freed" <=> obj[d] = "freed"
  BY <1>1 DEF AddFind, AppInv, DownloadTypes
<1>4. Freed' = Freed
  BY <1>3 DEF Freed
<1>5. Listed' = Listed
  BY <1>2, <1>4 DEF Listed
<1>6. Closing' = Closing
  BY <1>2 DEF Closing
<1> QED
  BY <1>2, <1>4, <1>5, <1>6 DEF Quiet

(* RegisterDownload is the abstract Add.                                     *)
LEMMA AddRegisterAdds ==
  ASSUME AppInv, AddRegister
  PROVE  DL!Add(target[Main])
<1> DEFINE d == target[Main]
<1>1. /\ at[Main] = "addRegister" /\ d \in Downloads /\ obj[d] = "live" /\ at[d] = "unborn"
      /\ \A k \in DOMAIN transfers : UuidOf[transfers[k]] # UuidOf[d]
  BY DEF AddRegister, AppInv, AddInv
<1>2. d \notin ToSet(transfers) /\ d \notin Freed
  BY <1>1 DEF ToSet, Freed
<1>3. UNCHANGED <<obj, asked>> /\ ~Closing /\ ~Closing'
  BY <1>1 DEF AddRegister, Goto, Closing, AppInv, ThreadTypes
<1>4. ToSet(transfers') = ToSet(transfers) \cup {d}
  <2> DEFINE n == Len(transfers)
  <2>1. /\ DOMAIN transfers' = 1..(n + 1) /\ DOMAIN transfers = 1..n /\ n \in Nat
        /\ \A k \in 1..n : transfers'[k] = transfers[k]
        /\ transfers'[n + 1] = d
    BY <1>1 DEF AddRegister, AppInv, ListTypes
  <2> HIDE DEF n, d
  <2>2. 1..(n + 1) = 1..n \cup {n + 1}
    BY <2>1
  <2> QED
    BY <2>1, <2>2 DEF ToSet
<1>5. Freed' = Freed
  BY <1>3 DEF Freed
<1>6. \A x \in ToSet(transfers) : UuidOf[x] # UuidOf[d]
  BY <1>1 DEF ToSet
<1> QED
  BY <1>2, <1>3, <1>4, <1>5, <1>6 DEF DL!Add, Closing

(* A cancel that finds its download is the abstract Ask.                     *)
LEMMA AsksAsk ==
  ASSUME AppInv, NEW t \in Threads, NEW e \in Downloads, Asks(t, e), MayAsk(t, e)
  PROVE  DL!Ask(e)
<1>1. at[Main] # "addRegister" \/ target[Main] # e
  BY DEF MayAsk, AppInv, AddInv
<1>2. e \in ToSet(transfers) /\ e \notin Freed
  BY <1>1 DEF MayAsk, AppInv, ListedInv, ToSet, Freed
<1>3. UNCHANGED <<transfers, obj>> /\ asked' = asked \cup {e}
  BY DEF Asks
<1>4. Closing' = Closing
  <2>1. t = Main => ~Closing /\ ~Closing'
    BY DEF Asks, MayAsk, Closing, AppInv, ThreadTypes, Threads, PCInv, OwnPCs
  <2>2. t # Main => at'[Main] = at[Main]
    BY DEF Asks, AppInv, ThreadTypes, Threads
  <2> QED
    BY <2>1, <2>2 DEF Closing
<1> QED
  BY <1>2, <1>3, <1>4 DEF DL!Ask, Freed, Closing

(* Erasing and deleting is the abstract Remove, on request ...               *)
LEMMA ReapRemoves ==
  ASSUME AppInv, NEW t \in Threads, RemoveReap(t)
  PROVE  DL!Remove(target[t])
<1> DEFINE e == target[t]
<1>1. /\ e \in Downloads /\ e \in asked /\ obj[e] = "live"
      /\ hit[t] \in DOMAIN transfers /\ transfers[hit[t]] = e
      /\ at[Main] \notin {"stop", "stopReap", "exited"}
  BY ReapsAlone DEF StopPCs
<1>2. PICK f \in [DOMAIN transfers' -> DOMAIN transfers \ {hit[t]}] :
         /\ \A k \in DOMAIN transfers' : transfers'[k] = transfers[f[k]]
         /\ \A j \in DOMAIN transfers \ {hit[t]} : \E k \in DOMAIN transfers' : f[k] = j
  BY ReapErases DEF Without
<1>3. Freed' = Freed \cup {e}
  BY <1>1 DEF RemoveReap, Freed, AppInv, DownloadTypes
<1>4. UNCHANGED asked /\ ~Closing /\ ~Closing'
  BY <1>1 DEF RemoveReap, Goto, AfterRemove, Closing, AppInv, ThreadTypes
<1> HIDE DEF e
<1>5. ToSet(transfers') \subseteq ToSet(transfers)
  BY <1>2 DEF ToSet
<1>6. ASSUME NEW x \in ToSet(transfers), x # e
      PROVE  x \in ToSet(transfers')
  <2>1. PICK j \in DOMAIN transfers : transfers[j] = x
    BY DEF ToSet
  <2>2. j \in DOMAIN transfers \ {hit[t]}
    BY <1>1, <1>6, <2>1
  <2> QED
    BY <1>2, <2>1, <2>2 DEF ToSet
<1>7. e \in ToSet(transfers) /\ e \notin Freed
  BY <1>1 DEF ToSet, Freed
<1> QED
  BY <1>1, <1>3, <1>4, <1>5, <1>6, <1>7 DEF DL!Remove, Closing, e

(* ... or at the shutdown, which empties the list at its end.                *)
LEMMA ShutDownReapRemoves ==
  ASSUME AppInv, ShutDownReap
  PROVE  DL!Remove(transfers[index])
<1> DEFINE e == transfers[index]
<1>1. /\ at[Main] = "stopReap" /\ index \in DOMAIN transfers /\ e \in Downloads
      /\ obj[e] = "live"
  BY ShutDownReapsEnded
<1>2. e \in ToSet(transfers) /\ e \notin Freed
  BY <1>1 DEF ToSet, Freed
<1>3. Freed' = Freed \cup {e}
  BY <1>1 DEF ShutDownReap, Freed, AppInv, DownloadTypes
<1>4. UNCHANGED <<transfers, asked>> /\ Closing /\ Closing'
  BY <1>1 DEF ShutDownReap, Goto, Closing, AppInv, ThreadTypes, Threads
<1> QED
  BY <1>2, <1>3, <1>4 DEF DL!Remove, Closing

(* At the end of the shutdown all that is on the list has been deleted.      *)
LEMMA ShutDownEndIsQuiet ==
  ASSUME AppInv, ShutDownEnd
  PROVE  Quiet
<1>1. at[Main] = "stop" /\ index > Len(transfers) /\ transfers' = <<>>
  BY DEF ShutDownEnd
<1>2. \A k \in DOMAIN transfers : obj[transfers[k]] = "freed" /\ transfers[k] \in Downloads
  <2> SUFFICES ASSUME NEW k \in DOMAIN transfers
               PROVE  obj[transfers[k]] = "freed" /\ transfers[k] \in Downloads
    OBVIOUS
  <2>1. k \in Nat /\ k < index /\ transfers[k] \in Downloads
    BY <1>1 DEF AppInv, ListTypes, ThreadTypes
  <2> QED
    BY <1>1, <2>1 DEF AppInv, ListedInv, StopPCs
<1>3. UNCHANGED <<obj, asked>> /\ Closing /\ Closing'
  BY <1>1 DEF ShutDownEnd, Goto, Closing, AppInv, ThreadTypes, Threads, dlvars
<1>4. ToSet(transfers') = {} /\ ToSet(transfers) \subseteq Freed
  BY <1>1, <1>2 DEF ToSet, Freed
<1> QED
  BY <1>3, <1>4 DEF Quiet, Listed, Freed, Closing

(* Every step of the daemon is a step of DownloadList or is not seen.        *)
LEMMA StepImplements ==
  ASSUME AppInv, [Next]_vars
  PROVE  [DL!Next]_(DL!vars)
<1>1. Quiet => UNCHANGED DL!vars
  BY DEF Quiet, Listed, Closing, DL!vars
<1>2. \A d \in Downloads : DL!Add(d) \/ DL!Ask(d) \/ DL!Remove(d) => DL!Next
  BY DEF DL!Next
<1>3. ASSUME NEW d \in Downloads, AddCheckUuid(d) \/ GetDownloadByUUID(d)
      PROVE  Quiet
  BY <1>3, MainIsQuiet
<1>4. ASSUME NEW d \in Downloads, ClientCancel(d)
      PROVE  Quiet \/ DL!Next
  <2>1. CASE Sought(d) = 0
    BY <1>4, <2>1 DEF ClientCancel, CancelFind, Goto, Home, Quiet, Listed, Freed,
         Closing, AppInv, ThreadTypes
  <2>2. CASE Sought(d) # 0
    <3> DEFINE e == transfers[Sought(d)]
    <3>1. e \in Downloads /\ MayAsk(Main, e)
      BY <1>4, <2>2, ClientFinds
    <3>2. Asks(Main, e)
      BY <1>4, <2>2, CancelAsks DEF ClientCancel, AppInv, ListTypes
    <3> QED
      BY <1>2, <3>1, <3>2, AsksAsk DEF Threads
  <2> QED
    BY <2>1, <2>2
<1>5. ASSUME NEW d \in Downloads, RunSignal(d)
      PROVE  Quiet \/ DL!Next
  <2>1. CASE ~AutoRemove(d)
    BY <1>5, <2>1, AppAssumption DEF RunSignal, Goto, Quiet, Listed, Freed, Closing,
         AppInv, ThreadTypes, Threads
  <2>2. CASE AutoRemove(d)
    <3>1. Sought(d) \in DOMAIN transfers /\ transfers[Sought(d)] = d /\ MayAsk(d, d)
      BY <1>5, <2>2, SignalFinds DEF RunSignal
    <3>2. Asks(d, d)
      <4>1. CancelFind(d, d)
        BY <1>5, <2>2 DEF RunSignal
      <4>2. Sought(d) # 0
        BY <3>1 DEF AppInv, ListTypes
      <4> QED
        BY <3>1, <4>1, <4>2, CancelAsks DEF AppInv, ListTypes
    <3> QED
      BY <1>2, <3>1, <3>2, AsksAsk DEF Threads
  <2> QED
    BY <2>1, <2>2
<1>6. ASSUME NEW t \in Threads, CancelOrRemove(t)
      PROVE  Quiet \/ DL!Next
  <2>1. CASE RemoveReap(t)
    BY <1>2, <2>1, ReapsAlone, ReapRemoves
  <2>2. CASE ~RemoveReap(t)
    BY <1>6, <2>2, ThreadsAreQuiet DEF CancelOrRemove
  <2> QED
    BY <2>1, <2>2
<1>7. ASSUME NEW d \in Downloads, Run(d)
      PROVE  Quiet \/ DL!Next
  <2>1. d \in Threads
    BY DEF Threads
  <2> QED
    BY <1>5, <1>6, <1>7, <2>1, ThreadsAreQuiet DEF Run
<1>8. CASE AddSteps
  <2>1. AddRegister => target[Main] \in Downloads
    BY DEF AddRegister, AppInv, AddInv
  <2> QED
    BY <1>1, <1>2, <1>8, <2>1, MainIsQuiet, AddFindIsQuiet, AddRegisterAdds DEF AddSteps
<1>9. CASE ListLock \/ ListSteps
  BY <1>1, <1>9, MainIsQuiet
<1>10. CASE ShutDownLock
  <2>1. ~Closing /\ Closing' /\ UNCHANGED <<transfers, obj, asked>>
    BY <1>10 DEF ShutDownLock, Goto, Closing, AppInv, ThreadTypes, Threads
  <2> QED
    BY <2>1 DEF DL!Next, DL!Close, Closing, Freed
<1>11. CASE ShutDownSteps
  BY <1>1, <1>2, <1>11, MainIsQuiet, ShutDownReapsEnded, ShutDownReapRemoves,
     ShutDownEndIsQuiet DEF ShutDownSteps
<1>12. CASE DeferredTake
  BY <1>1, <1>12, ThreadsAreQuiet DEF Threads
<1>13. CASE UNCHANGED vars
  BY <1>13 DEF vars, threadvars, DL!vars, Freed
<1> QED
  BY <1>1, <1>3, <1>4, <1>6, <1>7, <1>8, <1>9, <1>10, <1>11, <1>12, <1>13 DEF Next,
       Threads

(* The daemon, with all its threads and locks, keeps the promise that         *)
(* DownloadList makes about the list: nothing leaves it unasked, nothing is  *)
(* deleted twice, what is gone does not come back.                           *)
THEOREM Refinement ==
  ASSUME Considerate
  PROVE  Spec => ImplementsDownloadList
<1>1. Init => DL!Init
  BY AppAssumption DEF Init, DL!Init, Freed, ToSet, Threads
<1>2. AppInv /\ [Next]_vars => [DL!Next]_(DL!vars)
  BY StepImplements
<1> QED
  BY <1>1, <1>2, AppInvariant, PTL DEF Spec, DL!Spec, ImplementsDownloadList
===============================================================================
