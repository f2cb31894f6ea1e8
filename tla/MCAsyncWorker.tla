---------------------------- MODULE MCAsyncWorker ----------------------------
(* A small instance of AsyncWorker: three units, one of them urgent.         *)
EXTENDS AsyncWorker

CONSTANTS u1, u2, u3

MCItems == {u1, u2, u3}
MCUrgent == {u1}

(* The worker as the daemon uses it until it ends: nobody destroys it.       *)
LivingSpec == Init /\ [][Next /\ UNCHANGED destructor]_vars /\ Fairness
==============================================================================
