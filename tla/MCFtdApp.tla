------------------------------- MODULE MCFtdApp -------------------------------
(* Small instances of FtdApp.                                                *)
EXTENDS FtdApp, TLC

CONSTANTS d1, d2, d3, id1

Two == {d1, d2}
Three == {d1, d2, d3}

(* d1 and d3 use one uuid, so only one of them is listed at a time; d2 has   *)
(* none and is looked up by its URL, which is d3's as well.                  *)
Uuids == [d \in Downloads |-> IF d = d2 THEN NoUuid ELSE id1]
Urls == [d \in Downloads |-> IF d = d1 THEN "u1" ELSE "u2"]

Only(e, n) == [d \in Downloads |-> IF d = e THEN n ELSE 0]
Nobody == [d \in Downloads |-> 0]

(* Whatever clients may ask for that leaves each download one remover.       *)
OneRemover == {p \in [policy : [Downloads -> 0..1], cancels : [Downloads -> 0..1],
                      stop : BOOLEAN] : OneRemoverEach(p)}

CancelTwice == {[policy |-> Nobody, cancels |-> Only(d1, 2), stop |-> FALSE]}
StopWithPolicy == {[policy |-> Only(d1, 1), cancels |-> Nobody, stop |-> TRUE]}
===============================================================================
