---------------------------- MODULE MCCompletion ----------------------------
(* A small instance of Completion: two threads that complete the same      *)
(* download, cancels that race with them, and a waiter.                    *)
EXTENDS Completion

CONSTANTS c1, c2, r1, r2, r3, w1

MCCompleters == {c1, c2}
MCRegistrars == {r1, r2, r3}
MCWaiters == {w1}
==============================================================================
