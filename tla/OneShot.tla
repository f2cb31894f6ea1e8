------------------------------- MODULE OneShot -------------------------------
(***************************************************************************)
(* What a Downloader promises those who ask to be told when it completes   *)
(* (bubba-ftd/src/Downloader.h, RegisterCompletionCallback and             *)
(* callbackstate): a one-shot event with a list of subscribers.            *)
(*                                                                         *)
(* A subscriber is accepted or refused, once.  Nobody is accepted after    *)
(* the first callback may have run, nobody is refused before the event was *)
(* triggered, callbacks run in the order of acceptance, and the event is   *)
(* done only when every accepted callback has run.                         *)
(***************************************************************************)
EXTENDS Sequences, Naturals

CONSTANT Subscribers

VARIABLES phase,     \* "open", "closing", "delivering" or "done"
          outcome,   \* what each subscriber was told: "none", "accepted", "refused"
          accepted,  \* the accepted subscribers, in order
          delivered  \* the subscribers whose callback has run, in order

vars == <<phase, outcome, accepted, delivered>>

Init == /\ phase = "open"
        /\ outcome = [s \in Subscribers |-> "none"]
        /\ accepted = <<>>
        /\ delivered = <<>>

Accept(s) == /\ phase \in {"open", "closing"}
             /\ outcome[s] = "none"
             /\ outcome' = [outcome EXCEPT ![s] = "accepted"]
             /\ accepted' = Append(accepted, s)
             /\ UNCHANGED <<phase, delivered>>

Refuse(s) == /\ phase # "open"
             /\ outcome[s] = "none"
             /\ outcome' = [outcome EXCEPT ![s] = "refused"]
             /\ UNCHANGED <<phase, accepted, delivered>>

Trigger == /\ phase = "open"
           /\ phase' = "closing"
           /\ UNCHANGED <<outcome, accepted, delivered>>

StartDelivery == /\ phase = "closing"
                 /\ phase' = "delivering"
                 /\ UNCHANGED <<outcome, accepted, delivered>>

Deliver == /\ phase = "delivering"
           /\ Len(delivered) < Len(accepted)
           /\ delivered' = Append(delivered, accepted[Len(delivered) + 1])
           /\ UNCHANGED <<phase, outcome, accepted>>

Finish == /\ phase = "delivering"
          /\ Len(delivered) = Len(accepted)
          /\ phase' = "done"
          /\ UNCHANGED <<outcome, accepted, delivered>>

Next == \/ \E s \in Subscribers : Accept(s) \/ Refuse(s)
        \/ Trigger \/ StartDelivery \/ Deliver \/ Finish

Spec == Init /\ [][Next]_vars
==============================================================================
