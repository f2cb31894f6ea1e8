----------------------------- MODULE DownloadList -----------------------------
(***************************************************************************)
(* What the daemon promises its clients about the list of downloads        *)
(* (bubba-ftd/src/FtdApp.h, the commands of Commands.h): a download is     *)
(* added once, under a uuid no listed download has; it stays listed until  *)
(* somebody asked for its removal or the daemon shuts down; what leaves    *)
(* the list is deleted and never comes back.                               *)
(***************************************************************************)
CONSTANTS Downloads, UuidOf

VARIABLES listed,   \* the downloads in the list
          asked,    \* those whose removal was asked for
          gone,     \* those removed and deleted
          closing   \* the daemon is shutting down

vars == <<listed, asked, gone, closing>>

Init == listed = {} /\ asked = {} /\ gone = {} /\ closing = FALSE

Add(d) == /\ d \notin listed \cup gone
          /\ ~closing
          /\ \A e \in listed : UuidOf[e] # UuidOf[d]
          /\ listed' = listed \cup {d}
          /\ UNCHANGED <<asked, gone, closing>>

Ask(d) == /\ d \in listed
          /\ asked' = asked \cup {d}
          /\ UNCHANGED <<listed, gone, closing>>

Remove(d) == /\ d \in listed
             /\ d \in asked \/ closing
             /\ listed' = listed \ {d}
             /\ gone' = gone \cup {d}
             /\ UNCHANGED <<asked, closing>>

Close == /\ ~closing
         /\ closing' = TRUE
         /\ UNCHANGED <<listed, asked, gone>>

Next == Close \/ \E d \in Downloads : Add(d) \/ Ask(d) \/ Remove(d)

Spec == Init /\ [][Next]_vars
===============================================================================
