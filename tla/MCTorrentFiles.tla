---------------------------- MODULE MCTorrentFiles ----------------------------
(* A small directory: a file of the daemon's own and two of users, one with  *)
(* a name that LoadInitial does not look for, and no home directory.         *)
EXTENDS TorrentFiles

CONSTANTS own, plain, hidden, t1, t2

TheFiles == {own, plain, hidden}
TheOwn == {own}
TheHidden == {hidden}
TheTorrents == {t1, t2}

(* The users' files agree with the daemon's or not.  Garbage is what is left  *)
(* of a file that was not written whole.                                     *)
Held == [f \in TheFiles |-> IF f = own THEN {t1} ELSE IF f = plain THEN {t1, t2} ELSE {t2}]
===============================================================================
