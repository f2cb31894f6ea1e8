------------------------- MODULE MCTorrentDownloader -------------------------
(* Values for the constant of TorrentDownloader. *)
EXTENDS TorrentDownloader

BothSources == {"http", "file"}
HttpOnly == {"http"}
===============================================================================
