-------------------------- MODULE MCCurlDownloader --------------------------
(* Values for the constants of CurlDownloader. *)
EXTENDS CurlDownloader

AllModes == {"file", "stream", "headers"}
===============================================================================
