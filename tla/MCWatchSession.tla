--------------------------- MODULE MCWatchSession ---------------------------
(* Small instances of WatchSession.  *)
EXTENDS WatchSession
=============================================================================
