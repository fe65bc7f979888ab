--------------------------- MODULE MCWatchManager ---------------------------
(***************************************************************************)
(* WatchManager.tla on a small instance: everything is given in the        *)
(* configuration.                                                          *)
(***************************************************************************)
EXTENDS WatchManager, TLC
=============================================================================
