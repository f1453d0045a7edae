--------------------------- MODULE MCWatcherGroup ---------------------------
(***************************************************************************)
(* WatcherGroup with two timer goroutines.                                 *)
(***************************************************************************)
EXTENDS WatcherGroup

CONSTANTS k1, k2

MCCallbacks == {k1, k2}
=============================================================================
