----------------------- MODULE MCClusterStateWatcher -----------------------
(***************************************************************************)
(* ClusterStateWatcher with two timer goroutines.                          *)
(***************************************************************************)
EXTENDS ClusterStateWatcher

CONSTANTS t1, t2

MCTimers == {t1, t2}
=============================================================================
