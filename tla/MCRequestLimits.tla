--------------------------- MODULE MCRequestLimits ---------------------------
(* Instances of RequestLimits for TLC. *)
EXTENDS RequestLimits, TLC

CONSTANTS c1, c2, s1, s2

\* Two caps under one rate limit, which refills a whole burst before an idle entry
\* is reaped, and no cap with another rate limit, of the default burst.
MCConfigs ==
  {[cap |-> k, rate |-> 1, burst |-> 1] : k \in {1, 2}} \cup {[cap |-> 0, rate |-> 1, burst |-> 0]}

Symmetry == Permutations({c1, c2}) \cup Permutations({s1, s2})
==============================================================================
