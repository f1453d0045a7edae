--------------------------- MODULE MCTokenExchange ---------------------------
(* Reloads that change one option at a time. *)
EXTENDS TokenExchange, TLC

Base == [exchange |-> TRUE, mode |-> "passthrough", url |-> "", style |-> "params",
         client |-> "a", trust |-> "ca1", requireTLS |-> FALSE]
AllConfigs == {
  Base, [Base EXCEPT !.trust = "ca2"], [Base EXCEPT !.requireTLS = TRUE],
  [Base EXCEPT !.style = "assertion", !.url = "https"],
  [Base EXCEPT !.style = "assertion", !.client = ""],
  [Base EXCEPT !.style = "federated", !.client = "b"], [Base EXCEPT !.style = "invalid"],
  [Base EXCEPT !.exchange = FALSE], [Base EXCEPT !.mode = "kubeconfig"]}

Symmetry == Permutations(Callers)
=============================================================================
