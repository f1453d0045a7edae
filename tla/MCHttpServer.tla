---------------------------- MODULE MCHttpServer ----------------------------
(***************************************************************************)
(* HttpServer on a small instance: an open server, one that passes tokens  *)
(* through, and two issuers, one with overrides of the metadata.           *)
(***************************************************************************)
EXTENDS HttpServer, TLC

CONSTANTS q1, q2

OAuth(url, scopes, no) == [url |-> url, scopes |-> scopes, noRegistration |-> no]

MCContents ==
    { [require |-> FALSE, skip |-> FALSE, audience |-> NoAudience,
       oauth |-> OAuth(NoURL, NoOverride, FALSE)],
      [require |-> TRUE, skip |-> TRUE, audience |-> NoAudience,
       oauth |-> OAuth(NoURL, NoOverride, FALSE)],
      [require |-> TRUE, skip |-> FALSE, audience |-> "x",
       oauth |-> OAuth("a", NoOverride, FALSE)],
      [require |-> TRUE, skip |-> TRUE, audience |-> NoAudience,
       oauth |-> OAuth("b", "s", TRUE)] }

Jwt(issuer, audience, signed, expired) ==
    [form |-> "jwt", issuer |-> issuer, audience |-> audience, signed |-> signed,
     expired |-> expired]

MCTokens ==
    { Jwt("a", "x", TRUE, FALSE), Jwt("b", "y", TRUE, FALSE),
      Jwt("a", "x", FALSE, FALSE), Jwt("b", "x", TRUE, TRUE) }

MCRequests == {q1, q2}
Symmetry   == Permutations(MCRequests)
=============================================================================
