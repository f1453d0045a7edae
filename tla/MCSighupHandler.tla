-------------------------- MODULE MCSighupHandler --------------------------
(***************************************************************************)
(* SighupHandler on a small instance: files that differ in the provider's  *)
(* settings, in the well-known ones only, and in the log destination.      *)
(***************************************************************************)
EXTENDS SighupHandler

CONSTANT w1

MCContents ==
    { [provider |-> "a", served |-> "s", log |-> "stderr"],
      [provider |-> "a", served |-> "t", log |-> "path"],
      [provider |-> "b", served |-> "s", log |-> "path"] }
MCLogWriters == {w1}
MCLogPaths   == {"path"}
=============================================================================
