---------------------------- MODULE Authorization ----------------------------
(***************************************************************************)
(* AuthorizationMiddleware (pkg/http/authorization.go): every HTTP request *)
(* loads the configuration when it arrives and, if its token must be       *)
(* verified, the OAuth snapshot when it has parsed the token.  Reloads     *)
(* happen in between (PublishedStates).                                    *)
(*                                                                         *)
(* A token is what it claims and whether its issuer signed it; NoToken is  *)
(* a request without a usable bearer token.                                *)
(***************************************************************************)
EXTENDS PublishedStates

CONSTANTS
    Requests,       \* HTTP requests
    Tokens,         \* bearer tokens requests carry
    NoURL,          \* no authorization_url
    NoAudience,     \* no oauth_audience
    NoToken

\* Validate (pkg/config/validate.go): what a configuration may say about
\* authorization.
validateOAuth(t) ==
    /\ ~t.require => t.oauth.url = NoURL /\ t.audience = NoAudience
    /\ t.require /\ t.oauth.url = NoURL => t.skip

ASSUME AuthorizationAssumption == \A t \in Contents : validateOAuth(t)

VARIABLE auth       \* per request: where it is, its path and token, the
                    \* configuration and the snapshot it loaded, whether it
                    \* met a reload and whether one was taken back

\* The infrastructure endpoints are exempt like the well-known ones and have no
\* state of their own: they are left out.
Paths == {"mcp", "wellKnown"}

Absent == [pc |-> "absent", path |-> "mcp", token |-> NoToken, cfg |-> 1,
           snap |-> 1, reloading |-> FALSE, takenBack |-> FALSE]

AuthStates == {"absent", "online", "admitted", "unauthorized", "unavailable",
               "unconfigured"}

AuthTypeOK ==
    auth \in [Requests -> [pc : AuthStates, path : Paths,
                           token : Tokens \cup {NoToken}, cfg : Configs,
                           snap : Configs, reloading : BOOLEAN,
                           takenBack : BOOLEAN]]

AuthInit == auth = [r \in Requests |-> Absent]

-----------------------------------------------------------------------------
\* ValidateOffline: the claims alone.
ValidateOffline(token, audience) ==
    /\ token.form = "jwt"
    /\ ~token.expired
    /\ audience \in {NoAudience, token.audience}

\* ValidateWithProvider: the provider's keys verify the signature, and its
\* issuer and the audience are checked again.
ValidateWithProvider(token, audience, url) ==
    /\ token.issuer = url
    /\ token.signed
    /\ audience \in {NoAudience, token.audience}

\* Up to the load of the snapshot.
OnEntry(t, path, token) ==
    IF path = "wellKnown" \/ ~t.require THEN "admitted"
    ELSE IF token = NoToken THEN "unauthorized"
    ELSE IF t.skip /\ t.oauth.url = NoURL THEN "admitted"
    ELSE IF ValidateOffline(token, t.audience) THEN "online"
    ELSE "unauthorized"

\* Bug: without a provider there is nothing to verify with.
OnlineUnverified(t, token, url) ==
    IF url # NoURL /\ ~ValidateWithProvider(token, t.audience, url) THEN "unauthorized"
    ELSE "admitted"

\* The snapshot's provider, which is there exactly when its URL is.
Online(t, token, url) ==
    IF url = NoURL
    THEN IF t.oauth.url # NoURL THEN "unavailable" ELSE "unconfigured"
    ELSE IF ValidateWithProvider(token, t.audience, url) THEN "admitted"
    ELSE "unauthorized"

Enter(r, path, token) ==
    /\ auth[r].pc = "absent"
    /\ auth' = [auth EXCEPT ![r] =
         [pc |-> OnEntry(content[cfgState], path, token), path |-> path,
          token |-> token, cfg |-> cfgState, snap |-> oauthState,
          reloading |-> stage \in {"oauth", "back"}, takenBack |-> FALSE]]

\* Fetching the provider's keys may fail, which fails the verification.
Verify(r) ==
    /\ auth[r].pc = "online"
    /\ \/ auth' = [auth EXCEPT ![r].snap = oauthState,
                     ![r].pc = Online(content[auth[r].cfg], auth[r].token,
                                      content[oauthState].oauth.url)]
       \/ /\ content[oauthState].oauth.url # NoURL
          /\ auth' = [auth EXCEPT ![r].snap = oauthState, ![r].pc = "unauthorized"]

\* The handler or the refusal has answered.
Leave(r) ==
    /\ auth[r].pc \notin {"absent", "online"}
    /\ auth' = [auth EXCEPT ![r] = Absent]

\* A reload step, noted by the requests that are verifying (history).
Reload ==
    /\ PublishedNext
    /\ auth' = [r \in Requests |->
         IF auth[r].pc # "online" THEN auth[r]
         ELSE [auth[r] EXCEPT
                !.reloading = @ \/ oauthState' # oauthState,
                !.takenBack = @ \/ stage = "back"]]

-----------------------------------------------------------------------------
(***************************************************************************)
(* Properties.                                                             *)
(***************************************************************************)
Judged == {r \in Requests : /\ auth[r].path = "mcp"
                            /\ content[auth[r].cfg].require
                            /\ auth[r].pc # "absent"}

Passthrough(t) == t.skip /\ t.oauth.url = NoURL

\* Whatever is published or taken back between a request's two loads, a
\* request under require_oauth reaches /mcp only with a token: verified by the
\* provider of a published snapshot, for the audience of the configuration the
\* request loaded, or unverified under passthrough.
NeverAdmittedUnverified ==
    \A r \in Judged :
        auth[r].pc = "admitted" =>
            /\ auth[r].token # NoToken
            /\ \/ Passthrough(content[auth[r].cfg])
               \/ LET url == content[auth[r].snap].oauth.url
                  IN /\ url # NoURL
                     /\ ~auth[r].token.expired
                     /\ ValidateWithProvider(auth[r].token,
                                             content[auth[r].cfg].audience, url)

\* "HTTP auth never observes new flags with the old provider": a request does
\* not verify its token with a snapshot older than the configuration it
\* loaded, unless a reload was taken back while it was verifying.
OldProviderOnlyAfterRollback ==
    \A r \in Judged :
        \/ auth[r].snap >= auth[r].cfg
        \/ content[auth[r].snap].oauth = content[auth[r].cfg].oauth
        \/ auth[r].takenBack

\* Every valid configuration can judge every request: verification is never
\* unconfigured, and it is unavailable only to a request that met a reload, one
\* that came between the two stores or saw a snapshot stored before it
\* verified.
UnavailableOnlyInReload ==
    \A r \in Judged :
        /\ auth[r].pc # "unconfigured"
        /\ auth[r].pc = "unavailable" => auth[r].reloading
=============================================================================
