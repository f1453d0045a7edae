--------------------------- MODULE PublishedStates ---------------------------
(***************************************************************************)
(* What the HTTP layer may rely on about the two states it loads: the      *)
(* configuration (config.ConfigState) and the OAuth snapshot               *)
(* (oauth.State), each an atomic pointer that the SIGHUP handler alone     *)
(* stores to (setupSIGHUPHandler in pkg/kubernetes-mcp-server/cmd/root.go).*)
(* SighupHandler implements this specification; the modules of the HTTP    *)
(* layer are composed with it.                                             *)
(*                                                                         *)
(* A configuration is the number of the read that made it, and a snapshot  *)
(* the number of the configuration whose OAuth settings it holds.          *)
(***************************************************************************)
EXTENDS Naturals

CONSTANTS
    Contents,       \* what a configuration file can say; the field oauth is
                    \* the part a snapshot holds
    MaxConfigs      \* bound on configurations ever read

ASSUME PublishedAssumption == Contents # {} /\ MaxConfigs \in Nat \ {0}

Configs == 1..MaxConfigs

VARIABLES
    content,        \* what each configuration says
    newest,         \* the last configuration read
    cfgState,       \* the published configuration
    oauthState,     \* the published snapshot
    before,         \* both, as they were before the last reload
    stage           \* how far the last reload has got

publishedVars == <<content, newest, cfgState, oauthState, before, stage>>

Stages == {"rest", "read", "oauth", "config", "back"}

PublishedTypeOK ==
    /\ content \in [Configs -> Contents]
    /\ newest \in Configs /\ cfgState \in Configs /\ oauthState \in Configs
    /\ before \in [cfg : Configs, oauth : Configs]
    /\ stage \in Stages

PublishedInit ==
    /\ content \in {[c \in Configs |-> t] : t \in Contents}
    /\ newest = 1 /\ cfgState = 1 /\ oauthState = 1
    /\ before = [cfg |-> 1, oauth |-> 1]
    /\ stage = "rest"

ReadNew(t) ==
    /\ stage = "rest"
    /\ newest < MaxConfigs
    /\ newest' = newest + 1
    /\ content' = [content EXCEPT ![newest'] = t]
    /\ before' = [cfg |-> cfgState, oauth |-> oauthState]
    /\ stage' = "read"
    /\ UNCHANGED <<cfgState, oauthState>>

\* Discovery of the new issuer failed; nothing has been published.
GiveUp ==
    /\ stage = "read"
    /\ stage' = "rest"
    /\ UNCHANGED <<content, newest, cfgState, oauthState, before>>

OAuthChanged == content[before.oauth].oauth # content[newest].oauth

PublishOAuth ==
    /\ stage = "read"
    /\ oauthState' = IF OAuthChanged THEN newest ELSE oauthState
    /\ stage' = "oauth"
    /\ UNCHANGED <<content, newest, cfgState, before>>

\* Bug: the configuration does not wait for the snapshot.
PublishConfigAtOnce ==
    /\ stage \in {"read", "oauth"}
    /\ cfgState' = newest
    /\ stage' = "config"
    /\ UNCHANGED <<content, newest, oauthState, before>>

PublishConfig ==
    /\ stage = "oauth"
    /\ cfgState' = newest
    /\ stage' = "config"
    /\ UNCHANGED <<content, newest, oauthState, before>>

\* ReloadConfiguration returned nil.
Keep ==
    /\ stage = "config"
    /\ stage' = "rest"
    /\ UNCHANGED <<content, newest, cfgState, oauthState, before>>

\* ReloadConfiguration failed.
TakeBackConfig ==
    /\ stage = "config"
    /\ cfgState' = before.cfg
    /\ stage' = "back"
    /\ UNCHANGED <<content, newest, oauthState, before>>

TakeBackOAuth ==
    /\ stage = "back"
    /\ oauthState' = before.oauth
    /\ stage' = "rest"
    /\ UNCHANGED <<content, newest, cfgState, before>>

PublishedNext ==
    \/ \E t \in Contents : ReadNew(t)
    \/ GiveUp
    \/ PublishOAuth
    \/ PublishConfig
    \/ Keep
    \/ TakeBackConfig
    \/ TakeBackOAuth

PublishedSpec == PublishedInit /\ [][PublishedNext]_publishedVars
=============================================================================
