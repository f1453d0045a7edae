---------------------------- MODULE ReloadContract ----------------------------
(***************************************************************************)
(* What Server.ReloadConfiguration (pkg/mcp/mcp.go) promises the SIGHUP    *)
(* handler that calls it: the live configuration changes in one            *)
(* indivisible step, only to the configuration that was passed in, and     *)
(* only on the way to a nil error.  Nothing else in the server, in         *)
(* particular no re-apply after a cluster or kubeconfig change, ever       *)
(* changes the live configuration.                                         *)
(***************************************************************************)
EXTENDS Naturals

CONSTANT MaxConfigs     \* bound on configurations ever read

ASSUME ContractAssumption == MaxConfigs \in Nat \ {0}

Configs == 1..MaxConfigs

VARIABLES
    live,   \* the configuration handlers load
    job     \* the last call of ReloadConfiguration: its state and argument

contractVars == <<live, job>>

Idle    == "idle"
Results == {"ok", "failed", "rejected"}

ContractTypeOK ==
    /\ live \in Configs
    /\ job \in [st : {Idle, "running", "committed"} \cup Results, cfg : Configs]

ContractInit ==
    /\ live = 1
    /\ job = [st |-> Idle, cfg |-> 1]

\* The caller passes a configuration it has just read.
Call(c) ==
    /\ job.st = Idle
    /\ c > job.cfg
    /\ job' = [st |-> "running", cfg |-> c]
    /\ UNCHANGED live

\* The configuration becomes the live one.
Commit ==
    /\ job.st = "running"
    /\ live' = job.cfg
    /\ job' = [job EXCEPT !.st = "committed"]

\* The call returns: nil only after the commit, an error only without it.
Return(r) ==
    /\ job.st = (IF r = "ok" THEN "committed" ELSE "running")
    /\ job' = [job EXCEPT !.st = r]
    /\ UNCHANGED live

\* The caller has seen the result.
Acknowledge ==
    /\ job.st \in Results
    /\ job' = [job EXCEPT !.st = Idle]
    /\ UNCHANGED live

ContractNext ==
    \/ \E c \in Configs : Call(c)
    \/ Commit
    \/ \E r \in Results : Return(r)
    \/ Acknowledge

ContractSpec == ContractInit /\ [][ContractNext]_contractVars
=============================================================================
