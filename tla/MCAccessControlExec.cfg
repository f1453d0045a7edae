CHECK_DEADLOCK FALSE
CONSTANTS
  Callers <- TheCallers
  CallsOf <- Sends
  Prefix <- ThePrefix
  Configs <- AllConfigs
  Entries <- AllEntries
  AtFirst <- CoreEntries
  Upgrades <- AllUpgrades
  Granted <- ExecGrants
  MaxSchemas = 2
  MaxRequests = 2
  MaxChanges = 2
SPECIFICATION Spec
INVARIANT
  PermissionDeniedMeansDenied
