CHECK_DEADLOCK FALSE
CONSTANTS
  Callers <- TheCallers
  CallsOf <- Sends
  Prefix <- ThePrefix
  Configs <- AllConfigs
  Entries <- AllEntries
  AtFirst <- CoreEntries
  Upgrades <- AllUpgrades
  Granted <- TheGrants
  MaxSchemas = 2
  MaxRequests = 2
  MaxChanges = 2
SPECIFICATION Spec
INVARIANTS
  DeniedIsNotSent
  ConsentIsKept
  RefusedForAReason
PROPERTY
  EveryRequestEnds
