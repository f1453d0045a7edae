CHECK_DEADLOCK FALSE
CONSTANTS
  Callers = {c1, c2}
  Configs <- AllConfigs
  Endpoints = {"", "http", "https"}
  Secure = {"https"}
  MaxCalls = 2
  MaxChanges = 2
SYMMETRY Symmetry
SPECIFICATION Spec
INVARIANTS
  ExchangesAsConfigured
  TokenIsGuarded
  CredentialsAreFresh
