CONSTANTS
  Configs <- configs
  Absent = Absent
  Error = Error
  MaxVersion = 2
  MaxDials = 2
SPECIFICATION Spec
INVARIANTS OneSource ExternalIsShown SecretsAreFresh
CHECK_DEADLOCK FALSE
