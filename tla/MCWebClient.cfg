SPECIFICATION Spec
CONSTANTS
  feeble = feeble
  sturdy = sturdy
  Passwords = {feeble, sturdy}
  LocalScore <- MCLocalScore
  ServerSettings <- MCServerSettings
INVARIANTS
  VerdictIsAboutField
PROPERTIES
  SubmissionEnds
