SPECIFICATION Spec
CONSTANTS
  Values <- MCValues
  Envs <- MCEnvs
  Unset = Unset
  DefaultSite = "default"
  SpecHost = "spec"
  URLs <- OneURL
  Truthy <- Yes
  Unparsable <- Typo
  Attachments <- Both
  MaxSessions = 2
CHECK_DEADLOCK FALSE
INVARIANT TypeOK
INVARIANT InsecureWasAskedFor
PROPERTY UndisturbedSendsWhatItGave
PROPERTY RequestsFollowTheirSession
