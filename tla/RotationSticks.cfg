SPECIFICATION Spec
CONSTANTS
  r1 = r1  r2 = r2  r3 = r3
  owner = owner  viewer = viewer  NoEmail = NoEmail
  Reqs <- Requests3
  Emails <- MCEmails
  InitialAdmins <- MCAdmins
  DevEnv = FALSE
  BypassEmail = NoEmail
  VerifierWired = TRUE
  StoreMayFail = FALSE
  Parts <- MCParts
  Tenants <- OneTenant
  ValidTenants <- OneTenant
  Platforms <- Platforms2
  Rates = {0, 60}
  BodyRefs <- MCBodyRefs
  Provisioned <- AllSecrets
  WriterWired = TRUE
  InitialConns <- StoredSlack
  InitialLatest <- SlackLatest
SYMMETRY Symmetry
INVARIANT RotationSticks
CHECK_DEADLOCK FALSE
