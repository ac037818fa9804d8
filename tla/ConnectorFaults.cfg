SPECIFICATION FairSpec
CONSTANTS
  r1 = r1  r2 = r2  r3 = r3
  owner = owner  viewer = viewer  NoEmail = NoEmail
  Reqs <- Requests2
  Emails <- MCEmails
  InitialAdmins <- MCAdmins
  DevEnv = FALSE
  BypassEmail = NoEmail
  VerifierWired = TRUE
  StoreMayFail = TRUE
  Parts <- MCParts
  Tenants <- TwoTenants
  ValidTenants <- TwoTenants
  Platforms <- TwoPlatforms
  Rates = {0, 601}
  BodyRefs <- MCBodyRefs
  Provisioned <- SomeSecrets
  WriterWired = TRUE
  InitialConns <- StoredTwin
  InitialLatest <- TwinLatest
INVARIANTS RefsGenuine SecretsAreNotShared
PROPERTY EveryRequestAnswered
CHECK_DEADLOCK FALSE
