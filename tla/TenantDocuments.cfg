SPECIFICATION Spec
CONSTANTS
  r1 = r1  r2 = r2  r3 = r3
  owner = owner  viewer = viewer  NoEmail = NoEmail
  Reqs <- Requests3
  Emails <- MCEmails
  InitialAdmins <- MCAdmins
  DevEnv = FALSE
  BypassEmail = NoEmail
  VerifierWired = TRUE
  StoreMayFail = FALSE
  Names = {"acme", "train"}
  ValidNames = {"acme", "train"}
  Keys <- TenantAndSwarm
  Texts = {"a", "b"}
  ValidTexts = {"a", "b"}
  Lists = {"crew"}
  ValidRosters = {"crew"}
  Nums = {0}
  InitialDocs <- SomeDocs
SYMMETRY Symmetry
INVARIANTS TypeOK AuditExplainsDocuments IsolatedWritesStick IsolatedDeletionSticks
PROPERTY SoloPatchesAreExact
CHECK_DEADLOCK FALSE
