SPECIFICATION FairSpec
CONSTANTS
  r1 = r1  r2 = r2  r3 = r3
  owner = owner  viewer = viewer  NoEmail = NoEmail
  Reqs <- Requests2
  Emails <- MCEmails
  InitialAdmins <- MCAdmins
  DevEnv = FALSE
  BypassEmail = NoEmail
  VerifierWired = TRUE
  StoreMayFail = TRUE
  Names = {"acme", "-"}
  ValidNames = {"acme"}
  Keys <- EveryKind
  Texts = {"a", " "}
  ValidTexts = {"a"}
  Lists = {"crew", "pilot"}
  ValidRosters = {"crew"}
  Nums <- SmallNums
  InitialDocs <- SomeDocs
INVARIANT TypeOK
PROPERTY EveryDocumentRequestAnswered
CHECK_DEADLOCK FALSE
