SPECIFICATION Spec
CONSTANTS
  r1 = r1  r2 = r2  r3 = r3
  alice = alice  bob = bob  NoEmail = NoEmail
  Reqs <- Requests3
  Emails <- TwoEmails
  InitialAdmins <- OwnerAndViewer
  DevOwner = alice
  DevEnv = FALSE
  BypassEmail = NoEmail
  VerifierWired = TRUE
  StoreMayFail = FALSE
SYMMETRY Symmetry
INVARIANTS TypeOK AuthorityIsGranted RevocationBinds ChangesAudited
PROPERTY LockoutIsPermanent
CHECK_DEADLOCK FALSE
