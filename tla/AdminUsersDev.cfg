SPECIFICATION FairSpec
CONSTANTS
  r1 = r1  r2 = r2  r3 = r3
  alice = alice  bob = bob  NoEmail = NoEmail
  Reqs <- Requests2
  Emails <- TwoEmails
  InitialAdmins <- Empty
  DevOwner = alice
  DevEnv = TRUE
  BypassEmail = bob
  VerifierWired = TRUE
  StoreMayFail = TRUE
INVARIANT AuthorityIsGranted
PROPERTY EveryRequestEnds
CHECK_DEADLOCK FALSE
