SPECIFICATION Spec
CONSTANTS
  r1 = r1  r2 = r2  r3 = r3
  owner = owner  NoEmail = NoEmail
  Reqs = {r1, r2, r3}
  Emails = {owner}
  InitialAdmins <- MCAdmins
  DevEnv = FALSE
  BypassEmail = NoEmail
  VerifierWired = TRUE
  StoreMayFail = TRUE
  Writes = {"tenant", "agent"}
  Pages = {"overview"}
  Queries <- MCQueries
  DefaultLimit = 1
  MaxTime = 1
SYMMETRY Symmetry
INVARIANTS TypeOK ListingComplete ListingInOrder PagesAreCausal
CHECK_DEADLOCK FALSE
