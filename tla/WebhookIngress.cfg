\* Two registrations, two webhook requests and one token request, under fairness.
SPECIFICATION FairSpec
CONSTANTS
  NumViews = 5
  BundleOf <- MCBundleOf
  McpRequests = {m1, m2}
  TokenRequests = {t1}
  MaxRegs = 2
CHECK_DEADLOCK FALSE
INVARIANTS
  TypeOK
  AdvertisedIsBound
PROPERTIES
  ForwardsAsAdmitted
  UnregisterDrains
