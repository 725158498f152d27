\* One registration and one token request.
SPECIFICATION Spec
CONSTANTS
  NumViews = 5
  BundleOf <- MCBundleOf
  McpRequests = {m1}
  TokenRequests = {t1}
  MaxRegs = 1
CHECK_DEADLOCK FALSE
INVARIANTS
  ForwardAnswers
