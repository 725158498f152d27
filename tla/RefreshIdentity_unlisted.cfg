\* Documents and keys are kept, redirects need not be registered.
SPECIFICATION Spec
CONSTANTS
  Redirects <- MCRedirects
  OriginOf <- MCOriginOf
  Lists <- MCLists
  Long <- MCLong
  UrlClients = {url}
  Sessions = {s1}
  MaxKeys = 2
  Regimes = {"unlisted"}
CHECK_DEADLOCK FALSE
INVARIANTS
  DerivationIsExact
