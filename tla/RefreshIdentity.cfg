\* A world that keeps to what it was, and one that does not.
SPECIFICATION Spec
CONSTANTS
  Redirects <- MCRedirects
  OriginOf <- MCOriginOf
  Lists <- MCLists
  Long <- MCLong
  UrlClients = {url}
  Sessions = {s1}
  MaxKeys = 2
  Regimes = {"kept", "hostile"}
CHECK_DEADLOCK FALSE
INVARIANTS
  TypeOK
  NeverMisidentified
  ReauthorizeSuffices
  EnvelopesNameTheirGrant
  RevokedIsGone
