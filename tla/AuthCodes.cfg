\* Two registrations, a cap of one code and two codes to draw, two redirects, two
\* verifiers and two token requests, under fairness of the clock.
SPECIFICATION FairSpec
CONSTANTS
  Codes = {c1, c2}
  Redirects = {r1, r2}
  Verifiers = {v1, v2}
  Requests = {q1, q2}
  MaxProviders = 2
  Cap = 1
  TTL = 2
CHECK_DEADLOCK FALSE
INVARIANTS
  TypeOK
PROPERTIES
  RedeemedUnderIssuer
  ImplementsOneShot
  StoreHeals
