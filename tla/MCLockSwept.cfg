SPECIFICATION Spec
CONSTANTS
  c1 = c1
  c2 = c2
  c3 = c3
  q1 = q1
  q2 = q2
  q3 = q3
  Nobody = Nobody
  Clients = {c1, c2, c3}
  Processes = {q1, q2}
  ProcessOf <- Shared
  Mortal = {q1, q2}
  Swept = TRUE
  Failing = {c1}
INVARIANTS
  NoForgottenLease
PROPERTIES
  LiveLeasesUndisturbed
CHECK_DEADLOCK FALSE
