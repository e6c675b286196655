SPECIFICATION Spec
CONSTANTS
  Users = {u1, u2}
  Unresolved = {d1, d2}
  Reviewers = {p, q}
  None = None
  MaxNumber = 9
  MaxId = 3
  OneAtATime = TRUE
  Removal = "any"
INVARIANT IdsNeverReused
