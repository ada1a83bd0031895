SPECIFICATION Spec
CONSTANTS
  Handler = {h1, h2}
  MaxToken = 2
  Lifetime = 2
INVARIANTS LogoutRevokesAll
CHECK_DEADLOCK FALSE
