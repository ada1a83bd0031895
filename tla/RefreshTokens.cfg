SPECIFICATION Spec
CONSTANTS
  Handler = {h1, h2, h3}
  MaxToken = 3
  Lifetime = 2
SYMMETRY MCSymmetry
INVARIANTS OneHeirPerLogin IndexCoversLive LogoutRevokesUnraced
CHECK_DEADLOCK FALSE
