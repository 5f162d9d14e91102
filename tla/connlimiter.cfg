SPECIFICATION Spec
CONSTANTS
  Users <- TwoUsers
  Conns = {c1, c2, c3, c4}
  Limits <- Reloads
SYMMETRY ConnsAreAlike
INVARIANTS TypeOK CountsCovered
PROPERTIES CapForLimited
