CONSTANTS
  Users = {u1, u2}
  Names = {n1, n2}
  GsTokens = {g1}
  MaxCodes = 3
  NoServer = NoServer
SPECIFICATION Spec
SYMMETRY MCSymmetry
INVARIANT ReloginPossible
