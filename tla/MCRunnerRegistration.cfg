SPECIFICATION RegistrationSpec
CONSTANTS
  Host = {h1, h2}
  Process = {p1, p2}
  Call = {r1, r2}
  MaxClerks = 2
  MaxVersion = 3
SYMMETRY Symmetry
INVARIANTS
  TokensOfTheRunner
