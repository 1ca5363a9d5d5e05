SPECIFICATION Spec
CONSTANTS
  None = None  Valueless = Valueless
  w1 = w1  w2 = w2  w3 = w3
  k1 = k1  k2 = k2
  Writers = {w1, w2, w3}
  Agents = {a1, a2}
  Home = a1
  Providers = {aws, other}
  Provider = aws
  Keys = {k1, k2}
  Default = Default
  Key <- MCKey
  Verify = {w1}
  ByARN = {w3}
  MaxSaves = 2
  MaxChanges = 1
INVARIANTS Reopenable VerdictsAreHonest LoadIsAuthentic SavedUnderKey
