SPECIFICATION Spec
CONSTANTS
  Device = {d1}
  home = home
  office = office
  road = road
  Address = {home, office, road}
  Private = {home}
  Request = {r1, r2}
  None = None
  Window = 0
  NetworkRisks = {0, 30, 70}
  KnownLimit = 2
  MaxTime = 1
SYMMETRY Symmetry
INVARIANTS PlainLoginIsVouched TravelIsChallenged
