SPECIFICATION Spec
CONSTANTS
  Channels = {ch1, ch2}
  Nicks = {ala, ola, ewa}
  People = {p1, p2, p3}
  Nobody = Nobody
SYMMETRY Addresses
INVARIANTS
  ViewIsTruth
  ListsAgree
  RostersAreRight
