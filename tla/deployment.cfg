SPECIFICATION Spec
CONSTANTS
  Servers = {p1}
  Seeds = {s1, s2}
  p1 = p1  s1 = s1  s2 = s2
  Legacies = {{}}
  StartFaults = {"crash", "postgres"}
  Script <- ShortScript
  ByHand = {"admin", "gift"}
SYMMETRY Symmetry
INVARIANTS DeploymentTypeOK VersionIsTrue SeedIsWhole AccountKeepsApart NoStandstill
