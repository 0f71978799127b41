CONSTANTS
  c1 = c1
  c2 = c2
  m1 = m1
  a1 = a1
  s1 = s1
  Clients = {c1, c2}
  Models = {m1}
  ModelDefs <- Definitions
  Agents = {a1}
  Configs <- Needs
  Servers = {s1}
  Fleets <- OneFleet
  Engines = {"ollama", "openrouter"}
  MaxCommands = 3
  MaxFaults = 1
SPECIFICATION Spec
INVARIANTS TypeOK RegistryTrue 
CHECK_DEADLOCK FALSE
SYMMETRY Symmetry
