CONSTANTS
  echo = echo
  image = image
  function = function
  Agents = {echo}
  Configs = {image, function}
  LambdaConfigs = {function}
  MountsOf <- Mounts
  NoConfig = NoConfig
  MaxCommands = 3
  MaxFaults = 1
SPECIFICATION FairSpec
INVARIANTS TypeOK StatusIsTrue
PROPERTIES DeployingEnds
CHECK_DEADLOCK FALSE
