\* A soft limit that leaves room for every method; pings may get lost.
CONSTANTS
  Methods <- FittingMethods
  Configs <- FittingConfigs
  Host = Host
  IloHost = IloHost
  DownTimeout = 2
  UpTimeout = 2
  DownInterval = 1
  UpInterval = 1
  SoftLimit = 37
  HardLimit = 50
  CallTimes = {0, 1}
  MaxCall = 1
  DownProbeTimes = {0, 1}
  MaxDownProbe = 1
  UpProbeTimes = {0, 1}
  MaxUpProbe = 1
  LossyPing = TRUE
SPECIFICATION Spec
INVARIANTS NoLimitMet GiveUpFilesBug
