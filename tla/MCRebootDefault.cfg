\* The default settings, in seconds.
CONSTANTS
  Methods <- DefaultMethods
  Configs <- DefaultConfigs
  Host = Host
  IloHost = IloHost
  DownTimeout = 60
  UpTimeout = 300
  DownInterval = 1
  UpInterval = 5
  SoftLimit = 600
  HardLimit = 1200
  CallTimes = {5}
  MaxCall = 5
  DownProbeTimes = {4}
  MaxDownProbe = 4
  UpProbeTimes = {60}
  MaxUpProbe = 60
  LossyPing = FALSE
SPECIFICATION Spec
INVARIANT GiveUpFilesBug
