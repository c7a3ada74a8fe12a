\* The check after ilo_reboot.
CONSTANTS
  Methods <- IloMethods
  Configs <- IloConfigs
  Host = Host
  IloHost = IloHost
  DownTimeout = 2
  UpTimeout = 3
  DownInterval = 1
  UpInterval = 2
  SoftLimit = 20
  HardLimit = 30
  CallTimes = {0, 2}
  MaxCall = 2
  DownProbeTimes = {0, 1}
  MaxDownProbe = 1
  UpProbeTimes = {0, 2}
  MaxUpProbe = 2
  LossyPing = FALSE
SPECIFICATION Spec
INVARIANT ChecksTheMachine
