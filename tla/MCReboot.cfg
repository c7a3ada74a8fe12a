\* Short timeouts against a soft limit that may cut in anywhere.
CONSTANTS
  Methods <- MixedMethods
  Configs <- MixedConfigs
  Host = Host
  IloHost = IloHost
  DownTimeout = 2
  UpTimeout = 3
  DownInterval = 1
  UpInterval = 2
  SoftLimit = 10
  HardLimit = 30
  CallTimes = {0, 4}
  MaxCall = 4
  DownProbeTimes = {0, 1}
  MaxDownProbe = 1
  UpProbeTimes = {0, 2}
  MaxUpProbe = 2
  LossyPing = FALSE
SPECIFICATION Spec
INVARIANTS TypeOK RecordIsHistory QuietAfterSoftLimit NoMethodOverruns
PROPERTIES RebootIsReal NoIdleStep ImplementsEscalation JobEnds
