CONSTANTS
  k1 = k1
  k2 = k2
  Keys = {k1, k2}
  MaxPackets = 3
  ExternalSignals = {"INT", "HUP", "USR2"}
  MaxSignals = 2
  Argvs <- MCArgvs
  Atoi <- MCAtoi
SPECIFICATION Spec
INVARIANTS
  TypeOK
  CommandLineRespected
PROPERTIES
  CaptureRefined
  ShutdownCompletes
