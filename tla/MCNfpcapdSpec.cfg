CONSTANTS
  k1 = k1
  k2 = k2
  Keys = {k1, k2}
  MaxPackets = 3
  ExternalSignals = {"INT", "HUP", "USR2"}
  MaxSignals = 2
  Argvs <- MCArgvsAsSpec
  Atoi <- MCAtoi
SPECIFICATION Spec
PROPERTY NfpcapdAsSpec
