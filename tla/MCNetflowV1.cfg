CONSTANTS
  s4 = s4
  s6 = s6
  Sources <- MCSources
  Family <- MCFamily
  RecordHeaderSize = 12
  EXgenericFlowSize = 60
  EXipv4FlowSize = 12
  EXflowMiscSize = 20
  EXipNextHopV4Size = 8
  EXipReceivedV4Size = 8
  EXipReceivedV6Size = 20
  BlockCap = 300
  UptimeWrap = 4
  InSizes = {8, 64, 112, 160}
  Counts = {0, 1, 2, 25}
  Uptimes = {1, 4, 6}
  Boots = {0, 997}
CONSTRAINT DatagramBound
INIT Init
NEXT Next
INVARIANTS  BlockWithinCapacity NoRecordSizeExit FlowTimesExact FlowsAccounted
PROPERTY DecodeProgresses
