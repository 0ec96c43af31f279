CONSTANTS
  ExtTableSize <- MCExtTableSize
  MaxExtensions = 2
  StepSet <- MCWideStepSet
  MaxSteps = 3
INIT Init
NEXT Next
INVARIANT
  CompactionKeepsLayout
