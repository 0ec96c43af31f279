CONSTANTS
  ExtTableSize <- MCExtTableSize
  MaxExtensions = 2
  StepSet <- MCStepSet
  MaxSteps = 4
INIT Init
NEXT Next
INVARIANT
  CompactionKeepsLayout
