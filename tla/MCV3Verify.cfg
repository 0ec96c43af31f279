CONSTANTS
  V3Record = 11
  MaxExtensions = 4
  Headers <- MCHeaders
  Words <- MCWords
  MaxWords = 5
SPECIFICATION Spec
INVARIANT VerifiesAsSpec
