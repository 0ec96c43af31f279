CONSTANTS
  ExtTableSize <- MCExtTableSize
  MaxExtensions = 4
  Templates <- MCTemplates
  NextSibling <- MCNextSibling
  TopIDs = {256, 257, 258, 260}
  InSizes = {0, 1, 2, 4, 10, 12}
  OutSize = 28
  ByteVals = {0, 1, 4, 9, 255}
  NestLimit = 2
CONSTRAINT OutLengthBound
SPECIFICATION Spec
PROPERTY
  SequencerAsSpec
