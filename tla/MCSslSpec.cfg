CONSTANTS
  Hellos <- MCHellosGreaseCurve
  ProbeBytes <- MCProbeBytes
SPECIFICATION Spec
\* a parse of one record ends, accepted or rejected
CHECK_DEADLOCK FALSE
INVARIANT SslProcessAsSpec
