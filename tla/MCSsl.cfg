\* sslProcess and ja3Process on every hello of MCHellos
CONSTANTS
  Hellos <- MCHellos
  ProbeBytes <- MCProbeBytes
SPECIFICATION Spec
\* a parse of one record ends, accepted or rejected
CHECK_DEADLOCK FALSE
INVARIANTS
  TypeOK
  GreaseFilterExact
  HelloParsedAsSpec
  Ja3MatchesSpec
