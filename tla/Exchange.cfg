\* Two connections, every kind of request, three fetches in all.
CONSTANTS
  Clients = {1, 2}
  Stored = {"short", "long"}
  Missing = {"missing"}
  Malformed = {"malformed"}
  Size <- MCSize
  MaxFetches <- MCMaxFetches
SPECIFICATION Spec
INVARIANTS
  TypeOK
  ResponseMatches
  InStep
  StatsSettle
PROPERTIES
  ImplementsCalls
  FetchEnds
