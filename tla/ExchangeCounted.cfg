\* The last response can arrive before its handler has counted it.
CONSTANTS
  Clients = {1, 2}
  Stored = {"short", "long"}
  Missing = {"missing"}
  Malformed = {"malformed"}
  Size <- MCSize
  MaxFetches <- MCMaxFetches
SPECIFICATION Spec
INVARIANT
  AllCounted
