\* serve_forever twice, another thread that calls stop, two connections, one
\* segment whose file comes and goes.  The first accept loop may outlive the join
\* of its stop and go on when the server is started again.
CONSTANTS
  Main = "main"
  Stoppers = {"stopper"}
  Segments = {"s1"}
  MaxContents = 1
  MaxStarts = 2
  MaxConnections = 2
  Laggards = {1}
SPECIFICATION Spec
INVARIANTS
  TypeOK
  UpOrDown
  SettledBytes
PROPERTIES
  AcceptorsEnd
  ConnectionsAnswered
