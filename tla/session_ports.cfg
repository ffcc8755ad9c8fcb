CONSTANTS
  Conn = {n1, n2}
  Port = {p1, p2}
  Call = {k1, k2}
  NoConn = NoConn
  NoPort = NoPort
  NoEngine = NoEngine
SPECIFICATION MCSpec
INVARIANT NotConnectedRefused
