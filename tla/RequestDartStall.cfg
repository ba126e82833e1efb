CONSTANTS
  Sdks = {"dart"}
  Timeout = 3
  ConnectTimeout = 2
  RequestChunks = 2
  ResponseChunks = 2
  MaxTime = 8
SPECIFICATION Spec
PROPERTY CallSettles
\* A call that has ended, with the server done with it, really stops.
CHECK_DEADLOCK FALSE
