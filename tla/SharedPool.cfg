CONSTANTS
  PoolSize = 3560
  Request = {40}
  Thread = {tcpip, app}
  MaxHeld = 2
SPECIFICATION Spec
INVARIANT NoSharedBuffer
