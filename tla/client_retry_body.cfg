\* One post with a one-byte body; the exchange may fail after the body was
\* sent, so deleter retries with the handle's counters as they are.
CONSTANTS
  MaxPosts = 1
  MaxConns <- MCMaxConns
  BodySizes = {1}
  RespLengths = {0}
  CloseChoices = {FALSE}
  MTU = 1
  SizeBits = 3
  MaxSpurious = 0
  BodyCallbacks = {FALSE}
  NoCtx = NoCtx
SPECIFICATION Spec
INVARIANTS
  RequestDeliveredIntact
