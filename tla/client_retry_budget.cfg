\* Two posts on one handle, no bodies, keep-alive answers; any exchange
\* may fail. Asks whether every post gets its automatic retry.
CONSTANTS
  MaxPosts = 2
  MaxConns <- MCMaxConns
  BodySizes = {0}
  RespLengths = {0}
  CloseChoices = {FALSE}
  MTU = 1
  SizeBits = 3
  MaxSpurious = 0
  BodyCallbacks = {FALSE}
  NoCtx = NoCtx
SPECIFICATION Spec
INVARIANTS
  RetriedBeforeFailure
