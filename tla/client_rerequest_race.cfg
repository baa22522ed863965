\* Two posts on one handle; the server answers "Connection: close". The
\* caller re-posts as soon as its future is ready, while the event thread
\* is still finishing onReadCompleted and the deleter of the old context.
CONSTANTS
  MaxPosts = 2
  MaxConns <- MCMaxConns
  BodySizes = {0}
  RespLengths = {0}
  CloseChoices = {TRUE}
  MTU = 1
  SizeBits = 3
  MaxSpurious = 0
  BodyCallbacks = {FALSE}
  NoCtx = NoCtx
SPECIFICATION Spec
INVARIANTS
  PromiseFulfilledOnce
