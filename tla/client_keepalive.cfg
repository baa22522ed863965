\* Two posts on one handle over keep-alive connections: the second post
\* reuses the context through onConnected; the server may stay silent,
\* close at any time or answer in pieces.
CONSTANTS
  MaxPosts = 2
  MaxConns <- MCMaxConns
  BodySizes = {0}
  RespLengths = {0, 1}
  CloseChoices = {FALSE}
  MTU = 1
  SizeBits = 3
  MaxSpurious = 1
  BodyCallbacks = {FALSE}
  NoCtx = NoCtx
SPECIFICATION Spec
INVARIANTS
  PromiseFulfilledOnce
  AtMostOneRetry
PROPERTIES
  ImplementsClientContract
