\* One post on a fresh handle: connect, request with a body, response with
\* a body in pieces, retry on failure, close or keep-alive.
CONSTANTS
  MaxPosts = 1
  MaxConns <- MCMaxConns
  BodySizes = {0, 2}
  RespLengths = {0, 2}
  CloseChoices = {FALSE, TRUE}
  MTU = 1
  SizeBits = 3
  MaxSpurious = 1
  BodyCallbacks = {FALSE, TRUE}
  NoCtx = NoCtx
SPECIFICATION Spec
INVARIANTS
  TypeOK
  PromiseFulfilledOnce
  AtMostOneRetry
  RetriedBeforeFailure
PROPERTIES
  SucceededOnAnswerToThisPost
