\* Two requests on one connection, file (2 or 3 bytes) or servlet, with
\* or without a Range header, keep-alive or not; the client may close at
\* any time.
CONSTANTS
  MaxRequests = 2
  FileSizes = {2, 3}
  BodySizes = {0, 1}
  RangeHeaders <- MCRangeHeaders
  MTU = 2
  PartHead = 1
  PartTail = 1
  NoRange = NoRange
  NoRequest = NoRequest
SPECIFICATION Spec
INVARIANTS
  TypeOK
PROPERTIES
  ImplementsContract
