\* Buffered and unbuffered reads and writes over short counts, signals,
\* errors and the end of the stream.
CONSTANTS
  NL = NL
  Byte = {NL, x}
  BufSize = 2
  Lens <- MCLens
  Streams <- MCStreams
SPECIFICATION FairSpec
 
PROPERTY StreamKept
PROPERTY CallsReturn
CHECK_DEADLOCK FALSE
