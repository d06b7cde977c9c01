SPECIFICATION TextSpec
CONSTANTS
  kReadChunkSize = 4
  kMaxRequestLineLength = 2
  kMaxHeaderSectionLength = 8
  kMaxBodyLength = 2
  MaxStream = 10
  SomeBytes <- MCBytes
  MaxLength = 4
INVARIANTS
  ChunksDoNotMatter
  BufferIsBounded
  EscapedTextIsFaithful
CHECK_DEADLOCK FALSE
