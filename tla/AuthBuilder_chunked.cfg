CONSTANTS
  BLOCK_SIZE = 4
  MaxLen = 40
  MaxChunk = 9
  RawKeys <- MCRawKeys
SPECIFICATION Spec
INVARIANT IncrementalMatchesOneShot
