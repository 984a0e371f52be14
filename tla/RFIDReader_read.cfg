\* The buffer holds four frames but one byte, as 63 bytes do for frames of 16.
CONSTANTS
  Tags = {t1, t2}
  Zeros = Zeros
  DataSize = 3
  BufferSize = 23
  MaxLate = 2
  MaxFrames = 5
SPECIFICATION FairSpec
INVARIANTS WholeTag
PROPERTIES Heard
