\* Three threads share four blocks of two records; the file has two chunks.
SPECIFICATION Spec
CONSTANTS
  Keys <- MCKeys
  Files <- MCFiles
  ThreadNum = 3
  BlockNum = 4
  BlockLen = 2
  ChunkNum = 2
INVARIANTS TypeOK NoSharedRecords HalvesSorted SortedAtEnd
PROPERTIES RecordsKept Terminates
