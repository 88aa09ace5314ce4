SPECIFICATION SplitSpec
CONSTANTS
  MaxU = 15
  MaxChunks = 5
  Hashes <- SomeHashes
INVARIANTS ExactCover FewChunks AnswerIsBest
CHECK_DEADLOCK FALSE
