SPECIFICATION AlgorithmsSpec
CONSTANTS
  Switch = {"--name"}
  kSearchName = "--name"
  Word = {"w"}
  MaxArgs = 2
  MaxLength = 4
  SortLength = 7
  NameLength = 3
  TableLength = 4
  StringLength = 3
  CodeLength = 4
INVARIANTS
  WordsArrive
  TableInv
  ListIsSet
  BufferInv
  ResultsRight
  EncodingIsBijective
PROPERTIES
  SettledStays
CHECK_DEADLOCK FALSE
