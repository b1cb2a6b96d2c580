SPECIFICATION AlgorithmsSpec
CONSTANTS
  Switch = {"--name"}
  kSearchName = "--name"
  Word = {"w"}
  MaxArgs = 1
  MaxLength = 4
  SortLength = 3
  NameLength = 3
  TableLength = 2
  StringLength = 1
  CodeLength = 4
INVARIANT
  OtherCharactersFail
CHECK_DEADLOCK FALSE
