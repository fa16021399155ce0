SPECIFICATION Spec
CONSTANTS
  Letters = {"i", "f"}
  Words = {"e", "q", "w", "n"}
  Keys <- MCKeys
  Files <- MCFiles
  Height = 1
  NLines = 4
  NCells = 4
  MaxX = 1
  MaxCommand = 1
INVARIANTS TypeOK ListsSound OneCursor SaveKeepsText ColouredIsWord
PROPERTIES NoWildPointer TextEdited
CHECK_DEADLOCK FALSE
