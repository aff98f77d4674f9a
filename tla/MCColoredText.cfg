CONSTANTS
  TagHex = 1
  MaxLen = 6
SPECIFICATION FairColoredTextSpec
INVARIANTS DrawnRight RowsRight
PROPERTIES Finishes
