SPECIFICATION FairUiSpec
CONSTANTS
  MaxShows = 2
  MaxRows = 2
  MaxLines = 2
INVARIANTS RowExists OneAnswerEach LinesInOrder
PROPERTIES NoModalTrap ImplementsDialogs
