SPECIFICATION Spec
CONSTANTS
  BYTE = 4
  WIDTH = 4
  HEIGHT = 2
  TEMPLATES <- MCTemplates
  ROWS <- MCRows
  MAX_DIGITS_PER_ROW = 2
  Blank = "blank"
  ColParams <- MCColParams
  RowParams <- MCRowParams
  Inks <- MCInks
INVARIANTS TypeOK HashedIsShown SlotsAreVisible
PROPERTY ChangeIsDirty
