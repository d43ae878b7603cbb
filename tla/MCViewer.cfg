SPECIFICATION ViewerSpec
CONSTANTS
  BYTE = 4
  WIDTH = 2
  HEIGHT = 2
  GREEN = 4
  BLUE = 2
  PALETTE <- MCPalette
  MISC_INDEX = 3
  MATCH_THRESHOLD = 1
  CHUNK_PX = 2
  ColAddresses <- MCColAddresses
  RowAddresses <- MCRowAddresses
  Colours = {1, 9}
  MaxWords <- MCMaxWords
INVARIANTS DumpIsShown PicturesAgree
PROPERTY CatchesUp
