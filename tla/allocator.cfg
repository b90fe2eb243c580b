SPECIFICATION Spec
CONSTANTS
  Size = 10
  HeaderSize = 2
  Sizes = {0, 1, 3, 20}
  MaxBlocks = 4
INVARIANTS
  LinksAgree
  ContentsKept
  Compact
  InfoIsTrue
PROPERTIES
  RefinesStore
  FreeReturns
