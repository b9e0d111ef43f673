\* Three files of up to some forty cells; limits of three files.
SPECIFICATION FairSpec
CONSTANTS
  MaxExpandDepth = 4
  MaxIncludeDepth = 2
  MaxIfdefDepth = 2
  Main = "main"
  Tricky = "none"
  Disks <- MCDisks
  Components <- MCComponents
INVARIANTS TypeOK RoutesAgree ActiveText PositionsTrue
PROPERTIES RoutesEnd
CHECK_DEADLOCK FALSE
