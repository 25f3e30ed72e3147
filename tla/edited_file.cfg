\* A file is edited, saved, overwritten and read again while it is debugged.
SPECIFICATION Spec
CONSTANTS
  A = A
  B = B
  Cut = Cut
  Blank = Blank
  Empty = Blank
  Cleaned <- MCCleaned
  Contents <- MCContents
  FirstText <- MCFirstText
  Pastes <- MCPastes
  Typed <- MCTyped
  OtherTexts <- MCOtherTexts
  MaxLines = 4
  MaxEdits = 2
  MaxToggles = 2
  MaxSessions = 2
  NoSource = NoSource
INVARIANTS MappingIsCurrent MappingIsLongest MarkersMatchBreakpoints BackendHasListedLines
PROPERTY BreakpointsFollowTheirLines
CHECK_DEADLOCK FALSE
