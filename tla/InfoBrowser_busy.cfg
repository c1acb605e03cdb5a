CONSTANTS
  maxmess = 2
  MaxClicks = 4
  MaxNested = 4
  MaxBrowse = 1
  MaxBreaks = 1
  MaxDepth = 3
SPECIFICATION BrowseSpec
INVARIANT OneEditor
CHECK_DEADLOCK FALSE
