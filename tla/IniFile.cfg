SPECIFICATION IniSpec
CONSTANTS
  Name <- MCName
  Default = "default"
  Key <- MCKey
  Value <- MCValue
  Text <- MCText
  Bare = "text"
  NoSection = "no section"
  NoIniFile = NoIniFile
  MaxLines = 3
  MaxOps = 2
CHECK_DEADLOCK FALSE
INVARIANTS
  WhatIsSavedIsRead
PROPERTIES
  LoadedIsSaved
