SPECIFICATION Spec
CONSTANTS
  Default = "default"
  Legacy = "global"
  Others = {"work"}
  Types = {"topic", "project"}
  Names = {"n"}
  Old <- MCOld
  NoType = "none"
  Any = ""
  MaxFailures = 1
  MaxStarts = 1
INVARIANTS MadeIsFound 
CHECK_DEADLOCK FALSE
