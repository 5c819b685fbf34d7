SPECIFICATION Spec
CONSTANTS
  Keys = {"esc", "nl", "x", ".", "^Z", "&", "?", "#"}
  MaxTyped = 4
  MaxChunk = 3
 
PROPERTY KeyByKey
CHECK_DEADLOCK FALSE
