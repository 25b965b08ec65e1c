SPECIFICATION SSESpec
CHECK_DEADLOCK FALSE
CONSTANTS
  Letters = {"f"}
  MaxWire = 6
  MaxSSEBuffer = 4
  MaxSSEFields = 2
INVARIANT SourcesContributed
