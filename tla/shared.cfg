CONSTANTS
  Null = Null
  Nodes <- SomeNodes
  Processes = {1, 2}
  Keys = {0, 1}
  Payloads = {1, 2}
  Columns <- TwoColumns
  Indexed <- OneIndex
  NotNull <- OneIndex
  Width <- Widths
  Room = 7
  SlotSize = 1
  Inserts <- ShortRows
  Deletes <- SomeDeletes
  Updates <- FewUpdates
  Stops <- NoStops
  MaxPages = 4
  Accepted <- NoEvents
VIEW file
SPECIFICATION Spec
PROPERTIES KnownPagesKeepRows ImplementsRows
