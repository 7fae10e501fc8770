CONSTANTS
  Null = Null
  Nodes <- SomeNodes
  Processes = {1}
  Keys = {0, 1}
  Payloads = {1, 2}
  Columns <- TwoColumns
  Indexed <- OneIndex
  NotNull <- OneIndex
  Width <- Widths
  Room = 7
  SlotSize = 1
  Inserts <- ShortRows
  Deletes <- SomeDeletes
  Updates <- SomeUpdates
  Stops <- SomeStops
  MaxPages = 3
  Accepted <- CutDeletes
VIEW file
SPECIFICATION Spec
INVARIANTS SpaceAccounted IndexesAgree EntriesLead SelectAgrees
PROPERTY ImplementsRows
