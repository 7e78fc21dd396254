SPECIFICATION Spec
CONSTANTS
  o1 = o1
  o2 = o2
  r1 = r1
  r2 = r2
  None = None
  Operators = {o1, o2}
  Roots = {r1, r2}
  Tables <- MCTables
  Columns <- MCColumns
  Objects <- MCObjects
  Types = {"text", "integer", "bigint", "numeric", "boolean", "date", "timestamptz", "time", "jsonb"}
  Defaults = {"zero"}
  Shapes = {"unique", "index", "foreign-key", "check"}
  SystemColumns = {"name", "owner_id", "ordinal"}
  RowColumns = {"ordinal"}
  Owner = "owner_id"
  Apps = {"core", "shop"}
  Core = "core"
  Denied <- MCDenied
  EntityNames = {"task", "note"}
  FieldNames <- MCFieldNames
  ReservedFields = {"name"}
  ReservedSlugs = {"login"}
  TableOf <- MCTableOf
  ColumnOf <- MCColumnOf
  Within <- MCWithin
  Unset = None
  NameOrder <- MCNameOrder
  ReservedApps = {"core"}
  FirstDelay = 2
  LastDelay = 5
  Versions = {1, 2}
  Patches <- MCPatches
  Sums = {"s1", "s2"}
  Sources = {"v1", "v2", "v3", "v4"}
  Source <- MCSource
  MaxCommands = 3
SYMMETRY MCSymmetry
INVARIANTS TypeOK LedgerTellsEffects MetadataIsLive AsShown SnapshotExplained
CHECK_DEADLOCK FALSE
