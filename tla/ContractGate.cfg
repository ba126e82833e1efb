CONSTANTS
  Rows <- MCRows
  RuntimeOf <- MCRuntimeOf
  NoRuntime = "none"
  Dirs <- MCDirs
  Under <- MCUnder
  Clients <- MCClients
  Children <- MCChildren
  Shared <- MCShared
  Kebab <- MCKebab
  Places <- MCPlaces
  Names <- MCNames
  Published = {"c", "nodejs"}
  Aliases = {"typescript"}
  MatureAt = 3
  NoDir = "none"
  Outside = "../sdk"
  Root = "."
  Starts <- MCStarts
  MaxEdits = 3
SPECIFICATION Spec
INVARIANTS
  TypeOK RunLeavesNoErrors GateFollowsRun GateIsStricter
