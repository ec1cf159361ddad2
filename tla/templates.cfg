SPECIFICATION MCSpec
CONSTANTS
  a = a
  b = b
  x = x
  y = y
  z = z
  data = data
  g = g
  h = h
  r = r
  s = s
  c = c
  d = d
  region = region
  image = image
  maps = maps
  vm = vm
  disk = disk
  Names = {a, b}
  DataSources = {data}
  Indexes = {0, 1}
  NoIndex = NoIndex
  Attributes = {"id", "ip", "ids", "arn"}
  AttributeTo <- MCAttributeTo
  InstanceSets <- MCInstanceSets
  Bodies <- MCBodies
  OutputSets <- MCOutputSets
  Ids <- MCIds
  Templates <- MCTemplateSet
  CfTemplates <- MCCfTemplates
  AssociationId <- MCAssociationId
  Params = {r}
  RosNames = {g, h}
  Conditions = {c, d}
  RosOutputs = {s}
  KeyNames = {g, r}
  LowerNames = {c}
  DataTypes = {region, image}
  Images = image
  Mappings = maps
  TfTypes = {vm, disk}
  RosTemplates <- MCRosTemplates
  Widths = {1, 3, 7}
  SheetRows <- MCSheetRows
  MaxRows = 4
  Numbers = {"1"}
  Refs = {"!Ref x"}
  BadNames = {"?"}
  NoValue = ""
SYMMETRY Symmetry
INVARIANTS
  EachResourceOnce
  DependenciesFirst
  ReferencesResolve
  EveryInstance
  NothingLostOrInvented
  AttachmentsMerged
  ReferencesDeclared
  EveryResourceConverted
  EveryCellInItsPlace
CHECK_DEADLOCK FALSE
