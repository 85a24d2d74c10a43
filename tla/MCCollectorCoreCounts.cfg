CONSTANTS
  resources = resources
  properties = properties
  dotted = dotted
  certificates = certificates
  apps = apps
  cores = cores
  b1 = b1
  b2 = b2
  Names <- MCNames
  RefusedNames = {dotted}
  Bodies <- MCBodies
  Foundations = {director, nodirector}
  CollectionIds = {id1, id2}
  OpsManagerLists <- MCOpsManagerLists
  CredhubLists <- MCCredhubLists
  UsageLists <- MCUsageLists
  CoreLists <- MCCoreLists
  Metadata = Metadata
  Truncated = Truncated
  None = None
SPECIFICATION Spec
INVARIANT
  CoreCountsNeverEndRun
CHECK_DEADLOCK FALSE
