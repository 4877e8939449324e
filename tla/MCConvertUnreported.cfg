SPECIFICATION Spec
CONSTANTS
  Authored <- MCAuthored
  Resource <- MCResource
  Rules <- MCRules
  Links <- MCLinks
  Neutral = {"n"}
  Root = Root
  AnyParent = AnyParent
  Unset = Unset
  Cidr = "cidr"
  Addresses <- MCAddresses
  sanitize <- MCsanitize
  nameOf <- MCnameOf
  Counterparts <- MCCounterparts
  RootChain <- MCRootChain
  short <- MCshort
  chainId <- MCchainId
  Documents <- MCDocuments
  IdOrder <- MCIdOrder
  NewNodes <- MCNewNodes
  NewEdges <- MCNewEdges
  Names <- MCNames
  Values <- MCValues
  Target = "q"
  MaxEdits = 1
  States <- MCStates
  Configurations <- MCConfigurations
  AttrOrder <- MCAttrOrder
  Elements <- MCElements
  Imports <- MCImports
  Binds <- MCBinds
  ParentOrder <- MCParentOrder
  nodeId <- MCnodeId
  edgeId <- MCedgeId
  zoneId <- MCzoneId
PROPERTY MissingIsReported
CHECK_DEADLOCK FALSE
