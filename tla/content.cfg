SPECIFICATION Spec
CONSTANTS
  NONE = NONE
  REFUSED = REFUSED
  CategoryIds <- MCCategoryIds
  GroupIds <- MCGroupIds
  ChannelIds <- MCChannelIds
  CategoryNames <- MCCategoryNames
  GroupNames <- MCGroupNames
  ChannelNames <- MCChannelNames
  Agents <- MCAgents
  Creations <- MCCreations
  Patches <- MCPatches
  Tables <- MCTables
  MaxPatches = 2
  MaxIntrusions = 1
CHECK_DEADLOCK FALSE
INVARIANTS
  ExportFaithful
  BackendsAgree
