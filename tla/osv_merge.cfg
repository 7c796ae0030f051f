SPECIFICATION MCSpec
CONSTANTS
  Libraries <- MCLibraries
  Versions <- MCVersions
  Unparsable <- MCUnparsable
  SortKey <- MCSortKey
  CveIds <- MCCveIds
  Worlds <- MCWorlds
  MaxChanges = 0
  MaxFaults = 0
  None = None
  Torn = Torn
CHECK_DEADLOCK FALSE
INVARIANT TableFlagsWhatCsvFlags
