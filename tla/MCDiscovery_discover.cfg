\* Seven source trees with three thread names, every labelling of what is reported.
SPECIFICATION DiscoverySpec
CONSTANTS
  Null = Null
  HostCpus = 2
  Trees <- MCTrees
  Role <- MCRole
  Cuts = {2, 3, 4, 5}
INVARIANTS SitesFound CleanPassIsExact SafetyFailsBoth
