SPECIFICATION ResourcesSpec
CONSTANTS
  max_pds = 2
  max_mrs = 2
  max_cqs = 2
  max_qps = 1
  CqDepths = {1}
  Regions <- MCRegions
  AddressModulus = 6
  MaxNumber = 2
  MaxKey = 259
INVARIANTS ReferencesIntact NumbersFresh RemoteAccessIffGranted
