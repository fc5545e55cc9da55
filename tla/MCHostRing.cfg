SPECIFICATION HostSpec
CONSTANTS
  d1 = d1
  d2 = d2
  RingSize = 3
  Descriptors = {d1, d2}
  HostBacked = TRUE
  Nothing = Nothing
  MaxQuiet = 1
  MemorySize = 6
  AddressModulus = 16
  Translator <- MCTranslator
  base_address = 8
  Transfers <- MCTransfers
  Payloads <- MCPayloads
  FaultPoints = {0, 9}
INVARIANTS DoorbellCurrent SlotsAreMemory GatherReturnsScattered
PROPERTY ImplementsFifo
