SPECIFICATION DeviceSpec
CONSTANTS
  N = 3
  Weight <- MCWeight
  MaxBacklog = 2
  Fallible = {1}
  kConfigSpaceSize = 16
  ConfigOffsets = {3, 7, 13}
  Registers = {"CTRL", "STATUS", "ICR", "IMS"}
  Bits = {1}
INVARIANTS WeightedShare RegistersReadBack ReadOnlyBySpill
PROPERTY NoStarvation
