SPECIFICATION Spec
CONSTANTS
  TxDescriptors <- AllTx
  RxDescriptors <- MCRx
  TxRingSize = 2
  RxRingSize = 3
  TxCqSize = 1
  RxCqSize = 2
  max_mtu = 8
  kMinMss = 1
  kMaxMss = 3
  kMaxTsoSegments = 3
  VlanBytes = 1
  Faults = TRUE
  enable_tx_interrupts = TRUE
  enable_rx_interrupts = TRUE
  MaxTx = 2
  MaxRx = 3
INVARIANTS TypeOK DescriptorsAccountedFor SegmentsCoverPacket CompletionsAreReported
