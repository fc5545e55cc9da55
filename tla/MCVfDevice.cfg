SPECIFICATION DevSpec
CONSTANTS
  VfIds = {v1, v2, v3}
  Kinds <- MCKinds
  Total <- MCTotal
  Reserved <- MCReserved
  Requests <- MCRequests
  max_vfs = 2
  num_queue_pairs = 2
  queue_depth = 1
  Queue = "queue"
INVARIANTS ResourcesPartitioned DevicesIsolated
PROPERTY ResourcesKept
SYMMETRY MCSymmetry
