SPECIFICATION Spec
CONSTANTS
  PT_ENTRY_COUNT = 3
  PGSIZE = 2
  Heap = {20, 21, 22, 23, 24, 25, 26, 27, 28}
  StaticRoot = 29
  Procs = {p1, p2}
  Requests <- MCRequests
  MaxEvents = 4
  UART = 4
  VIRTIO0 = 6
  PLIC_BASE = 0
  PLIC_SIZE = 4
  KERNEL_START_ADDR = 18
  KERNEL_SIZE = 4
INVARIANTS
  TypeOK
  EachTableOnce
PROPERTIES
  RangeServed
  ImplementsAddressMap
CHECK_DEADLOCK FALSE
