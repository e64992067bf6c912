SPECIFICATION FairSpec
CONSTANTS
  Threads = {t1, t2}
  BlockNos = {n1, n2}
  BlocksOf <- MCBlocksOf
  Block0 = n1
  Values = {v0, v1}
  Zeros = v0
  NoThread = NoThread
  NUM = 3
  IdxMod = 3
INVARIANTS
  TypeOK
  DescriptorsAccounted
  DeviceOwnsBuffer
  OneCompletionPerInterrupt
PROPERTIES
  ImplementsBlockDevice
  HolderFinishes
