SPECIFICATION FairSpec
CONSTANTS
  LastSector = 1
  Values = {d0, d1}
  MaxCount = 2
  SeqLimit = 3
  SyncMod = 2
  Menu <- MCMenu
  Data <- MCData
  None = None
  d0 = d0
  d1 = d1
INVARIANTS
  BufferLifetime
  MailboxNeverOverwritten
  SuccessIsEarned
PROPERTIES
  OwnedMemoryUntouched
  ImplementsSectorStore
  CallsReturn
