CONSTANTS
  Total = 22
  PageSize = 6
  Header = 1
  HeapPages = 1
  HEAP_MAX = 4
  Virt <- MCVirt
  Pde <- MCPde
  Stack <- MCStack
  Programs <- MCPrograms
  Shell <- MCShell
  Procs = {1, 2, 3}
  FatSizes = {2, 7, 20}
  Lens = {3}
  Stores <- MCStores
  MaxCalls = 3
SPECIFICATION Spec
INVARIANTS OneOwner OwnMemory HeapSound LeaksKnown
CHECK_DEADLOCK FALSE
