SPECIFICATION Spec
CONSTANTS
  DDR_START = 16
  DDR_END = 127
  FREE_START = 19
  PTRS = 4
  PAGE_SIZE = 4
  UART = 9
  BootRequests <- MCBootRequests
  Requests <- MCRequests
  MaxCalls = 4
  Probes <- MCProbes
INVARIANTS
  PagesAccounted
  RamMapped
  ConsoleMapped
  RegionsMapped
  TlbFresh
PROPERTY ImplementsAddressSpace
