CONSTANTS
  Devices = {"d1", "d2", "d3"}
  Groups = {"g1", "g2"}
  GroupOf <- MCGroupOf
  IrqKinds <- MCIrqKinds
  OpenFaults <- MCOpenFaultsHandled
  CloseFaults = {"unmap_dma", "munmap", "unbind", "remove_id"}
  Sparse = {"d2"}
  MapFaults = {"mmap_anon", "mmap_area", "mmap"}
  IrqFaults = {"eventfd", "set_irqs", "read"}
  MaxIrqs = 2

SPECIFICATION Spec

INVARIANT TypeOK
INVARIANT OpenDeviceUsable
PROPERTY CloseReleasesAll
PROPERTY IntxRearmed
