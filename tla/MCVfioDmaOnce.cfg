CONSTANTS
  Devices = {"d1", "d2", "d3"}
  Groups = {"g1", "g2"}
  GroupOf <- MCGroupOf
  IrqKinds <- MCIrqKinds
  OpenFaults = {"dma_init"}
  CloseFaults = {}
  IrqFaults = {}
  Sparse = {}
  MapFaults = {}
  MaxIrqs = 0

SPECIFICATION Spec

INVARIANT OpenDeviceUsable
