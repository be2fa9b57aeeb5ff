------------------------------- MODULE MCVfio -------------------------------
(***************************************************************************)
(* Three devices: two share iommu group g1, one is alone in g2.  d1 has    *)
(* only INTx, d2 INTx and MSI, d3 only MSI, so InterruptEnable takes each  *)
(* branch of its irq choice.  d2's BAR 0 has sparse mmap areas, so       *)
(* MapResource takes both of its branches.                                *)
(***************************************************************************)
EXTENDS Vfio

MCGroupOf  == [d \in Devices |-> IF d = "d3" THEN "g2" ELSE "g1"]
MCIrqKinds == [d \in Devices |-> CASE d = "d1" -> {"intx"}
                                   [] d = "d2" -> {"intx", "msi"}
                                   [] OTHER    -> {"msi"}]
\* Every call of Open that may fail, except dma_init.
MCOpenFaultsHandled == OpenCalls \ {"dma_init"}
=============================================================================
