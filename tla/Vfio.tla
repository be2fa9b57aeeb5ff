-------------------------------- MODULE Vfio --------------------------------
(***************************************************************************)
(* The VFIO PCI bus of elib/hw/pci/kern_vfio.go: devices opened through   *)
(* their iommu group, one container shared by all groups, the container   *)
(* and the DMA heap each set up under a sync.Once by the first Open that  *)
(* reaches them, and the release of everything by the Close that finds no *)
(* device fd open any more.  Interrupts: InterruptEnable registers an      *)
(* eventfd with iomux, ReadReady is the iomux handler.                    *)
(*                                                                         *)
(* File descriptors are abstracted to their state.  Every syscall or      *)
(* ioctl that can fail is a member of a fault set; a call fails either    *)
(* because it is chosen as the one that fails (the kernel said no) or     *)
(* because the fd it is issued on is no longer open.  Calls whose         *)
(* failures have the same effect are one fault: readlink, open, status and *)
(* the viability check of find_group are "find_group"; the three opens and *)
(* ioctls of container_init are "container_init"; the four calls of       *)
(* dma_init are "dma_init"; the info, region info and irq info ioctls      *)
(* after the device fd is obtained are "device_query".  MapResource maps   *)
(* BAR 0, the one resource the ixge driver maps, in its Init right after  *)
(* Open; a region with sparse mmap areas is reserved with an anonymous    *)
(* mapping ("mmap_anon") and each area mapped into it ("mmap_area"),      *)
(* otherwise it is mapped whole ("mmap").                                 *)
(***************************************************************************)
EXTENDS Naturals, Sequences, FiniteSets

CONSTANTS
  Devices,      \* the vfio_pci_devices of DefaultBus
  Groups,       \* iommu group numbers
  GroupOf,      \* the iommu_group link of each device in sysfs
  IrqKinds,     \* irq indexes with count > 0 that each device reports
  OpenFaults,   \* calls of Open that may fail
  CloseFaults,  \* calls of m.close that may fail
  IrqFaults,    \* calls of InterruptEnable / ReadReady that may fail
  Sparse,       \* devices whose BAR 0 region has sparse mmap areas
  MapFaults,    \* calls of MapResource that may fail
  MaxIrqs       \* interrupts raised per device

NoGroup == "nogroup"
NoFault == "none"
NoIrq   == "noirq"

\* vfio_pci_intx_irq_index < vfio_pci_msi_irq_index: the order InterruptEnable
\* scans irq_infos in when MSI is not used.
IrqOrder == <<"intx", "msi">>

OpenCalls  == {"new_id", "find_group", "container_init", "set_container",
               "dma_init", "device_fd", "device_query"}
CloseCalls == {"unmap_dma", "munmap", "unbind", "remove_id"}
MapCalls   == {"mmap_anon", "mmap_area", "mmap"}
IrqCalls   == {"eventfd", "set_irqs", "read", "mask", "unmask"}

ASSUME /\ GroupOf \in [Devices -> Groups]
       /\ IrqKinds \in [Devices -> SUBSET {"intx", "msi"}]
       /\ \A d \in Devices : IrqKinds[d] # {}
       /\ OpenFaults \subseteq OpenCalls
       /\ CloseFaults \subseteq CloseCalls
       /\ IrqFaults \subseteq IrqCalls
       /\ Sparse \subseteq Devices /\ MapFaults \subseteq MapCalls
       /\ MaxIrqs \in Nat

VARIABLES
  phase,        \* caller's view of a device: idle, open (Open returned nil), failed, closed
  sysfs,        \* vfio-pci driver id of a device: none, bound (new_id), unbound, removed
  group,        \* d.group
  devFd,        \* d.device_fd > 0
  master,       \* BusMasterEnable in the device's command register
  gfd,          \* group_by_number[g]: absent, open (fd), closed (fd = -1)
  gset,         \* vfio_group_flags_container_set in g.status.flags
  mdevs,        \* m.devices, in the order find_group appended them
  cOnce,        \* container_init_once has run
  container,    \* m.container_fd: none, open, broken (init failed), closed (-1)
  dOnce,        \* dma_init_once has run
  dma,          \* the DMA heap: none, mapped (hw.DmaInit done), unmapped
  evFd,         \* d.interrupt_event_fd > 0
  polled,       \* d registered with iomux
  irq,          \* d.irq_index
  masked,       \* the INTx line is masked
  pending,      \* an interrupt is signalled on the eventfd
  raised,       \* interrupts raised so far (bounded by MaxIrqs)
  bar,          \* BAR 0's region_info.mapped_mem: none, mapped, failed, unmapped
  leaked,       \* an anonymous reservation MapResource left behind
  closeRes      \* what the last Close returned: none, ok, err

vars == <<phase, sysfs, group, devFd, master, gfd, gset, mdevs, cOnce,
          container, dOnce, dma, evFd, polled, irq, masked, pending, raised,
          bar, leaked, closeRes>>

Faulty(c, f) == c \in OpenFaults /\ f = c

-----------------------------------------------------------------------------
(* Open                                                                    *)

\* sysfs_get_group_number, new_group and find_group: with d.group set the
\* group is reused; otherwise the group is looked up in group_by_number and
\* opened when absent.  Every failure closes what new_group opened.
FindGroupOk(d, f) == group[d] # NoGroup \/ ~Faulty("find_group", f)

\* container_init: m.container_fd is set even when the open fails (-1), and
\* closed again when a later ioctl fails; either way it is unusable.
ContainerInit(f) == IF Faulty("container_init", f) THEN "broken" ELSE "open"

\* dma_init: the four calls are issued on m.container_fd.
DmaInitOk(cont, f) == cont = "open" /\ ~Faulty("dma_init", f)

\* vfio_pci_device.Open: new_id, find_group, container_init_once.Do, set the
\* group's container, dma_init_once.Do, get the device fd, query the
\* device, SetMaster(true), reset (error ignored).  The first failing call
\* returns its error; nothing before it is undone.
OpenOutcome(d, f) ==
  LET g     == GroupOf[d]
      s1    == ~Faulty("new_id", f)
      needG == group[d] = NoGroup
      newG  == needG /\ gfd[g] = "absent"
      s2    == s1 /\ FindGroupOk(d, f)
      gf    == IF newG /\ s2 THEN "open" ELSE gfd[g]
      cInit == s2 /\ ~cOnce
      cont  == IF cInit THEN ContainerInit(f) ELSE container
      s3    == s2 /\ ~(cInit /\ cont # "open")
      doSet == s3 /\ ~gset[g]
      setOk == cont = "open" /\ gf = "open" /\ ~Faulty("set_container", f)
      s4    == s3 /\ (doSet => setOk)
      dInit == s4 /\ ~dOnce
      s5    == s4 /\ (dInit => DmaInitOk(cont, f))
      s6    == s5 /\ gf = "open" /\ ~Faulty("device_fd", f)
      s7    == s6 /\ ~Faulty("device_query", f)
  IN [ok |-> s7, newId |-> s1, found |-> needG /\ s2, gf |-> gf,
      cOnce |-> cOnce \/ s2, cont |-> cont, set |-> doSet /\ setOk,
      dOnce |-> dOnce \/ s4, dma |-> IF dInit /\ s5 THEN "mapped" ELSE dma,
      fd |-> s6]

Open(d) ==
  /\ phase[d] = "idle"
  /\ \E f \in OpenFaults \cup {NoFault} :
       LET o == OpenOutcome(d, f)
           g == GroupOf[d]
       IN /\ phase'  = [phase EXCEPT ![d] = IF o.ok THEN "open" ELSE "failed"]
          /\ sysfs'  = [sysfs EXCEPT ![d] = IF o.newId THEN "bound" ELSE @]
          /\ group'  = [group EXCEPT ![d] = IF o.found THEN g ELSE @]
          /\ mdevs'  = IF o.found THEN Append(mdevs, d) ELSE mdevs
          /\ gfd'    = [gfd EXCEPT ![g] = o.gf]
          /\ gset'   = [gset EXCEPT ![g] = @ \/ o.set]
          /\ cOnce'  = o.cOnce
          /\ container' = o.cont
          /\ dOnce'  = o.dOnce
          /\ dma'    = o.dma
          /\ devFd'  = [devFd EXCEPT ![d] = o.fd]
          /\ master' = [master EXCEPT ![d] = o.ok]
  /\ UNCHANGED <<evFd, polled, irq, masked, pending, raised, bar, leaked, closeRes>>

\* MapResource(0): reserve the region and map each sparse area into it, or
\* map the region whole.  ri.mapped_mem is set only when every mmap
\* succeeded; a failing area leaves the reservation mapped, known only to
\* r.Mem.  The driver's Init returns the error and maps nothing else.
MapResource(d) ==
  /\ phase[d] = "open" /\ bar[d] = "none"
  /\ \E f \in MapFaults \cup {NoFault} :
       LET failed == IF d \in Sparse THEN f \in {"mmap_anon", "mmap_area"}
                     ELSE f = "mmap"
       IN /\ bar'    = [bar EXCEPT ![d] = IF failed THEN "failed" ELSE "mapped"]
          /\ leaked' = [leaked EXCEPT ![d] = d \in Sparse /\ f = "mmap_area"]
  /\ UNCHANGED <<phase, sysfs, group, devFd, master, gfd, gset, mdevs, cOnce,
                 container, dOnce, dma, evFd, polled, irq, masked, pending,
                 raised, closeRes>>

-----------------------------------------------------------------------------
(* Close                                                                   *)

\* A failure of m.close: the call and, for unbind and remove_id, the index
\* in m.devices of the device it failed for.
CloseFaultChoices ==
  {[at |-> 0, step |-> NoFault]}
  \cup {[at |-> 0, step |-> s] : s \in CloseFaults \cap {"unmap_dma"}}
  \cup {[at |-> i, step |-> s] : i \in 1 .. Len(mdevs),
                                 s \in CloseFaults \ {"unmap_dma"}}

\* The sysfs state m.close leaves device i of m.devices in: devices before
\* the failing one are unbound and their id removed; the loop stops at it.
SysfsAfter(i, ff, old) ==
  CASE ff.step \notin {"munmap", "unbind", "remove_id"} \/ i < ff.at -> "removed"
    [] i = ff.at /\ ff.step = "remove_id"                  -> "unbound"
    [] OTHER                                                -> old

\* unmap_resources for device i of m.devices: munmap mapped_mem when it is
\* not nil (it is never reset, so an unmapped region still counts), unless
\* the loop returned at an earlier device or this munmap fails; a device
\* whose unbind or remove_id fails was unmapped just before.
BarAfter(i, ff, old) ==
  IF /\ old \in {"mapped", "unmapped"}
     /\ \/ ff.step \notin {"munmap", "unbind", "remove_id"}
        \/ i < ff.at
        \/ i = ff.at /\ ff.step # "munmap"
  THEN "unmapped" ELSE old

\* The devices m.close loops over, and the position of each in m.devices.
Looped == {mdevs[i] : i \in 1 .. Len(mdevs)}
DevicePos(d) == CHOOSE j \in 1 .. Len(mdevs) : mdevs[j] = d

\* Mutant of MainClose: the groups are left open.
MainCloseKeepGroups(ff) ==
  LET unmapOk == container = "open" /\ ff.step # "unmap_dma"
  IN /\ gfd' = gfd
     /\ container' = IF unmapOk THEN "closed" ELSE container
     /\ dma' = IF unmapOk /\ dma = "mapped" THEN "unmapped" ELSE dma
     /\ sysfs' = IF unmapOk
          THEN [d \in Devices |-> IF d \in Looped
                                  THEN SysfsAfter(DevicePos(d), ff, sysfs[d])
                                  ELSE sysfs[d]]
          ELSE sysfs
     /\ bar' = IF unmapOk
          THEN [d \in Devices |-> IF d \in Looped
                                  THEN BarAfter(DevicePos(d), ff, bar[d])
                                  ELSE bar[d]]
          ELSE bar
     /\ closeRes' = IF unmapOk /\ ff.step = NoFault THEN "ok" ELSE "err"

\* vfio_group.close and vfio_main.close: close every group, unmap the DMA
\* heap with an ioctl on the container, close the container, then
\* unmap_resources, unbind and remove_id each device; the first error
\* returns.  The unmap ioctl fails on a container that is not open (fd 0
\* before container_init, or a closed fd).
MainClose(ff) ==
  LET unmapOk == container = "open" /\ ff.step # "unmap_dma"
  IN /\ gfd' = [g \in Groups |-> IF gfd[g] = "absent" THEN "absent" ELSE "closed"]
     /\ container' = IF unmapOk THEN "closed" ELSE container
     /\ dma' = IF unmapOk /\ dma = "mapped" THEN "unmapped" ELSE dma
     /\ sysfs' = IF unmapOk
          THEN [d \in Devices |-> IF d \in Looped
                                  THEN SysfsAfter(DevicePos(d), ff, sysfs[d])
                                  ELSE sysfs[d]]
          ELSE sysfs
     /\ bar' = IF unmapOk
          THEN [d \in Devices |-> IF d \in Looped
                                  THEN BarAfter(DevicePos(d), ff, bar[d])
                                  ELSE bar[d]]
          ELSE bar
     /\ closeRes' = IF unmapOk /\ ff.step = NoFault THEN "ok" ELSE "err"

\* Mutant of Close: the bus is closed without the found_open scan.
CloseAlwaysMain(d) ==
  /\ phase[d] \in {"open", "failed"}
  /\ phase'   = [phase EXCEPT ![d] = "closed"]
  /\ evFd'    = [evFd EXCEPT ![d] = FALSE]
  /\ polled'  = [polled EXCEPT ![d] = FALSE]
  /\ pending' = [pending EXCEPT ![d] = FALSE]
  /\ devFd'   = [devFd EXCEPT ![d] = FALSE]
  /\ \E ff \in CloseFaultChoices : MainClose(ff)
  /\ UNCHANGED <<group, master, gset, mdevs, cOnce, dOnce, irq, masked, raised,
                 leaked>>

\* vfio_pci_device.Close: drop the interrupt eventfd from iomux and close it,
\* close the device fd, and close the whole bus when no device of
\* m.devices has its fd open any more.  The caller closes a device it
\* opened, whether Open succeeded or not.
Close(d) ==
  /\ phase[d] \in {"open", "failed"}
  /\ phase'   = [phase EXCEPT ![d] = "closed"]
  /\ evFd'    = [evFd EXCEPT ![d] = FALSE]
  /\ polled'  = [polled EXCEPT ![d] = FALSE]
  /\ pending' = [pending EXCEPT ![d] = FALSE]
  /\ devFd'   = [devFd EXCEPT ![d] = FALSE]
  /\ IF \E i \in 1 .. Len(mdevs) : devFd'[mdevs[i]]
     THEN /\ closeRes' = "ok"
          /\ UNCHANGED <<gfd, container, dma, sysfs, bar>>
     ELSE \E ff \in CloseFaultChoices : MainClose(ff)
  /\ UNCHANGED <<group, master, gset, mdevs, cOnce, dOnce, irq, masked, raised,
                 leaked>>

-----------------------------------------------------------------------------
(* Interrupts                                                              *)

\* Mutant of IrqIndex: MSI without checking that the device has MSI vectors.
IrqIndexMsiAlways(d) == "msi"

\* The irq index InterruptEnable(true) takes, as the ixge driver calls it:
\* MSI when the device has MSI vectors, else the first index with count > 0.
IrqIndex(d) ==
  IF "msi" \in IrqKinds[d] THEN "msi"
  ELSE IrqOrder[CHOOSE i \in 1 .. Len(IrqOrder) :
                  /\ IrqOrder[i] \in IrqKinds[d]
                  /\ \A j \in 1 .. i - 1 : IrqOrder[j] \notin IrqKinds[d]]

IrqFaulty(c, f) == c \in IrqFaults /\ f = c

\* InterruptEnable: get an eventfd, pick the irq index, hand the eventfd to
\* the kernel with VFIO_DEVICE_SET_IRQS, register with iomux.  Called once,
\* at the end of the driver's Init, after MapResource succeeded.
InterruptEnable(d) ==
  /\ phase[d] = "open" /\ bar[d] = "mapped" /\ ~evFd[d] /\ irq[d] = NoIrq
  /\ \E f \in (IrqFaults \cap {"eventfd", "set_irqs"}) \cup {NoFault} :
       /\ evFd'   = [evFd EXCEPT ![d] = ~IrqFaulty("eventfd", f)]
       /\ irq'    = [irq EXCEPT ![d] = IF IrqFaulty("eventfd", f) THEN NoIrq ELSE IrqIndex(d)]
       /\ polled' = [polled EXCEPT ![d] = f = NoFault]
  /\ UNCHANGED <<phase, sysfs, group, devFd, master, gfd, gset, mdevs, cOnce,
                 container, dOnce, dma, masked, pending, raised, bar, leaked,
                 closeRes>>

\* The device raises its interrupt; the kernel signals the eventfd and, for
\* INTx, masks the line until user space unmasks it.
Raise(d) ==
  /\ phase[d] = "open" /\ polled[d] /\ ~pending[d]
  /\ ~(irq[d] = "intx" /\ masked[d])
  /\ raised[d] < MaxIrqs
  /\ pending' = [pending EXCEPT ![d] = TRUE]
  /\ masked'  = [masked EXCEPT ![d] = @ \/ irq[d] = "intx"]
  /\ raised'  = [raised EXCEPT ![d] = @ + 1]
  /\ UNCHANGED <<phase, sysfs, group, devFd, master, gfd, gset, mdevs, cOnce,
                 container, dOnce, dma, evFd, polled, irq, bar, leaked,
                 closeRes>>

\* Mutant of ReadReady: INTx is masked and never unmasked.
ReadReadyNoUnmask(d) ==
  /\ polled[d] /\ pending[d]
  /\ \E f \in (IrqFaults \cap {"read", "mask", "unmask"}) \cup {NoFault} :
       /\ ~IrqFaulty("read", f)
       /\ pending' = [pending EXCEPT ![d] = FALSE]
       /\ masked'  = [masked EXCEPT ![d] = IF irq[d] = "intx" THEN TRUE ELSE @]
  /\ UNCHANGED <<phase, sysfs, group, devFd, master, gfd, gset, mdevs, cOnce,
                 container, dOnce, dma, evFd, polled, irq, raised, bar, leaked,
                 closeRes>>

\* ReadReady (enableDisableInterrupts inlined): read the eventfd; for INTx
\* mask, call the driver's Interrupt, unmask.  An error returns at once.
ReadReady(d) ==
  /\ polled[d] /\ pending[d]
  /\ \E f \in (IrqFaults \cap {"read", "mask", "unmask"}) \cup {NoFault} :
       /\ ~IrqFaulty("read", f)
       /\ pending' = [pending EXCEPT ![d] = FALSE]
       /\ masked'  = [masked EXCEPT ![d] =
                        IF irq[d] = "intx" /\ f = NoFault THEN FALSE ELSE @]
  /\ UNCHANGED <<phase, sysfs, group, devFd, master, gfd, gset, mdevs, cOnce,
                 container, dOnce, dma, evFd, polled, irq, raised, bar, leaked,
                 closeRes>>

-----------------------------------------------------------------------------

Init ==
  /\ phase = [d \in Devices |-> "idle"]
  /\ sysfs = [d \in Devices |-> "none"]
  /\ group = [d \in Devices |-> NoGroup]
  /\ devFd = [d \in Devices |-> FALSE]
  /\ master = [d \in Devices |-> FALSE]
  /\ gfd = [g \in Groups |-> "absent"]
  /\ gset = [g \in Groups |-> FALSE]
  /\ mdevs = <<>>
  /\ cOnce = FALSE /\ container = "none"
  /\ dOnce = FALSE /\ dma = "none"
  /\ evFd = [d \in Devices |-> FALSE]
  /\ polled = [d \in Devices |-> FALSE]
  /\ irq = [d \in Devices |-> NoIrq]
  /\ masked = [d \in Devices |-> FALSE]
  /\ pending = [d \in Devices |-> FALSE]
  /\ raised = [d \in Devices |-> 0]
  /\ bar = [d \in Devices |-> "none"]
  /\ leaked = [d \in Devices |-> FALSE]
  /\ closeRes = "none"

\* Every device has been closed or its Open failed and it is never closed.
Finished ==
  /\ \A d \in Devices : phase[d] \in {"failed", "closed"}
  /\ UNCHANGED vars

Next ==
  \/ \E d \in Devices :
       \/ Open(d) \/ MapResource(d) \/ Close(d)
       \/ InterruptEnable(d) \/ Raise(d) \/ ReadReady(d)
  \/ Finished

\* iomux calls ReadReady whenever the eventfd is readable.
Spec == Init /\ [][Next]_vars /\ \A d \in Devices : WF_vars(ReadReady(d))

-----------------------------------------------------------------------------
(* Properties                                                              *)

TypeOK ==
  /\ phase \in [Devices -> {"idle", "open", "failed", "closed"}]
  /\ sysfs \in [Devices -> {"none", "bound", "unbound", "removed"}]
  /\ group \in [Devices -> Groups \cup {NoGroup}]
  /\ devFd \in [Devices -> BOOLEAN] /\ master \in [Devices -> BOOLEAN]
  /\ gfd \in [Groups -> {"absent", "open", "closed"}]
  /\ gset \in [Groups -> BOOLEAN]
  /\ mdevs \in Seq(Devices) /\ Len(mdevs) <= Cardinality(Devices)
  /\ cOnce \in BOOLEAN /\ dOnce \in BOOLEAN
  /\ container \in {"none", "open", "broken", "closed"}
  /\ dma \in {"none", "mapped", "unmapped"}
  /\ evFd \in [Devices -> BOOLEAN] /\ polled \in [Devices -> BOOLEAN]
  /\ irq \in [Devices -> {NoIrq, "intx", "msi"}]
  /\ \A d \in Devices : irq[d] \in IrqKinds[d] \cup {NoIrq}
  /\ masked \in [Devices -> BOOLEAN] /\ pending \in [Devices -> BOOLEAN]
  /\ raised \in [Devices -> 0 .. MaxIrqs]
  /\ bar \in [Devices -> {"none", "mapped", "failed", "unmapped"}]
  /\ leaked \in [Devices -> BOOLEAN]
  /\ closeRes \in {"none", "ok", "err"}

\* A device whose Open returned nil can do DMA through the IOMMU: it holds
\* its device fd, its group is open and attached to the open container,
\* the DMA heap is mapped, vfio-pci is bound to it and it is bus master.
\* Open reaches container_init and dma_init only through their sync.Once,
\* so a device opened after an earlier Open failed inside one of them, or
\* after the bus was closed, must still find them done.
OpenDeviceUsable ==
  \A d \in Devices : phase[d] = "open" =>
    /\ devFd[d] /\ master[d] /\ sysfs[d] = "bound"
    /\ group[d] = GroupOf[d] /\ gfd[GroupOf[d]] = "open" /\ gset[GroupOf[d]]
    /\ container = "open" /\ dma = "mapped"

\* Everything the bus acquired is released.
Released ==
  /\ container = "closed" /\ dma # "mapped"
  /\ \A g \in Groups : gfd[g] # "open"
  /\ \A i \in 1 .. Len(mdevs) : sysfs[mdevs[i]] = "removed"
  /\ \A d \in Devices : bar[d] # "mapped"

\* A Close that returns nil and leaves no device fd open has released the
\* groups, the container, the DMA mapping, every device's BAR mapping and
\* vfio-pci binding (Close's found_open scan and vfio_main.close).
CloseReleasesAll ==
  [][(/\ \E d \in Devices : phase[d] # "closed" /\ phase'[d] = "closed"
      /\ closeRes' = "ok"
      /\ \A d \in Devices : ~devFd'[d]) => Released']_vars

\* An INTx interrupt delivered to ReadReady leaves the line unmasked again
\* (ReadReady's mask / Interrupt / unmask), unless the device is closed.
IntxRearmed ==
  \A d \in Devices :
    pending[d] ~> (~pending[d] /\ (~masked[d] \/ phase[d] = "closed"))

=============================================================================
