# TLA+ models of the goes buffer pools, packet chains, tuntap transmit path, vlan punt/inject nodes, VFIO PCI bus, event-log view and qsfp daemon

This directory holds TLA+ specifications of the concurrent and
pointer-manipulating parts of the Go tree under `src/goes`. Each module
is translated from the source. `PROJECT.json` maps every definition to
the lines it models.

## The system and its parts

| Part | Source | State | Operations | Interacts with |
|---|---|---|---|---|
| Buffer pool | `elib/hw/buf.go` `BufferPool` | free list `p.refs`, DMA chunks carved so far, buffer headers (their `nextRef` word), template | `AllocRefsStride` (grow loop: round to 256 buffers, halve while > 1 MiB, `DmaAlloc`, carve highest offset first), `AllocCachedRefs`, `FreeRefs` (`free1`/`free4`, with `freeNext` chain following or `freeRefsNoNext`), `LinkRefs` (two forms) | callers that hold packets; the trace below; `BufferMain` |
| Allocation-state tracing | `buf.go` `traceByOffset`, `setState`, `validateSetState`, `panicState` | per DMA offset: unknown / known-allocated / known-free | every alloc and free validates and sets states, panicking on a wrong transition | pool operations; `DelBufferPool` (`unsetState`/`putTrace`) |
| Pool sizing | `buf.go` `Init`, `bufferSize`, `isPrime` | `p.Size`, `p.sizeIncludingOverhead` | `Init`, called without a lock from `AddBufferPool` and from `AllocRefsStride` | every allocating goroutine |
| Pool registry | `buf.go` `BufferMain` | `PoolByName`, pool index pool | `AddBufferPool`, `DelBufferPool` | pools, DMA, the trace |
| Packet chains | `buf.go` `RefChain`, `ChainLen`, `Validate` | head ref, `len`, `tail`, `prev_tail` pointers into headers | `Append` | buffer headers |
| Data window | `buf.go` `RefHeader.Advance`/`Restore` | `dataOffset`, `dataLen` (uint16) | `Advance` (`Restore` is called nowhere) | vlan punt/inject nodes |
| VFIO PCI bus | `elib/hw/pci/kern_vfio.go` | per device: `device_fd`, `group`, `interrupt_event_fd`, `irq_index`; per group: `fd`, container-set flag; `group_by_number`, `m.devices`, `container_fd`, the two `sync.Once`s, the DMA map | `Open` (`new_id`, `find_group`, `container_init`, set container, `dma_init`, device fd and queries, `SetMaster`), `Close`→`vfio_main.close`, `InterruptEnable`, `ReadReady` | the kernel's VFIO ioctls, sysfs, iomux, the ixge driver, `hw.DmaInit` (the heap the buffer pools carve) |
| Vlan punt/inject | `vnet/ethernet/punt_1tag.go`, `punt_2tag.go` | per node: disposition pool (`punt_packet_disposition_pool`), inject table by Si, `sequence`; per packet: buffer bytes, `dataOffset`/`dataLen`, `RefOpaque`, error, next | punt `AddDisposition`/`DelDisposition`, `punt_x1`/`punt_x2`/`NodeInput`; inject `sw_if_add_del`, `AddDisposition`, `inject_x1`/`inject_x2`/`NodeInput` | wire input, the tap interfaces (`tx.go`), vnet's interface hooks |
| Tuntap transmit | `vnet/unix/tx.go` | packet vectors, `to_tx` channel, `intf.pv`, `active_refs` | `NodeOutput`→`tx_queue`, `tx_write`→`write_packet_vector`→`advance`, `WriteReady` | vnet loop goroutine, tx thread, file poller, buffer pool |
| Event-log view | `elib/elog/view.go` | copied, sorted events; subview bounds; display times `v.Times` | `NewView`, `SubView`, `Reset` (each ending in `getViewTimes`/`doViewTimes`), `numEvents`, `getEvent`, `convertBufferEvents`, `EventsMatching` | the event ring |
| Event ring | `elog` `Buffer.Add` (not under `src/`; modelled from the spec) | clock, `b.index`, slots | `Add`: timestamp, claim the index under the lock, write the slot after it | logging goroutines, `NewView` |
| qsfp daemon | `goes/cmd/qsfp/qsfpio.go`, `qsfp.go` | `qsfpIo.Present`, `latestPresent`, `porto`, `lastsio`; `present`, `portIsCopper`, published fields, `maxTemp`/`maxTempPort`; reset and LP GPIO outputs | io goroutine: `updateio`→`QsfpStatus`→`QsfpInit`/`QsfpReset`/`QsfpLpMode`/`SendPresentToQsfp`; main goroutine: `updatePresence`, `updateMonitor`→`CheckTemp` | QSFP modules, redis (vnet media/speed/fec), the BMC |

The hard behaviours are the following:
- the lock-free `Init`;
- chains built through raw header words and freed by walking them;
- debug state that must track every handover;
- uint16 arithmetic;
- in tx, an atomic counter whose zero crossings drive wakeups, and a
  channel that must never fill;
- in qsfp, two goroutines that hand the presence word over through an
  unsynchronised array while modules come and go.

## Modules and how they match the code

* `BufferPool` models one pool. The variables are:
  - `refs` is `p.refs`;
  - `buf[s]` is the `nextRef` word of the buffer in slot `s`;
  - `carved` is how much DMA memory has been carved;
  - `trace` is `traceByOffset[..].state`;
  - `panicked` records a `panicState`;
  - `held` is the packet heads the callers hold.

  Each pool operation runs under `p.mu`, so it is one action that
  includes its whole body. `AllocRefsStride` includes the grow loop
  (`Grow`, `GrowCount`, `CarveChunk`) and the state validation.
  `FreeRefs` includes the batch validation, `freeRefsNext` (`free4` by fours, then `free1`), `freeNext.add`
  (`CollectNext`, which reads each segment's `nextRef` before the header
  is reset) and `freeRefsNoNext`. `LinkRefs` and `LinkRefsAs` are the
  two branches of `LinkRefs`.

  The callers follow the API contract. They free only refs they hold,
  use `freeNext = FALSE` only for refs that head no chain, and link only
  at the end of a chain.
* `PoolAbstract` is what the pool promises: buffers that have been made
  are either free or in use. Allocation takes free or freshly made
  buffers, and freeing returns in-use ones. `BufferPool` instantiates it
  with a refinement mapping: the slots carved so far, the set on the
  free list, and the set reachable from held chains.
* `BufferMain` models the pool registry and what the pools share. Each
  pool has an owner goroutine (`AddBufferPool`, later `DelBufferPool`);
  a pool in `Users` also has a user goroutine (`AllocStart`, `AllocRefs`,
  `FreeRefs`). The variables are:
  - `byName`, `elts`, `freeIdx`/`nIdx` and `index` are `PoolByName`,
    the `bufferPools` elements, its `elib.Pool` free list and `p.index`.
    `GetIndex`/`PutIndex` follow the spec, since `elib.Pool` is not
    under `src/`;
  - `dma`, `chunks`, `refs` and `held` are the allocator's free memory,
    each pool's DMA chunks, its free list and what its user holds (one
    buffer per chunk);
  - `trace` and `panicked` are the shared allocation-state trace;
  - `size`, `sizeIncl` and the per-goroutine `pc` model `Init`'s three
    assignments (`RoundSize`, `SetSizeIncl`, `FixSize`) as separate
    steps, run without a lock by `AddBufferPool` after `m.Unlock` and by
    the first `AllocRefs` that sees the pool uninitialized;
  - `listed` is a history variable: the pools `AddBufferPool` has
    registered and that are not yet deleted.

  `DelBufferPool` is the unregister under `m.Mutex` and `DelFree` the
  `DmaFree` of the chunks with the `unsetState` of the free refs that
  follow it. `bufferSize` is checked against a reference definition,
  `RefBufferSize`: the least prime number of cache lines holding the
  payload plus the overhead.
* `RefChain` models `Append`. Pointers are locations: `&c.head`, or a
  buffer slot's `nextRef` word. `Walk` is `NextRef` and `ChainLen` is
  `ChainLen`. `BufferPool` composes it (`RC == INSTANCE RefChain WITH
  ...`): the pool's `nextRef` words are the chain's, and the refs a
  caller appends are the ones it holds. `AppendToChain` is `Append` of a
  held single-segment ref. `ChainHandOff` is `Validate` (its length
  check applies when `elib.Debug`), followed by the caller holding
  `c.Head()` as a packet. Meanwhile other callers allocate, link and
  free buffers of the same pool. `Holders` (held refs plus a non-empty
  chain's head) is what ownership and the refinement count.
* `Vfio` models the VFIO bus. Its state is the file descriptors and
  flags of `vfio_main`, the groups and the devices, each fd abstracted
  to open / closed. Every call that can fail is a fault; Open's first
  failing call (chosen from `OpenFaults`, or forced because its fd is
  dead) ends it, as its `if err != nil { return }` chain does.
  - `Open` is the whole of `vfio_pci_device.Open`, computed by
    `OpenOutcome`: `new_id`; `find_group` (`FindGroupOk`), which reuses
    `d.group` or a group of `group_by_number` and appends to `m.devices`;
    `container_init_once.Do` (`ContainerInit`); the group's
    `VFIO_GROUP_SET_CONTAINER` when its flag is clear; `dma_init_once.Do`
    (`DmaInitOk`); the device fd; the info, region and irq queries;
    `SetMaster(true)`. A `sync.Once` is spent as soon as it is reached,
    whether its function fails or not.
  - `Close` closes the eventfd and the device fd and, when no device of
    `m.devices` has its fd open, runs `MainClose` (`vfio_main.close`):
    close all groups, unmap the DMA heap, close the container, then for
    each device of `m.devices` (`Looped`, `DevicePos`) `unmap_resources` (`BarAfter`: a device whose unbind or remove_id
    fails was unmapped just before), unbind
    and remove the id, stopping at the first error
    (`CloseFaultChoices`, `SysfsAfter`).
  - `MapResource` maps BAR 0, as the ixge driver's Init does right after
    Open. A region with sparse mmap areas is reserved with an anonymous
    mapping and each area is mapped into it; otherwise the region is
    mapped whole. `mapped_mem` (`bar`) is recorded only when every mmap
    succeeded. A failing area leaves the reservation mapped and
    unrecorded (`leaked`). `unmap_resources` munmaps `mapped_mem`
    whenever it is not nil, and nothing ever resets it.
  - `InterruptEnable` picks MSI when the device has it, else the first
    irq index with a count (`IrqIndex`). `Raise` is the kernel
    signalling the eventfd (and masking INTx). `ReadReady` reads it and,
    for INTx, masks, calls the driver and unmasks.
  - The caller (a bus scan and the ixge driver, not under `src/`) opens
    each device once, maps BAR 0 and then enables interrupts once after
    a successful Open, and closes any device it opened.
* `TuntapTx` models one tuntap interface with three actors and the
  kernel:
  - the vnet goroutine: `NodeOutput` takes a frame, `BuildVector` packs
    it into vectors of at most `MaxVec` packets (freeing packets of an
    unknown interface), and `tx_queue` is three steps. `TxQueue` is the
    atomic add to `active_refs`, `TxQueueUpdate` is the `iomux.Update`
    on a zero crossing, and `TxQueueSend` is the send on `to_tx` (a panic
    `tx full` when the channel is full);
  - the tx thread: `TxThreadRecv` takes a token, `TxWriteTake` takes
    `intf.pv` or a vector from `to_tx`, `WritePacketVector` is
    `write_packet_vector` with `advance` (which frees the first
    `n_packets + n_drops` packets), and `TxWriteDec`/`TxWriteUpdate` are
    the atomic subtract and the `iomux.Update` at zero;
  - the poller: `WriteReady` sends a token while the interface wants
    write readiness and the device has room;
  - the kernel: `KernelDrain` empties the full tun queue.

  A write returns 0, `EWOULDBLOCK` (the queue is full: the rest of the
  vector stays in `intf.pv`) or an errno from `WriteErrors`. `EBADF`
  stands for every errno that reaches the `default` case. The
  `iomux.Update` call is taken to be atomic.
* `ElogView` models the event ring and a view of it. The ring's `Add`
  (`AddStamp`, `AddClaim`, `AddWrite`) follows the spec, since the
  ring's code is not under `src/`. An event is its timestamp, and 0 is
  the zero event of a slot never written. `NewView` is the copy under
  `lockIndex` (`Copied`: the wrapped part, then the rest), the sort
  (`SortByTime`) and current = all. `SubView` orders its bounds and
  binary-searches (`SearchFirst`, `SearchEnd`). `Reset` and
  `ConvertBufferEvents` set current back to all events. History
  variables record what the ring had claimed when the view was taken
  (`snap`), the last window and the event count before the last
  `SubView`. `SubView` counts and reads all events through `NumEvents`
  and `GetEvent` (`numEvents(true)`, `getEvent(i, true)`). Every view
  operation but `ConvertBufferEvents` ends by updating `times`
  (`v.Times`): `NewView` and `Reset` through `GetViewTimes` (a zero
  start time becomes the log's start truncated to the second, then the
  first and last current events are the span), and `SubView` calls
  `DoViewTimes` on its own bounds. The history variable `span` keeps the
  last span handed to `doViewTimes`.
* `ElogViewTimes` is `doViewTimes` as operators. Time is an integer
  count of `10^Res` ns, and the arithmetic is exact. `Log10Floor` is
  `math.Floor(math.Log10(dt))`, written as a recursion. `ViewUnit` is
  the unit switch, `FloorTo`/`CeilTo` round the span out to the unit,
  `StartUnit` is `startTimeUnit`, and `Truncate` is `time.Truncate`.
  `SpecUnit` is the reference: the spec's thresholds. `TestSpans` holds
  spans on both sides of every threshold, in ns and in ms.
* `Qsfp` models the qsfp daemon's two goroutines and the hardware, for
  one bank of presence bits. A module is a compliance kind (copper
  `-CR`, 40G optic, other optic) and a presence bit is TRUE for an empty
  port.
  - The io goroutine is `UpdateioStart` (device version, `porto = 0`),
    `UpdateioPorto` (`porto = -1` on boards without a version) and one
    `QsfpStatus(k)` per key of the map loop, in any order. The key of
    port 0 runs `QsfpInit` on the first tick and reads the inputs, which
    may fail with an I2C error. A changed word goes through `QsfpReset`
    and `QsfpLpMode` (`(old & ^ports) | (ports & value)`), becomes
    `Present` and is copied to `latest` (`latestPresent`).
  - The main goroutine is `UpdatePresence` and `UpdateMonitor`, each one
    step. `UpdatePresence` runs `PresenceFrom`, the loop over the changed
    bits in order. `InsertPort` is the installed branch: it takes
    `Compliance` (what the I2C buffer holds if the port was emptied
    meanwhile), then sets `portIsCopper`, `MediaConfig` (media, speed,
    fec) and the published compliance. `RemovePort` is the removed
    branch: it deletes the compliance, sets `portIsCopper` and forgets
    `maxTempPort` (`ForgetMaxTempPort`).
    `UpdateMonitor` is the loop `MonitorFrom` over the present optics
    whose `DataReady` bit reads set, through `CheckTemp`.
  - The environment inserts and removes modules (`MaxChanges`), changes
    temperatures and makes vnet ready.
* `QsfpAlarms` models how `updateMonitor` decodes a module's lower page,
  as pure operators. A page is a function from byte offsets to bytes,
  and the block read hands it over as `D`, where `D[k]` is page byte
  k-1. `DynamicBlocks` slices out the flag bytes and assembles the
  temperature word. `ChannelAlarms` (`StatusFlag` for the LOS, fault and
  CDR bits, `LevelFlags` for a lane's monitor nibble) and
  `FreeSideAlarms` turn the flags into alarm lists. `MonitorAlarms`
  files the lists under the rx/tx lane keys `updateMonitor` publishes
  them under. `Temp` is the hand-written two's complement decode that
  `Temp` and `CheckTemp` share. An alarm list is the set of its names:
  the code appends them in a fixed order, trims the comma and writes
  "none" for an empty list, so the string is a function of the set. The
  reference `RefAlarms`/`RefTemp` is SFF-8636's table of the same bytes.
  `Qsfp` extends it, and each module kind has a lower page
  (`LowerPage`).

  Two timing facts of the code are assumptions of the model. A module
  goes only into a port the io goroutine has seen empty, since swapping
  a module takes longer than its 1 s tick. A new presence word is
  handed over only after the main goroutine took the previous one,
  since `updatePresence` polls every 500 ms.
* `VlanPunt` models both node pairs: kind 1 is the single-tagged pair
  and kind 2 the double-tagged pair. A buffer is its memory as halfwords
  (every offset the nodes use is even). Positions and `dataOffset` are
  bytes, as in the code, and buffers start at the template's
  `dataOffset` of 64 (`FreshBuffer`).
  - Punt side:
    - `pdisp`/`plen`/`pfree` are the disposition pool.
    - `PuntAddDisposition` is `GetIndex` plus `add_disposition`
      (`MakeDisposition`). A reused element keeps its old
      `replace_tags` where the switch writes none.
    - `PuntDelDisposition` is `del_disposition`.
    - `Punt1X1` and `Punt2X1` are the two `punt_x1`s, down to the order
      of the stores: save the addresses; store the 8 bytes of
      `replace_tags`; write the addresses back at `header_index`
      (through `DataAt`, `DataOffset`'s unsigned sum); `Advance`.
    - `PuntX2` and `PuntVector` are `punt_x2` and `NodeInput`'s pair
      and single loops.
  - Inject side:
    - `idisp` is the inject table. `SwIfAddDel` is both nodes'
      `sw_if_add_del` hook (`ValidateInit` with a zero disposition
      whose next is error).
    - `InjectAddDisposition` is `AddDisposition`, and `NextSet`/`NextGet`
      are `inject_next.set`/`get`.
    - `Inject1X1` and `Inject2X1` are the `inject_x1`s. The
      double-tagged one stores one uint64 whose halfword order depends on
      `HostIsNetworkByteOrder`.
    - `InjectNodeInput` takes `next_offset` from the incremented
      `sequence` (`iseq` is its low bit).
  - `TapEcho` stands for the tap interface between the nodes, which is
    not part of them. It sends the punted bytes to the kernel and gets
    them back as a fresh buffer of the same Si.
  - The pool's `GetIndex`/`PutIndex` and the vec's `ValidateInit` are
    elib templates, not under `src/`. They are modelled from their
    documented behaviour, as in `BufferMain`.
  - The two pairs share no state, so `Init` picks one pair per behaviour
    (`pair`). The state spaces add instead of multiplying. Every
    property is about one pair's packets.
* `MC*` modules and `.cfg` files give the constants. The cfg cannot
  write negative literals or substitute operators, so those values live
  in the MC modules.

## Runs

| Run | Checks | Result |
|---|---|---|
| `pool_core` | `TypeOK`, `OwnershipExclusive`, `TraceConsistent`, `ChainLenMatches`, `ChainWalkMatches`, `PoolRefinement` | pass: about 50k states, depth 11 |
| `buffer_main` | `TypeOK`, `RegistryConsistent`, `MemoryOwned`, `TraceSafe`, `SizeContract`, `InitConverges` | pass: about 102k states |
| `buffer_main_dup_name` | `RegistryConsistent` with two pools of one name | **violated**: code bug |
| `refchain_multiseg` | `LenMatches` with a pre-chained ref | **violated**: code bug |
| `tuntap_tx` | `TypeOK`, `FreedOnceAfterWrite`, `ActiveRefsAccount`, `TxDrains` (errnos `EIO`, `EMSGSIZE`) | pass: about 12.9k states, depth 30 |
| `tuntap_tx_errors` | `FreedOnceAfterWrite` with a `default`-case errno | **violated**: code bug |
| `elog_view` | `TypeOK`, `ViewComplete`, `SubViewExact`, `ViewTimesFit` | pass: about 60k states, depth 17 |
| `elog_view_torn` | `ViewNeverTorn` | **violated**: differs from the spec |
| `vlan_punt` | `TypeOK`, `PuntRewrite`, `RoundTrip` (little-endian host) | pass: about 361k states, depth 19 |
| `qsfp` | `TypeOK`, `ResetLinesFollowPresence`, `MaxTempPortMonitored`, `DecodeMatchesSff8636`, `QsfpSettles` | pass: about 190k states, depth 28 |
| `vfio` | `TypeOK`, `OpenDeviceUsable`, `CloseReleasesAll`, `IntxRearmed` (every failing call but `dma_init`, mask, unmask) | pass: about 152k states |
| `vfio_dma_once` | `OpenDeviceUsable` with `dma_init` failing | **violated**: code bug |

The properties in these runs are:
* `OwnershipExclusive`: every carved buffer is either once on the free
  list or once in exactly one held chain. This fails if a chain segment
  is leaked or freed twice. A mutant of `Free4` that calls
  `freeNext.add` only for the first of its four refs breaks it.
* `TraceConsistent`: the debug state agrees with where buffers are, and
  legal use never panics. A mutant of `freeNext.add` that skips
  `validateSetState` breaks it.
* `PoolRefinement`: `BufferPool` implements `PoolAbstract`. A mutant of
  the carving loop that stops one buffer short breaks it.
* `RegistryConsistent`: a registered, undeleted pool is found under its
  name and at its index, and its index is not free for another pool. A
  mutant of `GetIndex` that reuses the first freed index instead of the
  last breaks it.
* `MemoryOwned`: every DMA offset is free or a chunk of exactly one
  pool, across deletions and reuse. A mutant of `DelFree` that returns
  the chunks but keeps them in the pool breaks it.
* `TraceSafe`: no `validateSetState` ever panics, even for memory a
  deleted pool had traced, and an offset is known-allocated exactly when
  a user holds it. A mutant of the transition check that accepts an
  allocation only from the unknown state breaks it.
* `SizeContract` and `InitConverges`: racing `Init`s still end at the
  least prime-line size, with `Size = sizeIncludingOverhead - overhead`.
  Mutants of `isPrime` (a loop bound one short) and of `FixSize` (no
  overhead subtracted) break them.
* `ChainLenMatches` and `ChainWalkMatches` (`RefChain`'s `LenMatches`
  and `WalkMatches` through the instance): a chain built in the pool
  counts the length its `NextRef` walk gives, so `Validate` does not
  panic. The walk visits exactly the appended buffers, in order, while
  other callers reuse the pool. A mutant of `FlagPrevTail` that never
  sets NextValid breaks the walk. A mutant of `addLen` that assigns
  instead of adding breaks the length.
* `LenMatches` alone: `refchain_multiseg` (see Findings).
* `FreedOnceAfterWrite`: a packet is freed at most once, and only after
  its write returned or because it has no interface. A mutant of
  `advance` that frees the whole vector breaks it.
* `ActiveRefsAccount`: `active_refs` equals the refs queued to the tx
  thread plus a written count whose subtraction is pending. A mutant of
  `tx_queue` that adds the packet count instead of the refs breaks it.
* `TxDrains`: every packet is eventually freed, `active_refs` returns to
  0, and the poller stops watching, whatever the order of the two
  goroutines' zero crossings. A mutant of `tx_write` that skips the
  `iomux.Update` breaks it.
* `ViewComplete`, `SubViewExact`: a view taken with no write in flight
  has `min(index, Cap)` distinct logged events. `SubView` selects
  exactly its window; its binary search assumes the view sorted by time,
  so a `NewView` that skips the sort breaks `SubViewExact` as well.
  Mutants that skip the wrapped part or make the window's end exclusive
  break these.
* `ViewTimesFit`: the unit `doViewTimes` picks is the spec's unit, on
  every edge span of `TestSpans` and on every span a reachable view
  handed it. The displayed window begins at or after the start time
  the view moved to. It covers the whole span and overshoots it by less
  than one unit at each end. A `doViewTimes` that rounds the end down
  instead of up breaks it. An empty span (a view of one event) is left
  out; see below.

* `ResetLinesFollowPresence`: after `QsfpInit`, every port the io
  goroutine saw installed is out of reset and out of low power, and every
  port it saw empty is held in both. A mutant of `QsfpReset` that drops
  the mask keeping the unchanged ports breaks it.
* `MaxTempPortMonitored`: `maxTempPort` is `"-1"` or a port the main
  goroutine still monitors. A mutant that never forgets it on removal
  breaks it.
* `DecodeMatchesSff8636`: for every optic `updateMonitor` reads, the
  rx, tx and module alarm lists it publishes hold exactly the flags that
  SFF-8636 sets in the module's lower page, each under its own lane, and
  the decoded temperature is the page's signed value. The same holds for
  every test page: each single flag bit of bytes 2-15, all of them at
  once, and temperatures at the edges of the two's complement range.
  The test pages are checked once, when TLC evaluates the constant
  definitions; the modules' pages are checked in every state where one
  is monitored. A mutant of `LevelFlags` that reads lanes 2 and 4 from
  the upper nibble breaks it.
* `QsfpSettles`: once modules stop changing, every port's io word,
  `lastsio` status and `present` bit eventually match the hardware for
  good, and an emptied port has its published fields deleted and
  `portIsCopper` set. This holds through I2C read errors and io keys
  visited before the bank read, with `QsfpStatus` overwriting
  `latestPresent` whether or not `updatePresence` took the previous
  word. The kind of an installed module is not part of it (see "Seen
  while modelling"). A mutant of `RemovePort` that leaves the published
  fields breaks it.

* `PuntRewrite`: every frame a punt node sends to the tap interface is
  `PuntReference`, written from the header layout, of the frame that
  arrived:
  - with `AdvanceL3Header`, the bytes after the ethertype;
  - otherwise, the addresses, then the configured replacement headers in
    place of the vlan headers, then the rest.

  This holds for every `PuntConfig` on both nodes. It includes a
  negative `header_index` (two replacement headers on the single-tagged
  node, stored before the data through the unsigned sum), and
  `replace_tags` left over from a deleted disposition whose index was
  reused. A mutant of `punt_x1` that reads the addresses after the
  `replace_tags` store (which overwrites 4 of their bytes) breaks it.
* `RoundTrip`: a frame that a stripping disposition punted, and that
  comes back through an interface whose inject disposition holds the
  frame's tags, leaves inject exactly as it arrived at punt. A mutant of
  the double-tagged `inject_x1` that always uses the network-order
  layout breaks it. So does the real code on a network-order host (see
  Findings).

* `OpenDeviceUsable`: a device whose Open returned nil holds its fd,
  its group is open and attached to the open container, the DMA heap is
  mapped, vfio-pci is bound and bus mastering is on. It must hold after
  an earlier Open failed inside `container_init` or after the bus was
  closed, since neither Once runs again. A mutant of `Close` that
  closes the bus without the `found_open` scan breaks it.
* `CloseReleasesAll`: a Close that returns nil and leaves no device fd
  open has closed every group and the container, unmapped the DMA heap
  and every BAR mapping recorded in `mapped_mem`, and removed every
  device's driver id. A mutant of `vfio_main.close`
  that leaves the groups open breaks it.
* `IntxRearmed`: an INTx interrupt handed to `ReadReady` leaves the
  line unmasked again unless the device is closed. A mutant of
  `ReadReady` without the unmask breaks it.

### Findings

1. **`RefChain.Append` with a multi-segment ref** (`buf.go:840`). After
   walking to the last segment, Append sets `prev_tail` to the word the
   head ref was copied to, not to the `nextRef` word that holds the last
   segment's ref. The next Append flags the head again. The last
   segment's ref never gets NextValid, so anything appended after it is
   unreachable, although `c.len` counts it. TLC's trace has two steps:
   append the chain 0→1 (len 2), then append buffer 2. The result is len
   3 with `ChainLen` 2.
2. **`write_packet_vector` double-counts `default` errors**
   (`tx.go:309-315`). The `default` case adds one to `n_packets` and one
   to `n_drops`, and `advance(n_packets + n_drops)` frees that many
   packets. One such error in front of a blocked write frees the
   blocked packet unwritten: on a two-packet vector `advance(2)` finds
   nothing left, hands the vector back and sets `intf.pv = nil`
   (`tx.go:252-254`), so the packet is dropped without being written.
   Its refs stay counted in `active_refs`, because `n_refs` (`tx.go:300`)
   adds only the packets whose write returned, so `active_refs` never
   returns to 0 and the poller keeps watching the fd. TLC: the vector
   `<<1, 3>>`, where packet 1 gets `EBADF` and packet 3 blocks, frees
   both. If the error is the vector's last packet, `advance` slices past
   the end and panics; before that, `FreeRefs` also frees `i - np` stale
   `pv.r` entries past the packets, which the model does not keep (it
   flags the panic).
3. **`NewView` copies slots still being written** (`view.go:94-98`).
   The index lock covers only the index claim, so a slot whose writer
   has claimed it but not written it is copied as the zero event or the
   previous lap's event. The spec (§3, §5, §8.5) says a view never holds
   a partially written event. TLC: one writer stamps and claims, then
   `NewView` gives `<<0>>`.
4. **`AddBufferPool` with a name already taken** (`buf.go:468-478`). The
   second pool is not registered and keeps `p.index` 0, but the caller
   still gets it and uses it. `DelBufferPool` of it deletes
   `PoolByName[name]`, which is the first pool, and frees index 0 and
   `elts[0]`, which belong to the first pool. TLC: add p1 as n1, add p2
   as n1, delete p2; p1 is then no longer found and its index is free.

5. **An Open after a failed `dma_init` succeeds without DMA**
   (`kern_vfio.go:303`). `dma_init` runs inside `dma_init_once.Do`, and
   its error reaches Open only inside the closure. The Open whose
   `dma_init` fails returns the error, but the Once is spent. The next
   device's Open skips `dma_init`, finds `err` nil and returns nil:
   `hw.DmaInit` never ran and nothing is mapped for the device's DMA.
   TLC: d1's Open fails in `dma_init`, then d2's Open returns nil with
   the DMA heap still absent.

Seen while modelling, with no violation run of their own (each is a
hazard in `PROJECT.json`):
* **`RefHeader.Restore`** (`buf.go:99-103`) assigns `dataOffset` before
  it computes `Δ := int(dataOffset) - old`, so `Δ` is always 0: Restore
  resets the offset but keeps the advanced length (offset 64, length
  60, `Advance(-4)`, `Restore(64)` gives 64/64). Nothing in the
  repository calls Restore.
* **`SubView` re-expands** (`view.go:125-142`). It searches all events,
  not the current ones, so a second, wider `SubView` returns more
  events than the current view had (`SubView(2,2)` leaves 0 events,
  then `SubView(1,1)` gives 1). The spec (§4.4, §8.7) says SubView
  narrows the current view. `SubViewExact`, which `elog_view` checks,
  states what the code does instead.
* **`SubView` moves the display start time each time it runs**
  (`view.go:234`). `doViewTimes` adds `t0` to `v.Times.StartTime` as the
  previous call left it, but `t0` is an elapsed time from the log's
  start. In `elog_view` the log starts at 1.3 s and events are at
  elapsed 0.6, 1.2 and 1.8 s. After `NewView`, `Times.StartTime` is
  1 s. `SubView(1.2, 1.8)` moves it to 2 s, and the same call again
  moves it to 3 s. The first event in view is at 2.5 s, so the start
  time is no longer the "time of first event in view rounded down"
  that `viewTimes`' comment promises. This rests on `ElapsedTime`
  measuring from `sharedHeader.StartTime`, and that code is not under
  `src/`. The model bounds the drift with `StartTimeBound`.
* **A one-event view is shown in seconds** (`view.go:191`). For
  `dt = 0`, `logDt` stays 0 and the switch picks `sec`. The spec's
  thresholds ("ns below 1e-6 s") give `ns`.
* **A failed Open can keep the bus open for ever**
  (`kern_vfio.go:322`). An Open that fails after it got the device fd
  does not close it, and `Close`'s `found_open` scan then always finds
  an open fd: no Close releases the groups, the container or the DMA
  map.
* **A module swapped between two `updatePresence` steps is never seen**
  (`qsfpio.go:207`, `qsfp.go:162`). `QsfpStatus` overwrites
  `latestPresent` with each new word. If a port is emptied and refilled
  before the main goroutine takes the word, `updatePresence` compares
  two "installed" bits and skips the port: `portIsCopper`, the
  published compliance and vnet media/speed keep the old module's kind
  for good. This is why `QsfpSettles` is stated for presence only; a
  property over the kind fails on exactly this trace.

Seen while modelling the vlan nodes:
(both are hazards in `PROJECT.json`):
* **Double-tagged inject on a network-order host** (`punt_2tag.go:253`).
  The big-endian branch puts `tags[0]` in the inner and `tags[1]` in the
  outer tag position, the reverse of the little-endian branch and of
  `PuntTagsForDisposition`. To see it, set `HostIsNetworkByteOrder =
  TRUE` in `MCVlanPunt.cfg`. TLC then reports `RoundTrip` violated: the
  double-tagged frame `1, 0` comes back as `0, 1`.
* **A deleted punt disposition still matches** (`punt_1tag.go:101`).
  `punt_x1` only checks the index against `Len()`, which a freed index
  still passes. The packet goes out with the deleted disposition's
  `RefOpaque` and next.

## Bounds and why they are enough

* `pool_core` uses 6 slots, a grow granule of 2 (256 in code), one
  buffer per 2-byte chunk limit, requests of 1–3 buffers and free
  batches of 1–4. This covers several grows, a chunk split by the
  halving loop, partial use of a chunk, chains of up to three segments
  built with both `LinkRefs` forms, and frees of chains mixed with
  single refs. A batch of 4 goes through `free4`, which resets all
  four buffers before `freeNext.add` walks any of their chains.
* `buffer_main` uses 3 pools, 2 with a user goroutine, and 2 DMA
  offsets. A freed index is therefore reused by a later pool while
  another is registered, `Init` races `AddBufferPool`'s, and a pool
  created after a deletion gets memory whose trace the deleted pool
  left. The payloads are 448 bytes (9 cache lines, the square of a
  prime), 64 and 1024.
* `refchain_multiseg` uses 4 buffers with lengths in {1, 2}, one of
  them pre-chained to another. In `pool_core` the chain grows to as many
  buffers as one caller holds (up to 6), in any append order, with
  `dataLen` 1. Lengths do not matter there: the single-segment counting
  is the same whatever the length, and `refchain_multiseg` covers the
  rest.

* `tuntap_tx` uses 4 packets, one of them with no interface, of 1 or 2
  buffers. The bounds are `MaxVec = 2`, a token channel of 1 and
  `to_tx` of 4. This gives several vectors, a split frame, blocked
  writes resumed from `intf.pv`, errors in either position, and both
  zero crossings of `active_refs` racing.
* `elog_view` uses a 2-slot ring, 2 writers and 3 events. This gives
  a wrapped ring, writers that claim out of timestamp order, a writer
  stalled across a view, and subviews over times 1–3. With a tick of
  0.6 s (`Res = 6`, so times count milliseconds), spans of 0.6 s and
  1.2 s take the `ms` and the `sec` branches. The log's start at 1.3 s
  is not a whole second, so truncation to the start unit matters. The
  other branches (`ns`, `us`, `min`, `hr`, `day`) are checked on
  `TestSpans`. `StartTimeBound` (a `CONSTRAINT` of `MCElogView`) stops
  the search once the display start time is 4 s past the log's start,
  which takes several `SubView`s in a row.
* `qsfp` uses 2 presence bits (one even and one odd port, so both sides
  of the swap), 3 module kinds, 2 temperatures, 2 insertions or
  removals on top of any modules present at boot, and 1 I2C read error.
  This covers a removal racing `Compliance`, a 40G optic replacing a
  copper cable, a removal of the hottest port, and a key visited before
  the bank read. `DeviceVer` is 1, a board with a device version. The
  40G optic's page flags one lane-2 status bit and a temperature warning
  at -0.5 C. The 100G optic's page flags an upper-nibble bias alarm (lane
  3) and a power warning (lane 1). So both nibbles, both flag families
  and a negative temperature are decoded in reachable states, and the
  test pages cover every other bit.

* `vfio` uses 3 devices, two sharing group g1 and one alone in g2, so
  a group is found in `group_by_number`, a container is set once per
  group, and the last Close may be of either group. d1 has only INTx,
  d2 INTx and MSI, d3 only MSI, so each branch of the irq choice is
  taken; each device raises up to 2 interrupts. d2's BAR 0 has sparse
  areas and the others' do not, so both branches of `MapResource` run. Every Open, Close and
  interrupt order is explored with the fault choices, including an
  Open after the bus was closed.

* `vlan_punt` covers both node pairs, with up to 2 dispositions per
  pool (the Init one and one added, deleted and re-added any number of
  times). It uses every `PuntConfig` with `RefOpaque` Si 1 (both
  `AdvanceL3Header` values and 0–2 replacement headers), 2 Si's, and
  inject dispositions with offset valid or not. The frames are:
  - single-tagged frames with tag 1 (an added disposition) and tag 0
    (the Init disposition);
  - a double-tagged frame with outer tag 1 and inner tag 0, which is
    index 1.

  A frame can arrive before its disposition exists (unknown
  disposition), after it was deleted, and after its index was reused
  with another config, and interfaces can appear before or after their
  traffic. These cover every branch of `add_disposition` and `punt_x1`
  and both inject layouts. More packets add only vectors of the same
  per-packet code.

### Fairness

`vfio` assumes weak fairness of `ReadReady` for `IntxRearmed`: iomux
calls a file's `ReadReady` whenever its fd is readable.

`qsfp` assumes weak fairness of `updateio`, `updatePresence` and vnet
becoming ready, for `QsfpSettles`. Both goroutines run on tickers
forever, and vnet publishes `vnet.ready` once it is up. No fairness is
assumed for `updateMonitor`, module changes or temperatures.

`tuntap_tx` assumes fairness for its liveness property `TxDrains`. It assumes weak fairness of the vnet goroutine's steps and
of the tx thread's steps, because the Go scheduler runs a runnable
goroutine. It assumes weak fairness of `WriteReady`, because the poller
is level-triggered: it reports a writable fd it watches. It assumes
weak fairness of `KernelDrain`, because the kernel sends queued tun
packets. All other properties are safety properties (the pool
refinement is one as well).

## Not modelled, and why

* Device drivers (ixge), hardware commands (w83795d, eeprom), netlink,
  the cli and the main programs are register or file I/O with no shared
  state worth checking.
* In the VFIO bus, the following are not modelled: `MapResource` of a
  resource other than BAR 0, and its check of the region index (the
  driver maps BAR 0 only); `region_rw` and `ConfigRw` (register access
  through the device fd, which panics on an error); the
  parsing of region capabilities in Open (data, and a VGA region error
  that Open ignores); `SetMaster`'s read-modify-write of the command
  register (a flag in the model); the re-use of a closed fd's number by
  a later open. `pci.go`'s capability walks and driver table are not
  modelled either.
* In qsfp, the following are not modelled: bank 1; the static fields
  (vendor, part and serial numbers, thresholds) and the power, bias and
  voltage values, which are formatting of register bytes; the rounding
  of the published temperature to one decimal; `TxDisableSet`; the BMC redis write in
  `CheckTemp`; and `readStopped`, which is not under `src/`. Failed I2C
  writes and output reads in `QsfpReset`/`QsfpLpMode` are not modelled
  either: their errors are ignored, and the model's writes succeed.
  With `DeviceVer = 0` the same model reports `MaxTempPortMonitored`
  violated: an `updateMonitor` between `porto = 0` and `porto = -1`
  records the hottest port under the next port's name. This is listed
  as a hazard in `PROJECT.json`. So is `CheckTemp`'s one-pass lag,
  which needs no run to see.
* In the vlan nodes, three things are not modelled:
  - config changes racing `NodeInput` on another goroutine (a torn
    disposition). The callers that add dispositions are not under
    `src/`, so the model makes each add atomic;
  - the reuse of a deleted interface's Si, which keeps its inject
    disposition (a hazard in `PROJECT.json`);
  - the error counters behind `SetError`, which are vnet's.
* Strides > 1 (`copyRefs`) are not modelled: the model's refs are a
  set, not a vector with gaps.
* The `DmaAlloc` failure path is not modelled: the model's `DmaAlloc`
  always succeeds.
* In tx, the `Fd == -1` drop path, the vnet suspend that follows a
  `tx full` recovery (outside `src/`), and the byte contents of packets
  are not modelled.
* In elog, `doViewTimes` is modelled in exact arithmetic. Go's
  `math.Log10` in float64 can land on either side of a decade boundary,
  so the unit it picks for a span of exactly 1 ms, 1 µs or 1 s is not
  modelled. Printing and `EventsMatching` (a regular-expression filter with no state) are not
  modelled. The ring's lap race is a known weakness: a writer stalled
  across a lap can overwrite a newer event, so a view may lack one of
  the most recent `Cap` events. `ViewComplete` checks what still holds.

## Plan

Remaining work, in order:
1. **Huge buffers**: show that the grow loop's `n_alloc` reaches 0 when
   a buffer exceeds 1 MiB (`buf.go:519`).
2. **Tuntap**: the `Fd == -1` path, and the rx side if its buffer
   handover to the pool can be bounded.
3. **VFIO**: a run where the mask or unmask ioctl fails
   (`IntxRearmed`), and one where an Open fails after it got its device
   fd (the bus is never released).
4. **Violation runs** for the double-tagged inject byte-order bug and
   the qsfp `porto` race, which are now hazards whose notes give the
   constant that shows them.
