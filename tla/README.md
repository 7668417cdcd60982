# TLA+ models of the ElysiumOS kernel

This directory holds TLA+ specifications of the parts of the kernel under
`src/` that have state, concurrency or algorithms worth exhausting with TLC,
the TLC configurations that check them, and `PROJECT.json`. That file records:
- the components and which module models each one;
- every run and what it expects;
- the mutants that show each property can fail;
- the map from each definition to the source lines it translates;
- the findings and the hazards.

## The system

| Part | Source | State it keeps | Operations |
|---|---|---|---|
| Virtual memory | `memory/vm.c` | per address space: a region list and a spin lock; a global free list of region descriptors with its own lock; page tables | `find_space`, `region_map`/`region_unmap`, `region_alloc`/`region_free`, `map_common` (`vm_map_anon`, `vm_map_direct`), `vm_unmap`, `vm_fault` |
| Scheduler | `arch/x86_64/sched.c` | per CPU: the current thread (GS base), the stack it runs on, the loaded address space, the one-shot timer; per thread: a state; per process: its thread list | `x86_64_sched_init_cpu`, `sched_switch`, `x86_64_sched_next`, `sched_entry`, `common_thread_init`, `arch_sched_thread_destroy`, thread creation |
| ELF loader | `lib/elf.c` | heap buffers, allocated frames, mappings, `*interpreter`, `auxv` | `elf_load` |
| Interrupt table | `cpu/interrupt.c` | 256 entries of free/handler/priority | `interrupt_request`, `interrupt_set`, `interrupt_handler` |
| FS syscalls | `syscall/syscall_fs.c` | per-process resource table (outside `src/`), per-resource offset | open, close, read, write, seek, stat |
| APIC, LAPIC | `cpu/apic.c`, `arch/x86_64/lapic.c` | `g_lapic`; the LAPIC's ID, SVR and ISR registers; the IOAPIC redirection table | MADT parse, EOI, IPI |
| Boot, panic, exceptions | `kernel.c`, `arch/amd64/exception.c` | — | `kmain`, `panic` (cli; hlt on the calling CPU), `exception_unhandled` |

The parts interact in four ways:
- The scheduler loads each thread's address space, which the VM built, on every switch.
- `x86_64_sched_init` takes the preemption vector from the interrupt table, and every timer tick reaches `sched_entry` through that table.
- The VM and the ELF loader take frames from the PMM. `pmm.c` is not in `src/`; only its header is.
- `vm_fault` is entered from the page-fault exception.
- `kmain` hands the ACPI MADT to `apic_initialize`, and the IRQ dispatcher's return calls `apic_eoi`. `exception_unhandled` names the CPU by `lapic_id` and ends in `panic`.

Since `vm.h` and the generic run queue (`sched_thread_next`, `sched_thread_drop`, the unblocker) are not under `src/`, they are modelled from `spec.md` and marked `spec_modelled` in the map.

## Modules

### `VM.tla`: the virtual-memory manager (vm.c)

**State:**
- `regions[as]`: the region list as a set of value records `[as, base, len, type, zero, phys]`, where `zero` and `phys` are the two type_data fields.
- `freeList`: the free descriptors. Only their stale type_data matters, because a reused descriptor keeps it.
- `hw[as][page]`: the page-table leaves; 0 is absent, otherwise a frame number.
- `locks`: the holder of each address-space lock and of `g_free_regions_lock`.
- `nextFrame`: the PMM, as a count of frames handed out, up to `MaxFrames`.
- `descPages`: the pages carved into descriptors (ghost).
- `op[c]`: each CPU's call in progress.

**Actions.** Each call is split at the points where it takes a lock. Everything done under one lock is one step, with every guard and early return of the code in it:
- `MapStart`, then `RegionAllocLock` (pop, or carve inline when the global lock is already held), then `RegionAllocCarve`, then `MapLock`, then `MapFail`.
- `UnmapStart`, then `UnmapLoop` (one page or run of the range), then `RegionAllocLock` for the successor of a split, then `UnmapTrim`.
- `FaultLookup`, then `FaultMap`. The lookup takes no lock, as in the code. If the descriptor has been freed and reused in between, `FaultMap` reads whatever it now holds.
- A NULL page from the PMM is dereferenced by the code; the model halts that CPU (`Panic`), as a page fault ending in `panic` would.

**Abstraction:**
- A page is one address unit, and page alignment and length-zero calls are not modelled.
- Protection and cache bits are not modelled.
- A hint is a page, optionally "unaligned", which makes the code round it up.

`VMSpec.tla` is the abstract promise of region reservation: each page of each space is unreserved or reserved with a view, and each space may have a `vm_unmap` range in progress. A map reserves unreserved pages; an unmap releases pages of its range and no others, and returns only when the whole range is unreserved. The refinement maps `unmapping` to the range of the CPU inside `vm_unmap` (`Unmapping`, from its `lo`/`hi`; the space's lock makes it at most one). It is instantiated twice through `Reserved(View)`:
- `RefinesTypeSpec`: the view is each page's region type;
- `RefinesBackingSpec`: the view is the type plus the frame or zero-fill that backs the page.

### `Sched.tla`: the x86_64 scheduler (sched.c and the run queue of the design)

**State:**
- thread states, the run queue (FIFO) and the freed threads;
- per CPU: `cur` (GS base), `stack`, `prev` (the thread handed over by the context switch), `cr3`, `armed` (the one-shot timer) and `pc`;
- the init flag;
- each process's thread list.

**Actions:**
- `InitCpu`: the BSP releases the flag; each CPU switches from its bootstrap thread to its idle thread.
- `Tick`: the LAPIC fires while a thread runs.
- `Suspend`: a worker yields, blocks or exits.
- `Unblock`: the unblocker of spec §5.
- `SchedNext`: dequeue and switch, or stay idle, or fall back to idle. A self-switch fails the ASSERT and halts the CPU.
- `Drop`: the incoming thread's `sched_thread_drop(prev)` and timer re-arm, which may destroy the thread and its process.

`sched_next` and `sched_switch` run with interrupts off, so choosing and switching is one step. The drop is a separate step, after the switch, as in the code.

**Composition with the interrupt table.** `Sched` EXTENDS `Interrupt` and owns the table (`entries`) and `g_sched_vector` (`schedVector`):
- `Init`: the BSP is at `"boot"` with the table as boot leaves it (`BootTable`): the exception vectors hold their handler and an arbitrary set of driver vectors (`devices`, any subset of a range) is taken.
- `SchedInit`: `x86_64_sched_init`, which requests a vector of priority class PREEMPT for `sched_entry`; a failed request fails the ASSERT and halts the BSP.
- `Tick`: the one-shot timer delivers `schedVector`, and `interrupt_handler` runs what the table holds there; only `sched_entry` moves the CPU to `x86_64_sched_next`.

### `Interrupt.tla`: the interrupt table (interrupt.c)

The table is a function from vectors to `[free, handler, priority]`. `interrupt_initialize`, `interrupt_set`, `interrupt_request` and `interrupt_handler` are operators over it; the module that owns the table makes them steps. `interrupt_request`'s loop is the RECURSIVE `ScanFrom`, checked against `LowestFree`, a reference by CHOOSE of the lowest free vector at or above the class base. The IDT gate encoding is hardware layout and is left out.

### `SyscallFs.tla`: the file-system system calls (syscall_fs.c)

Two threads of one process share its resource table (`rt`: id to resource) and the resources (`res`: node, mode, flags, offset). Files have existence, size and a data function whose entries record which write produced each byte.

**Actions**, one per system call, each with every early return of the code in its order (`OpenChecks`, `StatChecks` are sequences of `<<condition, errno>>` and `SelectInSeq` picks the first that fails):
- `Open`: flag and access-mode checks, the relative lookup through `AT_FDCWD` or a directory resource, `O_CREAT`/`O_EXCL`, `O_TRUNC` (only with write access on a file), `O_APPEND`, and the new resource in a free id.
- `Close`, `Seek` (whence, overflow to a negative offset), `Stat`.
- `Read`/`Write` are `Transfer`: the mode check and the VFS transfer, which may fail after moving part of the bytes. `TransferEnd` is the later `resource->offset += count`, taken with no lock, through the pointer read before the transfer.

**Abstraction.** The resource table, the VFS and the heap are outside `src/` and modelled from the design as atomic operations; any VFS call may fail, and one call is chosen as the first to fail. `paths` counts `safe_path` buffers, which no path frees.

### `Elf.tla`: the ELF loader (elf.c)

`elf_load` is one process.
- **Steps:** `Start` (header checks), `NextPhdr` (one program header), `LoadPage` (one pass of the PT_LOAD page loop) and `Finish`.
- **Failures:** every failure jumps to the fall-through labels `fail_free_*` (`Fail`).
- **File contents:** a file byte is named by its offset.
- **VFS reads:** every read may fail or come up short. A short read fails the header, program-header and segment reads (`read_count != size`); the interpreter path read checks only `r < 0` (line 154), so a short one succeeds with a truncated path.

### `StackSetup.tla`: the user stack of a new process (sched.c 191-246)

`StackSetup` EXTENDS `Elf`: once `elf_load` has returned success, `StackSetupCall` runs `arch_sched_stack_setup` with the aux vector it filled (`auxv` now holds the entry, phent and phnum values).
- **State:** the vectors passed, the mapping's base, the returned stack pointer, `low` (address to the 4 bytes `WRITE_QWORD` copied there), `copies` (each string copy with its address) and `dirty` (the frames held old data).
- **Action:** one step, because the function runs on one thread with no lock and no shared state. `Top`, `AreaSize`, `CopyAt`, `WordCount` and `Pushes` are the address arithmetic and push order of the code. A NULL mapping or a push below the mapping is the ASSERT panic.
- **Abstraction:** a word's high half is 0 on a clean frame and `Junk` on a recycled one, since the mapping is not zeroed; a string is a model value with its length.

### `Apic.tla` and `Boot.tla`: the boot path (kernel.c, cpu/apic.c, arch/amd64/exception.c)

`kmain`, `apic_initialize`, `apic_eoi` and `exception_unhandled` belong to the older amd64 boot path. It runs on one CPU, with interrupts arriving from the hardware.

**Apic** holds the state of `apic_initialize` and the two devices it programs:
- `nbytes`, `off`, `lapicAddress`, `ioapicAddress`, `coreCount` (taken mod 256, as a `uint8_t`) and `lapicIds` are its locals. `off` stands for `current_record`, as a byte offset.
- `gLapic` is `g_lapic`.
- `lapic` is the LAPIC's ID, SVR and in-service registers.
- `ioredtbl` is the IOAPIC redirection table.

The operations are:
- `ApicInitialize`: lines 47-54.
- `ApicWalkRecord`: one pass of the `while (nbytes > 0)` loop. The switch on the record type is followed by the advance by the record's `length`. Memory past the table reads as a zero record.
- `ApicFinish`: lines 86-100. This is the SVR write and the three `ioapic_set_irq` read-modify-writes.
- `ApicEoi`: `apic_eoi`.

Register fields are cleared and set by arithmetic on the field (`ClearField`), because TLC values stop at 2^31 and its `ENABLED` evaluation of a fair action re-evaluates operator arguments. The community `Bitwise` operators recurse per bit and did not finish under `ENABLED`. A redirection entry keeps its 17 defined low bits and its destination byte. MMIO addresses are small integers.

**Boot** drives it:
- `Kmain` covers lines 27-86. The collaborators outside `src/` have no state here. It goes to the walk when ACPI has a MADT and straight to the IDT when it has none.
- `ApicWalk` and `ApicDone` run the walk and its end.
- `Sti` and `DevicesInit` come next.
- `Fault` is `exception_unhandled` followed by `panic`.

The hardware (from the spec and the architecture) raises ISA IRQs (`Raise`) and delivers them (`Deliver`). With the PIC on, an IRQ arrives at vector 32+irq. Otherwise it goes through the redirection entry to the LAPIC whose id is the destination, when the LAPIC is enabled and the vector's class is above every in-service one. An IRQ whose destination is no CPU is lost (`Lose`). The dispatcher's return calls `apic_eoi` (`HandlerReturn`).

## Runs

| Run | Module / cfg | Expect | What it shows |
|---|---|---|---|
| vm_safety | VM / MCVM.cfg | pass | 2 CPUs map/unmap/split in a user space while the global space faults. `RegionsDisjoint`, `DescriptorsAccounted` (every slot of every descriptor page is in a list, on the free list or in a CPU's hands), `MappedInRegion`. |
| vm_locks_live | VM / MCVMLive.cfg | pass | `LocksReleased`: every lock taken is released, unless a CPU halted. |
| vm_types | VM / MCVMTypes.cfg | pass | ANON and DIRECT maps, unmaps and splits refine `VMSpec` with the region type as view: an unmap releases exactly its range, a split keeps the pieces before and after it, and no page that stays reserved changes type. |
| vm_backing | VM / MCVMBacking.cfg | violation | A DIRECT region split at page k maps its tail k pages too low (vm.c:221). |
| vm_lock_cycle | VM / MCVMLockCycle.cfg | violation | The lock-order cycle between `g_free_regions_lock` and an address-space lock (vm.c:79 against vm.c:153). |
| vm_fault_race | VM / MCVMFaultRace.cfg | violation | `vm_fault`'s unlocked lookup against a concurrent `vm_unmap` maps a page outside every region. |
| sched_smp | Sched / MCSched.cfg | pass | `StackExclusive`, `QueueSound`, `NoUseAfterFree`, and liveness `QueuedThreadRuns` on 2 CPUs with 3 workers (2 in one process). `SchedVectorAllocated`: the scheduler's vector is the lowest free one of its class or above, whatever drivers hold, and no other vector's handler changes. |
| sched_wake | Sched / MCSchedWake.cfg | pass | `QueuedThreadRuns` with blocking and waking on one CPU: a woken thread runs, because the idle path re-arms the timer. |
| boot | Boot / MCBoot.cfg | pass | `MadtParsed`: after the walk the LAPIC and IOAPIC addresses, the core count and the LAPIC ids are those of the table, including a LAPIC-address override record. `IsaIrqsRouted`: IRQs 1, 2 and 12 are unmasked, fixed, physical and at vectors 33, 32 and 44, and keep every other firmware bit. `ExceptionReportsCpu`: an exception report names the BSP's APIC id. `AcceptedIrqRetired`: every vector the LAPIC accepts leaves service. `KmainReachesIdle`: kmain reaches its hlt loop. |
| syscall_fs | SyscallFs / MCSyscallFs.cfg | pass | `FileChangesNeedWriteAccess` (a file byte or size changes only by a write through a writable resource or an `O_TRUNC` open with write access). |
| elf_load | MCElf / MCElf.cfg | pass | `LoadedImageCorrect` (each PT_LOAD byte maps to its file byte, or zero past p_filesz) and `SuccessHeapOwnership` over 13 files with failing reads; then, after a successful load, `arch_sched_stack_setup`: `StackAligned` (the final stack pointer is 16-byte aligned for 1-3 arguments and 0-2 environment strings), `StringsIntact` (every string copy lies whole inside the mapping, apart from the others and above the pushed words) and `StackFramePlaced` (argc, the two NULLs and the aux pairs, with elf_load's values, sit where the start-up code reads them). |
| stack_abi | MCElf / MCElfAbi.cfg | violation | `StackMatchesAbi`: the pointer loops push argv and envp in order, so the process reads them reversed (sched.c:236), and `WRITE_QWORD` copies 4 bytes of each word onto a frame that was not zeroed (sched.c:196). |

Every property of a passing run has a mutant in `PROJECT.json`: a plausible bug in a mapped definition that TLC catches under the run's configuration.

## Bounds and why they suffice

**VM:**
- Spaces are user 1..3 and global 4..8. The boot heap is pages 5-6 of the global space. A descriptor page holds 3 descriptors, and the PMM has 4-5 frames.
- 3 descriptors per page make the free list run dry after two allocations, so carving happens within a few calls.
- Lengths 1-3 give splits that leave a piece on both sides.
- The frame bound reaches PMM exhaustion.
- Each run restricts the flag and type combinations to the question it asks. The stale type_data on the free list multiplies the state space, so one run per question keeps each run under 2 minutes; vm_safety reaches 1.5M distinct states.

**Sched:**
- 2 CPUs and 3 workers exceed the CPUs, so one thread is always queued and dispatch races happen.
- One process with 2 threads reaches destruction of a process while its other thread still runs.

**Interrupt table in Sched:** 8 vectors in classes of 2, exceptions at 0-1, drivers holding any subset of 2-5, PREEMPT = 1. This reaches a free class and a full class that spills into a higher one. Vectors 6 and 7 are always free, so a failed request (the ASSERT) is not reached.

**SyscallFs:**
- 2 threads, 2 resource ids, one directory and 2 files (one existing), `MaxSize` 2, 2 calls per thread.
- 12 open calls cover every flag check, access mode, create, exclusive, truncate and append; seeks include an invalid whence and a negative target.
- Two ids let a close and a reopen reuse the id of a transfer in flight. Threads are symmetric (`SYMMETRY`).

**Boot:**
- Six machines: the BSP at APIC id 0 or 1, each with no MADT, a MADT with one LAPIC, an IOAPIC and a source override, or one with two LAPICs, an NMI record, a LAPIC-address override and the IOAPIC last.
- These reach every record type and the PIC path. The BSP at id 1 is where a destination of 0 is lost.
- The firmware leaves each redirection entry clean, masked only, or masked with level trigger, active-low polarity, a delivery mode and a stale vector. Its destination byte is 0 or 3.
- IRQs 1, 2 and 12 can all be pending at once. Handlers run with interrupts off, so one vector is in service at a time, and a vector left in service would block the others.
- Exceptions 18 and 31 fall inside and past the message table.

**Elf:**
- 4-byte pages and 5 virtual pages.
- The segments are unaligned at both ends, span pages, or are bss only.
- Reads fail anywhere, which reaches every failure label.

**StackSetup (in the elf_load run):**
- `USER_STACK_SIZE` is 32768, as in the code (8 pages of 4096). The mapping is at 65536, or NULL (0), which panics.
- Argument vectors `<<s1>>`, `<<s1, s2>>`, `<<s2, s1, s3>>` and `<<Huge>>`, and environment vectors of 0, 1 and 2 strings, with string lengths 1, 4, 10 and 40000. Both parities of argc + envc and string areas of several sizes mod 16 occur, so the alignment of line 212 is exercised both ways; two strings make the argv order observable; `Huge` does not fit and panics.
- The frame is clean or was recycled (`dirty`).

## Fairness

**VM.** Only `Step(c)` (a call already in progress) is weakly fair: a CPU inside a VM call keeps executing it, while nothing forces a CPU to start one.

**Sched.** `InitCpu`, `SchedNext`, `Drop` and `Tick` are weakly fair per CPU:
- the first three run with interrupts off to completion;
- the timer is armed hardware that fires.

Threads' own `Suspend` and `Unblock` are not fair.

**SyscallFs.** Only `TransferEnd` is weakly fair: a thread inside read or write finishes it. Nothing forces a thread to make a call.

**Elf.** `elf_load` runs to completion. The stack setup that follows it (`ExecSpec`) has no fairness: nothing in the model forces a process to be started.

**Boot.** kmain's steps are weakly fair together: one CPU runs kmain to its hlt loop with nothing else to run. `HandlerReturn` is weakly fair because a handler returns. Raising IRQs and faults is not fair.

**Deadlock checking.** Disabled for VM, because a CPU that panics halts for good. Disabled for Elf, because the function returns and the stack setup happens once. Disabled for SyscallFs, because the threads stop making calls after `MaxCalls` each. Disabled for Boot, because `panic` halts the CPU for good. Checked for Sched.

## Not modelled, and why

**Inside modelled components:**
- In `arch_sched_stack_setup`, addresses are below 2^31, so the truncation of a pointer of 4 GiB or more by the 4-byte `WRITE_QWORD` is not reached; the model shows the dirty high half instead. The string bytes themselves are a model value per copy.
- FPU, TSS and FS/GS state.
- Page protections and caching.
- The collaborators kmain calls that are outside `src/` (framebuffer, GDT, PMM, VMM, heap, ACPI, PIC, IDT, PIT, keyboard). They are steps of `Kmain`, `Sti` and `DevicesInit` without state.
- `vmm_map` of the LAPIC and IOAPIC pages, and `HHDM` (`g_lapic` holds the physical address).
- Two stand-ins across source generations. `amd64/exception.c` includes `arch/amd64/lapic.h`, which is not under `src/`; its `lapic_id` is modelled by the one of `x86_64/lapic.c` (`LapicId`), and its variadic panic by kernel.c's. `x86_64_sched_init` calls `x86_64_interrupt_request`, which is not under `src/`; `SchedInit` uses `cpu/interrupt.c`'s `interrupt_request` (lines 46-53) in its place.
- The IOREGSEL/IOWIN indirection of the IOAPIC: `ioredtbl` is indexed by register directly.
- Exception formatting, and the register frame.

**Not modelled:**
- Whether a closed resource object is freed or reused. The resource table and `resource_remove` are outside `src/` and opaque in the spec, so the model keeps every object; the late `resource->offset += count` (syscall_fs.c:144, 173) then always lands on the object the transfer used, and no property is checked about it.
- A property of `sched_switch` beyond the scheduler's invariants: it runs with interrupts off and its assignments are one step, so nothing can interleave with it.
- `vm_fault` on one page from two CPUs: both map a frame (spec §8 says faults are idempotent). The model reaches it; no run checks it, as `vm_fault_race` already shows the same unlocked lookup going wrong.
- `lapic_initialize`, `lapic_eoi` and `lapic_ipi` (lapic.c). The x86_64 scheduler model takes the LAPIC timer and the EOI as dispatcher steps, and nothing under `src/` sends an IPI.
- The two-CPU wake-up race of the design's unblocker (spec §5): the scheduler model reaches it with two CPUs and wake-ups. It has no run, because the twelve run slots hold the questions about the code itself.
- Two defects the boot run reaches without a property that asserts them:
  - `apic.c:34` shifts the raw ID register into the destination byte, which then always reads 0. With the BSP at id 1, `Lose` fires.
  - `exception.c:47` reads past the 31-entry message table for vector 31, and the report carries `Garbage`.
  Neither the spec nor a comment states where an IRQ must go or what vector 31 prints, and no run slot is left for a violation run.
- Headers (`pmm.h`, `vmm.h`, `apic.h`, …): declarations, with no behaviour.
- The global-space boot-heap split (formerly its own run): `vm_safety` checks the same invariants, and the run slot now holds `stack_abi`.

## Plan for the next sittings

1. ELF violation runs, for page-sharing segments and the PT_INTERP leak on a failed read (each needs a run slot).
2. A VM run for the NULL-page halt (spec §7), and one for `find_space` without wrap-around (spec §4.3).
3. Violation runs for `apic.c:34` and `exception.c:47`, if a run slot is freed.
4. Composition. The scheduler's `cr3` loads against VM's address spaces: a thread's space must not be torn down while loaded.
