# ComputeKERNEL-Edu in TLA+

A verification development for `computekernel_edu`, an educational simulator of
a small monolithic kernel in Python. One Python thread runs everything: a shell
command, a boot stage or a system call runs to its end before the next begins.
The concurrency is not in the Python code but in the machine it simulates:
processes, threads, descriptors and modules act in any order on shared tables.
That is the grain of the models: one action is one whole call, with every
change of state it makes.

## The system

| component | source | state | operations | hard part |
|---|---|---|---|---|
| scheduler | scheduler.py, thread.py | run queue, blocked list, current thread, thread states, slices | add, remove, block, wake, tick | order of calls between ticks, edges of slices, starvation |
| processes | process.py, syscall.py | process table, pid allocator, children lists | spawn, fork, exit, wait4, remove | reuse of pids, orphans, zombies |
| frames and spaces | memory.py, elfloader.py | page frames and owners, areas of each space | alloc, free, map, unmap, create, destroy, ELF load | running out half way, leaks |
| memory calls | syscall.py | breaks, kept by pid | mmap, munmap, brk, fork | state that outlives the process of its pid |
| kernel heap | memory.py | a bump pointer and the blocks handed out | kmalloc, kfree | rounding, a boot that stops between the two |
| modules | module_loader.py, profiles.py | registry, loaded flags, symbol table | register, load, unload | order of dependencies, shared symbols |
| boot and power | boot.py, kernel.py, power.py | stage index, log, booted flags, power state | run_all, step, init, reboot, transitions | a stage that fails, a second boot |
| VFS | vfs.py, fs_tmpfs.py, fs_ext2.py, syscall.py | mounts, inodes and the numbers of each filesystem, open files, descriptor tables | open, read, write, close, mkdir, create, mount | positions, descriptors of dead processes, mounts, the numbers of an ext2 volume |
| devices | device.py, driver.py | two registries, bindings kept twice | register, unregister, bind, remove, probe | the two records of a binding |
| IPC | ipc.py | pipes and their descriptors, signal tables | create, write, read, close; send, block, take | full buffers, masks |
| shell | shell.py | none of its own | one command per operation | |

The components share state in few places. `boot.py` builds all of them and
leaves them ready for the first process. The system call dispatcher
joins the process table to the address spaces, the breaks and the descriptor
tables. The scheduler works on `Thread` objects only; nothing after the boot
joins it to processes. Pipes and files draw their descriptors from two counters over one
range of numbers.

## Modules

| module | what it is |
|---|---|
| `TaskLifecycle` | abstract: what the life cycle of a task promises a thread, without queue and slices |
| `Scheduler` | scheduler.py, with two clients: `Next`, the one the repository has (a thread is added once, fresh, and never removed), and `ApiNext`, every public method at any time |
| `SchedulerWait` | Scheduler with the number of ticks each queued thread has waited |
| `Processes` | process.py with fork, exit and wait4 |
| `ProcessLineage` | Processes with the true parent of each process remembered |
| `Memory` | page frames and address spaces, and the ELF loader |
| `ProcessMemory` | extends `Memory` with `Processes`, under fork, exit, wait4, mmap, munmap and brk |
| `Tasks` | composes `Scheduler` and `Processes` as the boot leaves them: threads with the pids of processes, driven by the shell |
| `ModuleLoader` | module_loader.py |
| `Boot` | boot pipeline, kernel state, power manager, and the shell commands that drive them |
| `KernelHeap` | kmalloc and kfree, as operators on a heap |
| `Kernel` | composes `Boot`, `ModuleLoader` and `KernelHeap` under a profile, with what each stage of the boot does to all the subsystems, call by call |
| `FsOps` | what one filesystem does, a tmpfs or an ext2 volume, as operators on its inode table |
| `Files` | vfs.py over several filesystems of `FsOps`, with the file system calls |
| `Devices` | device.py and driver.py; a probe function claims a device, refuses it or raises, anew at each probe |
| `DeviceProbing` | Devices with the drivers that claimed each device when it was probed |
| `Pipes`, `Signals` | the two halves of ipc.py |
| `Ipc` | composes the two, as IpcManager holds both |
| `Lists` | a list without some elements: the list comprehensions of the code, by a recursive function |
| `ListLemmas` | what is proved about lists and numbers for all of the components |
| `SchedulerProofs`, `ProcessProofs`, `MemoryProofs` (with `ProcessMemory`), `FilesProofs`, `DeviceProofs`, `IpcProofs`, `KernelProofs` (with `Boot` and `ModuleLoader`) | theorems |
| `MC*` | small instances |

Variables carry the name of the field they model, in a comment beside their
declaration; actions carry the name of the method or of the system call. A call
that returns early and changes nothing is a stuttering step and has no action.
Definitions marked "Mutant" are deliberate mistakes, used to see that a property
notices them; nothing else refers to them.

What is abstracted: contents of a file are short sequences, a byte in a pipe is
its position in the stream, an inode has no mode and no owner, a process has no
name and no credentials. Names of paths are elements of a small set and a path
is the sequence of them. Statistics, log messages, wait reasons and exit codes
are left out, for no modelled call decides anything on them.

A stage of the boot in `Kernel` is its course, the sequence of states that the
subsystems go through; a stage that raises stops at one of them. Calls in a row
that fill one table, such as the nine directories of the root, are one step of
the course. The subsystems have in `Kernel` what the boot leaves in them, and
`BootedKernelIsReady` says that this is what `Processes`, `ProcessMemory` and
`Tasks` start from. `Scheduler` and `Devices` start empty, with the calls of the
boot among their steps, and `Files` with a root that has no directories yet.
How the subsystems go on is in those modules.

## Runs

Nine runs pass and three find a disagreement. Each finishes within three minutes.

| run | question | distinct states |
|---|---|---|
| `scheduler` | Do the lists, the states and current_thread agree; does nobody overtake; does the scheduler implement `TaskLifecycle`, with its promise that a ready thread runs; how long can one wait? | 2913 |
| `scheduler_api` | What is still true when every method may be called at any time: slices, no sleeping thread on the CPU, no idling while someone is queued, nothing forgotten. | 3488 |
| `scheduler_slice_doc` | Does a ready thread with a slice of one tick ever run? It may not. | violated |
| `processes` | Are pids conserved, is each process the child of the process that forked it and of nobody else, do only zombies leave, and are zombies reaped? | 2574 |
| `tasks_zombie_doc` | Is a process that has exited given no CPU? Its threads are. | violated |
| `memory` | Are the frames charged those of the areas added, has a process ever more mapped than it was charged, does a frame change hands, does an area mapped over another change what an access may do? | 44140 |
| `process_memory` | Do heap areas stay apart, and does the composition go through the steps of `Processes`? | 427474 |
| `fork_fresh_doc` | Does a forked process start with a fresh break? Not if its pid was used before. | violated |
| `kernel` | From the shell, under three profiles: is a kernel that says it is booted booted, in one and the same state, whatever failed before; do dependencies stay loaded and can all modules be unloaded; is the symbol table exact; is safe mode without modules; do heap blocks lie apart? | 136081 |
| `files` | Are descriptors private, positions inside files, writes where the position was, directories a tree that loses nothing, on tmpfs and on an ext2 volume, and does the longest mountpoint win in whatever order filesystems are mounted? | 949983 |
| `devices` | Do the two records of a binding agree, and is a device that was probed with the earliest of the drivers that claimed it, for as long as it is bound? | 5884 |
| `ipc` | Are streams and signals in order, is anything lost other than by a full pipe, do the unblockable signals arrive? | 162357 |

### Bounds

- Scheduler: three threads with slices 2, 3 and 2, so that a slice spans ticks,
  the rotation has a middle and two threads can change the order behind a
  third. The API run has two threads, one with a slice of one tick, and at
  most four entries in the two lists (`MaxEntries`), so that a thread can be
  listed three times.
- Processes: pids up to 4. Below init there is room for a child and a
  grandchild, so that an orphan outlives its parent and a freed pid is reused.
- Memory: six frames of two bytes, two processes, eight areas (`MaxAreas`). An
  image takes five frames, so a second one is loaded in part. Sizes are none,
  one page and one and a half, and mappings may overlap with other flags.
- ProcessMemory: pids up to 3 (one process that dies and whose pid is used
  again), four frames, five areas. The fixed addresses keep their order.
- Tasks: the four threads the boot queues, with the slices it gives them, and
  room for one process besides init.
- Kernel: two modules, one of them built in, so that there are chains, cycles, a
  module that needs itself and a dependency nobody registered. The eight stages
  of the code, of which two may fail: the one in the middle of whose calls a
  heap block is in use, and the last one, after which no stage is left. Blocks
  of 505 bytes, which 16 does not divide; a heap of 1300 (`MaxHeap`) has room
  for the two blocks of the boot and one more, or for two more after one of them. `MaxProcess` is 2, so that a
  fork before the last stage takes the pid meant for init.
- Files: two processes, two tmpfs and an ext2 volume, two open calls (`MaxFd`),
  three inodes each (`MaxIno`), two bytes (`MaxLen`). One file can be open twice by two
  processes. Two filesystems are mounted besides the root, so that a mountpoint
  may be mounted before one that is above it, behind it, or at the same place. Nothing
  tells the two processes apart but their names, which makes them symmetric.
  A write of one or two bytes begins at, before or behind the last byte. Reads
  are of one byte: a longer one moves the position as several of them do.
- Devices: three drivers, two of which may claim the same device, each probe
  with its own outcome every time, and a device that nobody claims.
- Ipc: two pipes with a buffer of two bytes that are sent three, up to two at a
  time, and a process that is sent two signals.

The code has none of the bounds on counters (`MaxPid`, `MaxProcess`,
`MaxAreas`, `MaxHeap`, `MaxFd`, `MaxIno`, `MaxLen`, `MaxPipes`, `MaxBytes`,
`MaxSignals`, `MaxEntries`); they
are guards or parts of guards and cut calls off, so that no action is taken
that the code would not take. The waiting counter of `SchedulerWait` stops one
behind the value it is compared with. Deadlock is checked in every run.

### Clients

Some properties hold only for the way the repository uses a component, and the
client is then part of the module: threads are added once (`AddFresh`), modules
are registered while they are not loaded, filesystems are mounted while no file
is open, a driver is bound to a device that is free and removed from the device
it is bound to, devices leave unbound and drivers without devices. What the
code does outside these is in the list of disagreements below.

### Fairness

- Weak fairness of `Tick` in `Scheduler` and of the tick in `SchedulerWait`:
  the timer goes on (the user types `tick`, or `tick_n` loops). Nothing is
  assumed of threads blocking and waking.
- Weak fairness of `wait4` of each process in `ProcessLineage`, for
  `ZombiesAreReaped` only: an assumption on the program a process runs, not on
  the kernel. Without it a zombie may stay for ever, as it should.

### How deep the properties go

Each property of a passing run has a mutant, a plausible mistake in a mapped
definition that makes TLC report it. `ImplementsLifecycle` and
`ImplementsProcesses` are refinements: every step of the detailed module is a
step of the abstract one or leaves its variables alone. `ChildrenAreForked`,
`ReapedByForker`, `BoundedWait`, `KillsArrive`, `TakenInOrder`, `BytesInOrder`
and `EarliestClaimerHasIt` compare the state with history variables the code does not have.

## Theorems

All of these hold for every value of the constants under the assumptions the
modules name; those that a reader may want to question are listed below.

| theorem | states | argument |
|---|---|---|
| `SchedulerSafe` | types, no duplicates, lists agree with states, one RUNNING thread, at the head | `SchedInv`, their conjunction: none of the four is inductive alone, since `tick` relies on the current thread being the head and blocking on the thread being in one list |
| `ListsAgree` | the queue and the sleepers are the threads whose states say so, each once | from `SchedInv` |
| `NeverIdlesWithWork` | a tick leaves a thread on the CPU while one is queued, under all methods | from the types: a list without one element of several is not empty |
| `NothingElseForgets` | only `remove_thread` takes a thread out of both lists, under all methods | what removing the first occurrence leaves of a list in which a thread may be many times |
| `SlicesBounded` | remaining ticks stay in 1 .. slice, under all methods | with the types: what is renewed is renewed in the tick that exhausts it, whatever duplicates the lists have |
| `AwakeOnCpu` | the current thread is not asleep, under all methods | with the types; it does not need the lists to be free of duplicates |
| `QueueIsFair` | nobody overtakes | what appending and removing the first occurrence do to the threads ahead |
| `WaitIsBounded` | a thread waits at most for the slices of all others | `WaitInv`: what it has waited, with the ticks that the threads ahead of it may still use, is at most that. Both sums are cardinalities of sets of ticks, pairs of a thread and a number, so that a step moves elements from one set to the other |
| `ImplementsLifecycleSafely` | the scheduler's steps are steps of `TaskLifecycle` | under `SchedInv`, one action at a time |
| `ProcessTableSafe` | types, pids conserved, children are kin | `TableInv`, their conjunction: a pid handed out is fresh only as pids are conserved, and a child may be removed from its parent only as the lists are sound |
| `OnlyZombiesAreReaped` | only zombies leave, one at a time | from `TableInv` |
| `ChildrenAreItsOwn` | the children in the record are those the process forked itself | `LineageInv`: `TableInv`, and that nobody living was forked by a process that is gone. Without that a child of the dead could pass for one of the next owner of the pid |
| `ReapedByItsForker` | wait4 reaps for the forker only | from `LineageInv` |
| `MemorySafe` | a process has no more pages mapped than frames charged, but for its three free areas; frames in use have a space | `FrameInv`, the types of areas and the inequality itself. Mapping adds as much on both sides, an image as often as its mappings succeed. Unmapping leaves fewer pages, since the areas that stay come one by one from areas that were there |
| `FramesStayWithOwner` | no frame changes hands, also with the operations only tests call | the frames an allocation takes are unused |
| `FramesPaidFor` | the frames charged are the pages of the areas added | a search for n unused frames takes exactly n, by induction; as many pages begin in an area as its size rounded up; and what mappings cost adds up, so that an image costs what its mapped parts do. Of the state only the types are needed |
| `MappingOverIsInert` | mapping over an area changes no answer about what was mapped | areas are added behind the others, and the first area that has an address decides |
| `ProcessesImplemented` | `ProcessMemory` takes the steps of `Processes` | a mapping, successful or not, gives no process a space and takes none; no invariant is needed |
| `HeapsAreApart` | the areas of a heap do not overlap and end below the break | `HeapInv`: the break of every pid, living or not, is in the heap, and the areas in the heap are in their order. The areas alone would not do: a space made anew for a reused pid meets the break of the dead |
| `LoaderSafe` | dependencies stay loaded, nothing is loaded when disabled | `LoaderInv`: types, both statements |
| `LoaderNeverStuck` | as long as modules are loaded, one can be unloaded | the loaded modules can be put in an order in which each needs earlier ones only; the invariant says of every set of them that it has a member the others do not need |
| `SymbolTableExact` | the symbol table is exact, if no two modules export the same | types and exactness together |
| `BootSafe` | the log is in order; booted means all succeeded | `BootInv`: the index is one behind the log, so a booted kernel has no stage left to step to |
| `KernelImplementsBoot`, `KernelImplementsLoader` | `Kernel` implements `Boot` and `ModuleLoader` | one action at a time; a boot under any profile is a `NewLoader` |
| `KernelSafe` | what is proved of the two parts holds in the kernel, and safe mode has no modules | the two refinements, and that the flag of the loader is that of the profile |
| `HeapSafe` | heap blocks are aligned and apart, for any sizes and through failing boots | `HeapSound` of every state in the course of every stage, as a boot may stop at any of them |
| `BootsAreReady` | a boot that succeeds leaves the subsystems in the state that `Processes`, `ProcessMemory` and `Tasks` start from | the log of such a boot has all stages, from new subsystems on; then what each stage does to which fields, one after the other |
| `FilesInvariant` | the invariant of the VFS that the next seven rest on | `FilesInv`: types, the numbers each filesystem hands out, the mounts sorted by length with the root among them, descriptors below the next one and in one table each, open files on inodes there are |
| `DescriptorsPrivate`, `PositionsStayInFiles` | no descriptor is shared or handed out again; positions stay inside files | from `FilesInv`; files only grow, and only the writer's position moves |
| `TreesAreSound`, `EntriesAreKept` | directories form a tree and lose nothing | a new inode is nobody's entry, as the numbers only rise. On an ext2 volume the first inode created replaces the root instead; until more are made, the root is all there is (`Single`), a case of its own in the invariant |
| `LongestMountsWin` | a path leads to the longest mountpoint above it | the mounts are sorted by length, the first that is a prefix of the path is taken, and the root, a prefix of every path, is among them |
| `OthersNeverMove`, `WritesLandAtPosition` | a call moves one position and writes where it was | from `FilesInv`, what writing does to the bytes before, at and behind a position |
| `TypeCorrect`, `BindingsSafe` | the two records of a binding agree | types and agreement together |
| `ProbingOrderLasts` | the driver a probed device has registered before all others that claimed it | with the invariants above: that there is a first one is proved by well-foundedness of the naturals, a driver that registers goes behind it, one that leaves moves those behind it up, and the one bound cannot leave |
| `SignalsInOrder` | no accepted signal is lost, doubled or overtaken | what was taken, then what is pending, is what was accepted |
| `KillsAlwaysArrive` | every SIGKILL and SIGSTOP was taken or is pending | `KillInv`: they are counted in what was accepted, which blocking does not touch |
| `StreamInOrder` | the reader gets the stream in order, up to its end | `PipeSound`: received and buffered bytes rise, the first lie below the second, none is newer than the last one sent. The buffer alone would not do, since a byte that was read must not come again |
| `LossIsVisible` | bytes are lost only in a step that leaves the buffer full | the lengths in the same lemmas |

`ListLemmas` has what the library does not: what `RemoveFirst` does to a
sequence, with repetitions and without, that appending and taking the tail keep
one without; that numbers a set of naturals has a first one, and induction over
the naturals, both stated with sets; that a recursive function over the
naturals has the values its definition says, from which follows what `Without`
leaves of a list of any length. It is where the run queue, the children lists,
the free pids, the areas of a space and the pending signals meet.

The assumptions beyond the types of the constants: there are finitely many
threads (`FewThreads`, only for the bound on waiting). The fixed addresses of a
space lie outside the heap, as 0x400000, 0x600000 and 0x7fff00000000 do, and so do the
hints given to mmap (`HeapAssumption`): no caller in the repository gives one.
The paths are sequences of names and the contents of files are bytes
(`FilesAssumption`). Two modules of the catalogue export nothing in common (a
hypothesis of `SymbolTableExact`).

Every safety invariant and every action property of the passing runs is stated
by a theorem. Only model-checked is what is liveness, which the prover does not
reach: that a ready thread runs (`ImplementsLifecycle` beyond its steps) and
that zombies are reaped (`ZombiesAreReaped`).

## Where the code and its documentation disagree

Three are runs. `scheduler_slice_doc`: `tick()` charges the tick that dispatches a
thread on a free CPU, so that a slice of one tick is over in the call that
began it; a rival that blocks and wakes between the turns keeps the thread from
ever being RUNNING. `fork_fresh_doc`: `_brk` is kept by pid and nothing clears
it, so a process with a reused pid inherits the break of the dead one.
`tasks_zombie_doc`: a ZOMBIE has "exited" (process.py:33), but `_sys_exit`
(syscall.py:369) touches no thread, and tick() goes on to dispatch those of the
process.

The others were met while modelling and confirmed with TLC on the operations
concerned. They explain the clients above.

- `add_thread` looks for the thread in the run queue only (scheduler.py:61). One
  that sleeps is queued, `wake_thread` queues it again, and `block_thread`
  removes one of the copies although "the task removes itself from the run
  queue" (scheduler.py:71).
- `remove_thread` (scheduler.py:67) leaves the state: a removed thread stays
  RUNNING (process.py:30, "currently executing on a CPU") when another has the
  CPU.
- Nobody reparents orphans (process.py:210): their ppid comes to name whoever
  reuses the pid.
- init is "PID 1" (boot.py:458) and the allocator starts at 2 (process.py:135).
- `destroy_address_space` is "freeing all pages" (memory.py:194) and frees none.
- `unmap` removes "the VMA" at an address (memory.py:142), and all of them if
  there are several.
- The loader sets up a stack "if not already present" (elfloader.py:100) without
  looking; the space has one already.
- `brk` returns the current break on failure (syscall.py:282), but moves it
  (syscall.py:289).
- `register` replaces a loaded module by one that is not (module_loader.py:53)
  under the modules that need it.
- `unload` drops a symbol that another loaded module exports too
  (module_loader.py:115).
- Safe mode promises "minimal drivers" (profiles.py:74), and its boot registers
  and probes all of them: nobody calls `check_driver_load` or
  `check_module_load` of safe_mode.py.
- The BSS of an image starts where the heap of `brk` begins (syscall.py:284), so
  that their areas overlap, and an access is judged by the first of them
  (memory.py:148).
- A pipeline stepped to its end is not `is_booted` (boot.py:170, :203).
- `run_all` after a failure starts behind the stage that failed (boot.py:209)
  and returns True, "if all succeed" (boot.py:185).
- After a shutdown "Type 'reboot' to restart" (shell.py:470); suspend and resume
  do it too (power.py:42).
- An ext2 volume's root "is always inode 2" (fs_ext2.py:67), and so is the first
  inode it creates (fs_ext2.py:59), which replaces the root.
- read and write look up the filesystem by path (vfs.py:283): after a mount over
  the path, the descriptor leads to another file.
- A second mount at a path is never reached (vfs.py:179), whatever vfs.py:172
  says.
- Opening a missing file for writing is refused (vfs.py:225) before the code
  that should "create file if not exists" (vfs.py:233).
- An unregistered driver stays bound (driver.py:69), and `remove` takes a device
  from a driver it was not asked about (driver.py:124).
- A full pipe drops its oldest bytes and reports the full count (ipc.py:49),
  where "write blocks when full" (ipc.py:35) in the kernel it models.
- Pipe descriptors start at 100 "to avoid collision" (ipc.py:118); the 98th open
  returns 100.
- The pending signals are a list, not a "set" (ipc.py:74, :89), and a signal that
  was pending when it was blocked is delivered (ipc.py:98).
- Nothing creates a signal table for a process (ipc.py:151), so that the shell's
  signals find none.

## Not modelled

- The logger, the console, the panic report, the teaching texts, the roadmap
  and the formatting helpers hold no state that another component reads, or
  only print. Of the architecture model only the one flag is kept that a later
  boot can see; its descriptor tables are built for the log.
- The permission checks of `security.py` and the checks of `safe_mode.py` are
  predicates that nobody calls.
- getpid, nanosleep, kill and execve of syscall.py change no state but the log.
- Removing threads, and with it the reuse of tids: no code does it. Register
  contexts are displayed only.
- A second `init` or `boot` on a `KernelState` that has had one (`kmain` makes a
  new one), and hibernate and reboot of the power manager, whose effects its
  successor hides.
- Descriptors of files that reach those of pipes after 97 opens (ipc.py:118):
  the two counters are in `Files` and `Pipes`, which do not share one table in
  the code either.
- Symbolic links and device nodes of tmpfs, block groups of ext2: the program
  makes none and changes none.

## Plan

Done, in this order: the scheduler with its abstract life cycle and theorems;
processes and their lineage; memory and the composition of the two; modules and
boot; files; devices; IPC; the kernel as a whole with its heap, profiles and
the courses of the stages; tasks; ext2 as a second kind of filesystem; the
refinements and the orders of IPC proved;
the invariants of memory, of the VFS and of signals proved, with the bound on
waiting, the cost of a mapping and the state after a boot.

What is left would be an abstract specification of an open file as a byte array
with a position, implemented by `Files`, and one of a pipe as a queue of bytes
that drops its oldest, implemented by `Pipes`.
