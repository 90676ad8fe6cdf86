------------------------------- MODULE Kernel -------------------------------
(***************************************************************************)
(* The kernel as kernel.py puts it together: the boot pipeline and the     *)
(* module loader side by side under one profile, and what the stages of    *)
(* the pipeline do to the subsystems that KernelState.init has made.  The  *)
(* clients are the shell (boot, reboot, step, power, insmod, rmmod and the *)
(* fork it can call) and a program that registers modules and allocates    *)
(* kernel memory.                                                          *)
(*                                                                         *)
(* A stage is its course: the states the subsystems go through from its    *)
(* first call to its last.  One that raises stops somewhere on the way.    *)
(* The subsystems have here what the stages leave in them; how they go on  *)
(* is in the modules of their own, which start where a boot ends.          *)
(***************************************************************************)
EXTENDS Boot, ModuleLoader, KernelHeap

CONSTANTS
  Builtin,      \* the names of make_default_modules
  BlockSizes,   \* what is asked of kmalloc
  MaxProcess,   \* bound on the pids
  MaxHeap       \* bound on the heap, from its base

ASSUME BuiltinAssumption == Builtin \subseteq Name
ASSUME BlockSizesAssumption == BlockSizes \subseteq Nat \ {0}

VARIABLES
  profile,      \* KernelState.profile, by name
  sys           \* the subsystems, see Fresh

kernelVars == <<bootVars, vars, profile, sys>>

Profiles == {"debug", "release", "safe_mode"}

\* KernelProfile.modules_enabled.
Enables(p) == p # "safe_mode"

----------------------------------------------------------------------------
(* The subsystems.                                                         *)

NoTid == 0

\* The subsystems as init makes them: whether the features of the CPU have been
\* detected, the spaces of the VMM, the heap, the
\* threads by tid, the run queue and the current thread (tids), the process
\* table, the entries of the root directory once it is mounted, the devices
\* and the drivers in their order with the two records of a binding.
Fresh ==
  [features  |-> FALSE,
   spaces    |-> {},
   heap      |-> NewHeap,
   threads   |-> <<>>,
   runqueue  |-> <<>>,
   current   |-> NoTid,
   processes |-> [p \in {0} |-> [ppid |-> 0, state |-> "RUNNABLE", children |-> <<>>]],
   nextPid   |-> 2,
   mounted   |-> FALSE,
   entries   |-> {},
   devices   |-> [d \in {} |-> ""],
   drivers   |-> <<>>]

WithSpace(s, p) == [s EXCEPT !.spaces = @ \cup {p}]

SpawnThread(s, p, slice) ==
  [s EXCEPT !.threads = Append(@, [pid |-> p, state |-> "NEW", remaining |-> slice])]

LastTid(s) == Len(s.threads)

AddToQueue(s, tid) ==
  [s EXCEPT !.threads[tid].state = "RUNNABLE", !.runqueue = Append(@, tid)]

WithChild(process, p) == [process EXCEPT !.children = Append(@, p)]

SpawnProcess(s, parent, state) ==
  [s EXCEPT
     !.nextPid = @ + 1,
     !.processes = [p \in DOMAIN @ \cup {s.nextPid} |->
        IF p = s.nextPid THEN [ppid |-> parent, state |-> state, children |-> <<>>]
        ELSE IF p = parent THEN WithChild(@[p], s.nextPid)
        ELSE @[p]]]

----------------------------------------------------------------------------
(* The courses of the stages.  Calls in a row on one table (the entries of *)
(* the root directory, the devices, the drivers) are one step of a course. *)

\* The handoffs from the firmware and the bootloader, and the setup of the
\* timer, only log.
OnlyLogs(s) == <<s, s>>

\* What the tables of descriptors are built for is not kept; the features are.
ArchEarlyInit(s) == <<s, [s EXCEPT !.features = TRUE]>>

MemoryBringup(s) ==
  LET space  == WithSpace(s, 0)
      first  == [space EXCEPT !.heap = Kmalloc(@, 512)]
      second == [first EXCEPT !.heap = Kmalloc(@, 256)]
      freed  == [second EXCEPT !.heap = Kfree(@, space.heap.next)]
  IN  <<s, space, first, second, freed,
        [freed EXCEPT !.heap = Kfree(@, first.heap.next)]>>

DefaultSlice == 10
BootTicks    == 5

\* tick_n(5): the first thread of the queue is dispatched with a slice that
\* is longer than that.
Ticked(s) ==
  LET tid == Head(s.runqueue)
  IN  [s EXCEPT !.current = tid,
                !.threads[tid].state = "RUNNING",
                !.threads[tid].remaining = DefaultSlice - BootTicks]

\* The idle thread, which is not queued, then three kernel threads.
SchedulerStart(s) ==
  LET idle    == [SpawnThread(s, 0, 1) EXCEPT !.threads[LastTid(s) + 1].state = "RUNNABLE"]
      worker1 == SpawnThread(idle, 0, DefaultSlice)
      worker2 == SpawnThread(worker1, 0, DefaultSlice)
      worker3 == SpawnThread(worker2, 0, DefaultSlice)
      queued1 == AddToQueue(worker3, LastTid(worker1))
      queued2 == AddToQueue(queued1, LastTid(worker2))
      queued3 == AddToQueue(queued2, LastTid(worker3))
  IN  <<s, idle, worker1, worker2, worker3, queued1, queued2, queued3, Ticked(queued3)>>

RootDirs  == {"dev", "proc", "sys", "tmp", "etc", "bin", "usr", "var", "home"}
RootFiles == {"etc/version", "etc/hostname"}

Drivers == <<[name |-> "uart16550", devices |-> {"console", "tty0"}],
             [name |-> "mem_dev",   devices |-> {"null", "zero", "random"}],
             [name |-> "ahci",      devices |-> {"sda"}],
             [name |-> "ps2kbd",    devices |-> {"keyboard0"}]>>

DeviceNames ==
  {"console", "tty0", "null", "zero", "random", "timer0", "sda", "keyboard0"}

\* probe_all: the driver that lists a device, "" when none does; each driver
\* is given its devices.
DriverOf(d) ==
  LET claims == {i \in DOMAIN Drivers : d \in Drivers[i].devices}
  IN  IF claims = {} THEN "" ELSE Drivers[CHOOSE i \in claims : TRUE].name

Probed(s) ==
  [s EXCEPT !.devices = [d \in DOMAIN @ |-> DriverOf(d)],
            !.drivers = [i \in DOMAIN @ |->
               [@[i] EXCEPT !.bound = {d \in DOMAIN s.devices : DriverOf(d) = s.drivers[i].name}]]]

VfsDeviceInit(s) ==
  LET root    == [s EXCEPT !.mounted = TRUE, !.entries = {}]
      dirs    == [root EXCEPT !.entries = RootDirs]
      files   == [dirs EXCEPT !.entries = @ \cup RootFiles]
      devices == [files EXCEPT !.devices = [d \in DeviceNames |-> ""]]
      drivers == [devices EXCEPT !.drivers =
                    [i \in DOMAIN Drivers |-> [name |-> Drivers[i].name, bound |-> {}]]]
  IN  <<s, root, dirs, files, devices, drivers, Probed(drivers)>>

UserspaceInit(s) ==
  LET process == SpawnProcess(s, 0, "RUNNABLE")
      thread  == SpawnThread(process, s.nextPid, DefaultSlice)
      queued  == AddToQueue(thread, LastTid(thread))
  IN  <<s, process, thread, queued, WithSpace(queued, s.nextPid)>>

Course(stage, s) ==
  CASE stage = "ARCH_EARLY_INIT" -> ArchEarlyInit(s)
    [] stage = "MEMORY_BRINGUP"  -> MemoryBringup(s)
    [] stage = "SCHEDULER_START" -> SchedulerStart(s)
    [] stage = "VFS_DEVICE_INIT" -> VfsDeviceInit(s)
    [] stage = "USERSPACE_INIT"  -> UserspaceInit(s)
    [] OTHER                     -> OnlyLogs(s)

\* What a stage may leave.
After(result, s) ==
  LET course == Course(result.stage, s)
      end    == Len(course)
  IN  IF result.success THEN {course[end]} ELSE {course[i] : i \in 1 .. end - 1}

\* What a stage of a boot starts from, when all the stages before it have
\* succeeded.
Before(stage, s) ==
  LET arch      == Last(ArchEarlyInit(s))
      memory    == Last(MemoryBringup(arch))
      scheduler == Last(SchedulerStart(memory))
      devices   == Last(VfsDeviceInit(scheduler))
  IN  CASE stage = "MEMORY_BRINGUP"  -> arch
        [] stage \in {"INTERRUPT_TIMER_SETUP", "SCHEDULER_START"} -> memory
        [] stage = "VFS_DEVICE_INIT" -> scheduler
        [] stage = "USERSPACE_INIT"  -> devices
        [] OTHER                     -> s

\* What a run of the pipeline may leave: only the last stage of its log can
\* have failed.
AfterAll(log, s) == After(Last(log), Before(Last(log).stage, s))

----------------------------------------------------------------------------
(* Boot and reboot.                                                        *)

KernelInit ==
  /\ BootInit
  /\ modules = [n \in {} |-> NoSymbols] /\ symbols = NoSymbols
  /\ profile = "debug" /\ modulesEnabled = Enables("debug")
  /\ sys = Fresh

\* Mutants: init keeps the loader; init keeps the process table.
OldModules    == modules
WithProcesses == [Fresh EXCEPT !.processes = sys.processes, !.nextPid = sys.nextPid]

DefaultModules == [n \in Builtin |-> [dependencies |-> {}, isLoaded |-> FALSE]]
NewSystem      == Fresh

\* What init and the boot do besides Boot's: a new loader for the profile, and
\* new subsystems, taken through the stages that the log shows.
Booting(p) ==
  /\ profile' = p
  /\ modules' = DefaultModules /\ symbols' = NoSymbols /\ modulesEnabled' = Enables(p)
  /\ sys' \in AfterAll(results', NewSystem)

ShellBoot(p)   == DoBoot /\ Booting(p)
ShellReboot(p) == DoReboot /\ Booting(p)

ShellStep ==
  /\ DoStep
  /\ sys' \in After(Last(results'), sys)
  /\ UNCHANGED <<vars, profile>>

ShellPower == DoPower /\ UNCHANGED <<vars, profile, sys>>

----------------------------------------------------------------------------
(* What is done with a kernel that has been initialized.                   *)

Insmod(n) == initComplete /\ Load(n) /\ UNCHANGED <<bootVars, profile, sys>>
Rmmod(n)  == initComplete /\ Unload(n) /\ UNCHANGED <<bootVars, profile, sys>>

RegisterModule(n, deps) ==
  initComplete /\ RegisterUnloaded(n, deps) /\ UNCHANGED <<bootVars, profile, sys>>

\* The shell's syscall command, for fork: any process there is may be named.
ShellFork(p) ==
  /\ initComplete /\ p \in DOMAIN sys.processes /\ sys.nextPid <= MaxProcess
  /\ sys' = WithSpace(SpawnProcess(sys, p, "NEW"), sys.nextPid)
  /\ UNCHANGED <<bootVars, vars, profile>>

KernelAlloc(size) ==
  /\ initComplete /\ sys.heap.next + size <= HeapBase + MaxHeap
  /\ sys' = [sys EXCEPT !.heap = Kmalloc(@, size)]
  /\ UNCHANGED <<bootVars, vars, profile>>

KernelFree(addr) ==
  /\ addr \in DOMAIN sys.heap.blocks
  /\ sys' = [sys EXCEPT !.heap = Kfree(@, addr)]
  /\ UNCHANGED <<bootVars, vars, profile>>

KernelNext ==
  \/ \E p \in Profiles : ShellBoot(p) \/ ShellReboot(p)
  \/ ShellStep
  \/ ShellPower
  \/ \E n \in Name : Insmod(n) \/ Rmmod(n)
  \/ \E n \in Name, deps \in SUBSET Name : RegisterModule(n, deps)
  \/ \E p \in DOMAIN sys.processes : ShellFork(p)
  \/ \E size \in BlockSizes : KernelAlloc(size)
  \/ \E addr \in DOMAIN sys.heap.blocks : KernelFree(addr)

KernelSpec == KernelInit /\ [][KernelNext]_kernelVars

----------------------------------------------------------------------------
\* Safe mode has no modules (profiles.py:74), whatever was loaded under the
\* profiles booted before.
SafeModeLoadsNothing ==
  profile = "safe_mode" => Loaded = {} /\ DOMAIN symbols = {}

\* kmalloc hands out blocks that are aligned to 16 bytes and lie apart, through
\* boots that stop between its calls.
HeapBlocksApart == BlocksApart(sys.heap)

\* A boot that succeeds leaves the subsystems in one state, the one in which
\* Processes, ProcessMemory and Tasks start, whatever failed, was stepped or was
\* done to the kernel before: init is the first process and the child of idle, both
\* have a space, the kernel threads are queued before init's with the first
\* one running, no heap block is left, and the two records of every binding
\* agree.
Ready(s) ==
  /\ s.features
  /\ s.spaces = {0, 2} /\ DOMAIN s.heap.blocks = {}
  /\ DOMAIN s.processes = {0, 2} /\ s.nextPid = 3
  /\ s.processes[2] = [ppid |-> 0, state |-> "RUNNABLE", children |-> <<>>]
  /\ s.processes[0].children = <<2>>
  /\ s.runqueue = <<2, 3, 4, 5>> /\ s.current = Head(s.runqueue)
  /\ \A t \in DOMAIN s.threads :
       /\ s.threads[t].pid \in DOMAIN s.processes
       /\ s.threads[t].state = IF t = s.current THEN "RUNNING" ELSE "RUNNABLE"
  /\ s.mounted /\ RootDirs \cup RootFiles = s.entries
  /\ \A d \in DOMAIN s.devices, i \in DOMAIN s.drivers :
       s.devices[d] = s.drivers[i].name <=> d \in s.drivers[i].bound

BootedKernelIsReady ==
  [][booted' /\ (\E p \in Profiles : ShellBoot(p) \/ ShellReboot(p)) => Ready(sys)']_kernelVars
=============================================================================
