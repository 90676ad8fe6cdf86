---------------------------- MODULE KernelProofs ----------------------------
(***************************************************************************)
(* Theorems about Boot and ModuleLoader, and about Kernel, which           *)
(* implements both, so that what is proved of them holds of it: for every  *)
(* catalogue of modules, whichever stages fail, and whatever is asked of   *)
(* the heap.  A boot that succeeds is followed through all of its stages.  *)
(***************************************************************************)
EXTENDS Kernel, SequenceTheorems, TLAPS

----------------------------------------------------------------------------
(* The boot machinery.                                                     *)

\* The index is one behind the log, which is why no stage is left to step to
\* once the kernel is booted.
BootInv == BootTypeOK /\ LogIsOrdered /\ BootedMeansAllSucceeded

----------------------------------------------------------------------------
LEMMA StagesFacts ==
  /\ Len(Stages) = 8 /\ DOMAIN Stages = 1 .. 8
  /\ \A i \in 1 .. 8 : Stages[i] \in ToSet(Stages)
BY DEF Stages, ToSet

\* A whole run of the pipeline logs the stages from the first to the last one
\* that ran; when it succeeds they are all there.
LEMMA BootFacts ==
  ASSUME InitAndBoot
  PROVE  BootInv'
<1>1. PICK ok \in BOOLEAN : RunAll(1, <<>>, ok) /\ RecordBoot(ok)
  BY DEF InitAndBoot, Start
<1>2. PICK last \in 0 .. 8 :
        /\ ok => last = 8
        /\ stageIndex' = last + 1
        /\ results' = <<>> \o [i \in 1 .. last - 1 + 1 |->
                                 ResultOf(1 + i - 1, ok \/ 1 + i - 1 < last)]
  BY <1>1, StagesFacts DEF RunAll
<1> DEFINE log == [i \in 1 .. last |-> ResultOf(i, ok \/ i < last)]
<1>3. log \in Seq(Result) /\ Len(log) = last
  <2>1. \A i \in 1 .. last : ResultOf(i, ok \/ i < last) \in Result
    BY StagesFacts DEF ResultOf, Result
  <2> QED BY <2>1
<1>4. results' = log
  <2>1. [i \in 1 .. last - 1 + 1 |-> ResultOf(1 + i - 1, ok \/ 1 + i - 1 < last)] = log
    OBVIOUS
  <2> QED BY <1>2, <1>3, <2>1
<1>5. BootTypeOK'
  BY <1>1, <1>2, <1>3, <1>4, StagesFacts DEF BootTypeOK, RecordBoot, InitAndBoot, PowerStates
<1>6. LogIsOrdered'
  BY <1>4 DEF LogIsOrdered, ResultOf
<1>7. BootedMeansAllSucceeded'
  <2>1. ok => log = [i \in 1 .. 8 |-> ResultOf(i, TRUE)]
    BY <1>2
  <2> QED BY <1>1, <1>4, <2>1, StagesFacts DEF BootedMeansAllSucceeded, RecordBoot
<1> QED BY <1>5, <1>6, <1>7 DEF BootInv

\* Through the shell the kernel says it is booted only when every stage has
\* succeeded in its order: shell boot, reboot, step and power commands in any
\* order, with any stages failing.
THEOREM BootSafe == BootSpec => [](LogIsOrdered /\ BootedMeansAllSucceeded)
<1>1. BootInit => BootInv
  <2> SUFFICES ASSUME BootInit PROVE BootInv
    OBVIOUS
  <2>1. results = <<>> /\ stageIndex = 1 /\ booted = FALSE
    BY DEF BootInit
  <2>2. results \in Seq(Result) /\ Len(results) = 0
    BY <2>1
  <2>3. BootTypeOK
    <3>1. stageIndex = Len(results) + 1 /\ stageIndex <= Len(Stages) + 1
      BY <2>1, <2>2, StagesFacts
    <3>2. initComplete \in BOOLEAN /\ booted \in BOOLEAN /\ pipelineBooted \in BOOLEAN
      BY DEF BootInit
    <3>3. power \in PowerStates
      BY DEF BootInit, PowerStates
    <3> QED BY <2>2, <3>1, <3>2, <3>3 DEF BootTypeOK
  <2>4. LogIsOrdered
    BY <2>1 DEF LogIsOrdered
  <2> QED BY <2>1, <2>3, <2>4 DEF BootInv, BootedMeansAllSucceeded
<1>2. BootInv /\ [BootNext]_bootVars => BootInv'
  <2> SUFFICES ASSUME BootInv, [BootNext]_bootVars PROVE BootInv'
    OBVIOUS
  <2>1. CASE DoBoot \/ DoReboot
    BY <2>1, BootFacts DEF DoBoot, DoReboot
  <2>2. CASE DoStep
    <3>1. PICK ok \in BOOLEAN :
            results' = Append(results, ResultOf(stageIndex, ok))
      BY <2>2 DEF DoStep, KernelStep
    <3>2. /\ stageIndex \in 1 .. 8 /\ stageIndex' = stageIndex + 1
          /\ UNCHANGED <<initComplete, booted, pipelineBooted, power>>
      BY <2>2, StagesFacts DEF DoStep, KernelStep, BootInv, BootTypeOK
    <3>3. results \in Seq(Result) /\ stageIndex = Len(results) + 1
      BY DEF BootInv, BootTypeOK
    <3>4. ResultOf(stageIndex, ok) \in Result
      BY <3>2, StagesFacts DEF ResultOf, Result
    <3>5. BootTypeOK'
      BY <3>1, <3>2, <3>3, <3>4, StagesFacts DEF BootInv, BootTypeOK
    <3>6. LogIsOrdered'
      BY <3>1, <3>3, <3>4 DEF BootInv, LogIsOrdered, ResultOf
    <3>7. ~booted
      <4>1. booted => DOMAIN results = 1 .. 8
        BY StagesFacts DEF BootInv, BootedMeansAllSucceeded
      <4>2. DOMAIN results = 1 .. Len(results) /\ Len(results) \in Nat
        BY <3>3
      <4>3. Len(results) < 8
        BY <3>2, <3>3, <4>2
      <4>4. booted => 8 \in 1 .. Len(results)
        <5>1. 8 \in 1 .. 8
          OBVIOUS
        <5> QED BY <4>1, <4>2, <5>1
      <4> QED BY <4>2, <4>3, <4>4
    <3> QED BY <3>2, <3>5, <3>6, <3>7 DEF BootInv, BootedMeansAllSucceeded
  <2>3. CASE DoPower
    <3>1. /\ power' \in PowerStates
          /\ UNCHANGED <<initComplete, booted, stageIndex, results, pipelineBooted>>
      BY <2>3 DEF DoPower, DoShutdown, DoSuspend, DoResume, SetPower, pipeline, PowerStates
    <3> QED BY <3>1 DEF BootInv, BootTypeOK, LogIsOrdered, BootedMeansAllSucceeded
  <2>4. CASE UNCHANGED bootVars
    BY <2>4 DEF bootVars, pipeline, BootInv, BootTypeOK, LogIsOrdered, BootedMeansAllSucceeded
  <2> QED BY <2>1, <2>2, <2>3, <2>4 DEF BootNext
<1> QED BY <1>1, <1>2, PTL DEF BootSpec, BootInv

----------------------------------------------------------------------------
(* The module loader.                                                      *)

\* The invariants support each other: that a module may leave without taking
\* the symbols of another needs the table to name the right owners.
LoaderInv == TypeOK /\ DepsLoaded /\ DisabledLoadsNothing
TableInv  == TypeOK /\ SymbolsMatch

----------------------------------------------------------------------------
\* What load and unload do to the pool and to the loaded modules.
LEMMA LoadFacts ==
  ASSUME TypeOK, NEW n \in Name, Load(n)
  PROVE  /\ TypeOK' /\ Available' = Available
         /\ Loaded' = Loaded \cup {n} /\ n \notin Loaded
         /\ \A m \in Available : modules'[m].dependencies = modules[m].dependencies
         /\ modules[n].dependencies \subseteq Loaded
<1> USE DEF TypeOK, Available, Module
<1>1. /\ modules' = [modules EXCEPT ![n].isLoaded = TRUE]
      /\ n \in DOMAIN modules /\ n \notin Loaded
      /\ modules[n].dependencies \subseteq Loaded
  BY DEF Load, DepsAreLoaded
<1>2. /\ modules' \in [DOMAIN modules -> Module] /\ DOMAIN (modules') = DOMAIN modules
      /\ \A m \in DOMAIN modules :
           /\ modules'[m].dependencies = modules[m].dependencies
           /\ modules'[m].isLoaded = (m = n \/ modules[m].isLoaded)
  BY <1>1
<1>3. Loaded' = Loaded \cup {n}
  BY <1>1, <1>2 DEF Loaded
<1>4. /\ DOMAIN (symbols') \subseteq Symbol
      /\ \A s \in DOMAIN (symbols') : symbols'[s] \in Name
      /\ modulesEnabled' \in BOOLEAN
  BY ExportsAssumption DEF Load
<1> QED BY <1>1, <1>2, <1>3, <1>4

LEMMA UnloadFacts ==
  ASSUME TypeOK, NEW n \in Name, Unload(n)
  PROVE  /\ TypeOK' /\ Available' = Available
         /\ Loaded' = Loaded \ {n} /\ n \in Loaded
         /\ \A m \in Available : modules'[m].dependencies = modules[m].dependencies
         /\ \A m \in Loaded : n \notin modules[m].dependencies
<1> USE DEF TypeOK, Available, Module
<1>1. /\ modules' = [modules EXCEPT ![n].isLoaded = FALSE]
      /\ n \in DOMAIN modules /\ n \in Loaded
      /\ \A m \in Loaded : n \notin modules[m].dependencies
  BY DEF Unload, Needed, Loaded
<1>2. /\ modules' \in [DOMAIN modules -> Module] /\ DOMAIN (modules') = DOMAIN modules
      /\ \A m \in DOMAIN modules :
           /\ modules'[m].dependencies = modules[m].dependencies
           /\ modules'[m].isLoaded = (m # n /\ modules[m].isLoaded)
  BY <1>1
<1>3. Loaded' = Loaded \ {n}
  BY <1>1, <1>2 DEF Loaded
<1>4. /\ DOMAIN (symbols') \subseteq Symbol
      /\ \A s \in DOMAIN (symbols') : symbols'[s] \in Name
      /\ modulesEnabled' \in BOOLEAN
  BY DEF Unload, SymbolsWithout, Restrict
<1> QED BY <1>1, <1>2, <1>3, <1>4

\* Registering a module that is not loaded leaves the loaded ones alone.
LEMMA RegisterFacts ==
  ASSUME TypeOK, NEW n \in Name, NEW deps \in SUBSET Name, RegisterUnloaded(n, deps)
  PROVE  /\ TypeOK' /\ Loaded' = Loaded /\ UNCHANGED <<symbols, modulesEnabled>>
         /\ \A m \in Loaded : modules'[m].dependencies = modules[m].dependencies
<1> USE DEF TypeOK, Available, Module
<1>1. /\ modules' = [m \in DOMAIN modules \cup {n} |->
           IF m = n THEN [dependencies |-> deps, isLoaded |-> FALSE] ELSE modules[m]]
      /\ n \notin Loaded /\ UNCHANGED <<symbols, modulesEnabled>>
  BY DEF RegisterUnloaded, Register
<1>2. modules' \in [DOMAIN (modules') -> Module] /\ DOMAIN (modules') \subseteq Name
  BY <1>1
<1>3. Loaded' = Loaded
  BY <1>1 DEF Loaded
<1>4. \A m \in Loaded : modules'[m].dependencies = modules[m].dependencies
  BY <1>1 DEF Loaded
<1> QED BY <1>1, <1>2, <1>3, <1>4

LEMMA CatalogueFacts ==
  ASSUME NEW m \in Catalogues
  PROVE  /\ DOMAIN m \subseteq Name /\ m \in [DOMAIN m -> Module]
         /\ {n \in DOMAIN m : m[n].isLoaded} = {}
<1>1. PICK R \in SUBSET Name : m \in [R -> [dependencies : SUBSET Name, isLoaded : {FALSE}]]
  BY DEF Catalogues
<1> QED BY <1>1 DEF Module

LEMMA InitFacts == Init => TypeOK /\ Loaded = {} /\ DOMAIN symbols = {}
<1> SUFFICES ASSUME Init PROVE TypeOK /\ Loaded = {} /\ DOMAIN symbols = {}
  OBVIOUS
<1>1. DOMAIN symbols = {}
  BY DEF Init, NoSymbols
<1>2. /\ DOMAIN modules \subseteq Name /\ modules \in [DOMAIN modules -> Module]
      /\ {n \in DOMAIN modules : modules[n].isLoaded} = {}
  BY CatalogueFacts DEF Init
<1> QED BY <1>1, <1>2 DEF Init, TypeOK, Available, Loaded

LEMMA NewLoaderFacts ==
  NewLoader => TypeOK' /\ Loaded' = {} /\ DOMAIN (symbols') = {}
<1> SUFFICES ASSUME NewLoader PROVE TypeOK' /\ Loaded' = {} /\ DOMAIN (symbols') = {}
  OBVIOUS
<1>1. DOMAIN (symbols') = {}
  BY DEF NewLoader, NoSymbols
<1>2. /\ DOMAIN (modules') \subseteq Name /\ modules' \in [DOMAIN (modules') -> Module]
      /\ {n \in DOMAIN (modules') : modules'[n].isLoaded} = {}
  BY CatalogueFacts DEF NewLoader
<1> QED BY <1>1, <1>2 DEF NewLoader, TypeOK, Available, Loaded

LEMMA LoaderInvariant == Spec => []LoaderInv
<1>1. Init => LoaderInv
  BY InitFacts DEF LoaderInv, DepsLoaded, DisabledLoadsNothing
<1>2. LoaderInv /\ [Next]_vars => LoaderInv'
  <2> SUFFICES ASSUME LoaderInv, [Next]_vars PROVE LoaderInv'
    OBVIOUS
  <2>1. ASSUME NEW n \in Name, Load(n) PROVE LoaderInv'
    <3>1. /\ TypeOK' /\ Available' = Available /\ Loaded' = Loaded \cup {n}
          /\ \A m \in Available : modules'[m].dependencies = modules[m].dependencies
          /\ modules[n].dependencies \subseteq Loaded
      BY <2>1, LoadFacts DEF LoaderInv
    <3>2. n \in Available /\ Loaded \subseteq Available /\ modulesEnabled /\ modulesEnabled'
      BY <2>1 DEF Load, LoadingAllowed, Loaded
    <3>3. DepsLoaded'
      BY <3>1, <3>2 DEF LoaderInv, DepsLoaded
    <3> QED BY <3>1, <3>2, <3>3 DEF LoaderInv, DisabledLoadsNothing
  <2>2. ASSUME NEW n \in Name, Unload(n) PROVE LoaderInv'
    <3>1. /\ TypeOK' /\ Loaded' = Loaded \ {n} /\ n \in Loaded
          /\ \A m \in Available : modules'[m].dependencies = modules[m].dependencies
          /\ \A m \in Loaded : n \notin modules[m].dependencies
      BY <2>2, UnloadFacts DEF LoaderInv
    <3>2. Loaded \subseteq Available /\ modulesEnabled' = modulesEnabled
      BY <2>2 DEF Unload, Loaded
    <3>3. DepsLoaded'
      BY <3>1, <3>2 DEF LoaderInv, DepsLoaded
    <3>4. modulesEnabled
      BY <3>1 DEF LoaderInv, DisabledLoadsNothing, TypeOK
    <3> QED BY <3>1, <3>2, <3>3, <3>4 DEF LoaderInv, DisabledLoadsNothing
  <2>3. ASSUME NEW n \in Name, NEW deps \in SUBSET Name, RegisterUnloaded(n, deps)
        PROVE  LoaderInv'
    BY <2>3, RegisterFacts DEF LoaderInv, DepsLoaded, DisabledLoadsNothing
  <2>4. CASE NewLoader
    BY <2>4, NewLoaderFacts DEF LoaderInv, DepsLoaded, DisabledLoadsNothing
  <2>5. CASE UNCHANGED vars
    BY <2>5 DEF vars, LoaderInv, TypeOK, DepsLoaded, DisabledLoadsNothing, Loaded, Available
  <2> QED BY <2>1, <2>2, <2>3, <2>4, <2>5 DEF Next
<1> QED BY <1>1, <1>2, PTL DEF Spec

\* Dependencies stay loaded, and nothing loads when modules are disabled: for
\* every catalogue and every history of register, insmod and rmmod.
THEOREM LoaderSafe == Spec => [](DepsLoaded /\ DisabledLoadsNothing)
BY LoaderInvariant, PTL DEF LoaderInv

\* When no two modules export the same symbol, the table is exactly the
\* exports of the loaded modules, each with its owner.
THEOREM SymbolTableExact ==
  ASSUME DisjointExports
  PROVE  Spec => []SymbolsMatch
<1> USE ExportsAssumption
<1>1. Init => TableInv
  BY InitFacts DEF TableInv, SymbolsMatch
<1>2. TableInv /\ [Next]_vars => TableInv'
  <2> SUFFICES ASSUME TableInv, [Next]_vars PROVE TableInv'
    OBVIOUS
  <2>1. ASSUME NEW n \in Name, Load(n) PROVE TableInv'
    <3>1. TypeOK' /\ Loaded' = Loaded \cup {n}
      BY <2>1, LoadFacts DEF TableInv
    <3>2. symbols' = [s \in DOMAIN symbols \cup Exports[n] |->
                        IF s \in Exports[n] THEN n ELSE symbols[s]]
      BY <2>1 DEF Load
    <3> QED BY <3>1, <3>2 DEF TableInv, SymbolsMatch
  <2>2. ASSUME NEW n \in Name, Unload(n) PROVE TableInv'
    <3>1. TypeOK' /\ Loaded' = Loaded \ {n} /\ n \in Loaded
      BY <2>2, UnloadFacts DEF TableInv
    <3>2. /\ DOMAIN (symbols') = DOMAIN symbols \ Exports[n]
          /\ \A s \in DOMAIN (symbols') : symbols'[s] = symbols[s]
      BY <2>2 DEF Unload, SymbolsWithout, Restrict
    <3>3. Loaded \subseteq Name
      BY DEF TableInv, TypeOK, Loaded
    <3>4. \A m \in Loaded \ {n} : Exports[m] \cap Exports[n] = {}
      BY <3>3 DEF DisjointExports
    <3>5. DOMAIN (symbols') = UNION {Exports[m] : m \in Loaded \ {n}}
      BY <3>2, <3>4 DEF TableInv, SymbolsMatch
    <3>6. \A s \in DOMAIN (symbols') :
            symbols'[s] \in Loaded \ {n} /\ s \in Exports[symbols'[s]]
      BY <3>2 DEF TableInv, SymbolsMatch
    <3> QED BY <3>1, <3>5, <3>6 DEF TableInv, SymbolsMatch
  <2>3. ASSUME NEW n \in Name, NEW deps \in SUBSET Name, RegisterUnloaded(n, deps)
        PROVE  TableInv'
    BY <2>3, RegisterFacts DEF TableInv, SymbolsMatch
  <2>4. CASE NewLoader
    BY <2>4, NewLoaderFacts DEF TableInv, SymbolsMatch
  <2>5. CASE UNCHANGED vars
    BY <2>5 DEF vars, TableInv, TypeOK, SymbolsMatch, Loaded, Available
  <2> QED BY <2>1, <2>2, <2>3, <2>4, <2>5 DEF Next
<1>3. TableInv => SymbolsMatch
  BY DEF TableInv
<1> QED BY <1>1, <1>2, <1>3, PTL DEF Spec

----------------------------------------------------------------------------
\* The loaded modules can be taken out one by one, in any order that starts
\* with one nobody needs, so every set of them has such a module.
NoCycles ==
  \A S \in SUBSET Loaded :
    S # {} => \E n \in S : \A m \in S : n \notin modules[m].dependencies

\* As long as something is loaded, something can be unloaded: a module is
\* loaded after all it depends on, so that it closes no cycle, not even with
\* itself.
THEOREM LoaderNeverStuck == Spec => []SomethingCanBeUnloaded
<1>1. Init => NoCycles
  BY InitFacts DEF NoCycles
<1>2. LoaderInv /\ NoCycles /\ [Next]_vars => NoCycles'
  <2> SUFFICES ASSUME LoaderInv, NoCycles, [Next]_vars,
                      NEW S \in SUBSET Loaded', S # {}
               PROVE  \E n \in S : \A m \in S : n \notin modules'[m].dependencies
    BY DEF NoCycles
  <2>1. ASSUME NEW n \in Name, Load(n)
        PROVE  \E k \in S : \A m \in S : k \notin modules'[m].dependencies
    <3>1. /\ Loaded' = Loaded \cup {n} /\ n \notin Loaded
          /\ \A m \in Available : modules'[m].dependencies = modules[m].dependencies
          /\ modules[n].dependencies \subseteq Loaded
      BY <2>1, LoadFacts DEF LoaderInv
    <3>2. n \in Available /\ Loaded \subseteq Available
      BY <2>1 DEF Load, Loaded
    <3>3. \A m \in Loaded \cup {n} : n \notin modules'[m].dependencies
      BY <3>1, <3>2 DEF LoaderInv, DepsLoaded
    <3>4. CASE n \in S
      BY <3>1, <3>3, <3>4
    <3>5. CASE n \notin S
      <4>1. S \in SUBSET Loaded
        BY <3>1, <3>5
      <4> QED BY <3>1, <3>2, <4>1 DEF NoCycles
    <3> QED BY <3>4, <3>5
  <2>2. ASSUME NEW n \in Name, Unload(n)
        PROVE  \E k \in S : \A m \in S : k \notin modules'[m].dependencies
    <3>1. /\ Loaded' \subseteq Loaded
          /\ \A m \in Available : modules'[m].dependencies = modules[m].dependencies
      BY <2>2, UnloadFacts DEF LoaderInv
    <3>2. S \in SUBSET Loaded /\ Loaded \subseteq Available
      BY <3>1 DEF Loaded
    <3> QED BY <3>1, <3>2 DEF NoCycles
  <2>3. ASSUME NEW n \in Name, NEW deps \in SUBSET Name, RegisterUnloaded(n, deps)
        PROVE  \E k \in S : \A m \in S : k \notin modules'[m].dependencies
    <3>1. /\ Loaded' = Loaded
          /\ \A m \in Loaded : modules'[m].dependencies = modules[m].dependencies
      BY <2>3, RegisterFacts DEF LoaderInv
    <3> QED BY <3>1 DEF NoCycles
  <2>4. CASE NewLoader
    BY <2>4, NewLoaderFacts
  <2>5. CASE UNCHANGED vars
    <3>1. Loaded' = Loaded /\ modules' = modules
      BY <2>5 DEF vars, Loaded, Available
    <3> QED BY <3>1 DEF NoCycles
  <2> QED BY <2>1, <2>2, <2>3, <2>4, <2>5 DEF Next
<1>3. LoaderInv /\ NoCycles => SomethingCanBeUnloaded
  <2> SUFFICES ASSUME NoCycles, Loaded # {} PROVE \E n \in Loaded : ~Needed(n)
    BY DEF SomethingCanBeUnloaded
  <2>1. PICK n \in Loaded : \A m \in Loaded : n \notin modules[m].dependencies
    BY DEF NoCycles
  <2> QED BY <2>1 DEF Needed
<1> QED BY LoaderInvariant, <1>1, <1>2, <1>3, PTL DEF Spec

----------------------------------------------------------------------------
(* The refinements.                                                        *)

\* Every step of the kernel is one of the boot machinery or leaves it alone:
\* the commands that change modules, processes and the heap do.
THEOREM KernelImplementsBoot == KernelSpec => BootSpec
<1>1. KernelInit => BootInit
  BY DEF KernelInit
<1>2. [KernelNext]_kernelVars => [BootNext]_bootVars
  BY DEF KernelNext, kernelVars, BootNext, ShellBoot, ShellReboot, ShellStep, ShellPower,
         Insmod, Rmmod, RegisterModule, ShellFork, KernelAlloc, KernelFree
<1> QED BY <1>1, <1>2, PTL DEF KernelSpec, BootSpec

\* The modules of a new loader are a catalogue of the loader's.
LEMMA CataloguesOfKernel ==
  [n \in {} |-> NoSymbols] \in Catalogues /\ DefaultModules \in Catalogues
<1>1. \A R \in SUBSET Name :
        [R -> [dependencies : SUBSET Name, isLoaded : {FALSE}]] \subseteq Catalogues
  BY DEF Catalogues
<1>2. [n \in {} |-> NoSymbols] \in [{} -> [dependencies : SUBSET Name, isLoaded : {FALSE}]]
  OBVIOUS
<1>3. DefaultModules \in [Builtin -> [dependencies : SUBSET Name, isLoaded : {FALSE}]]
  BY DEF DefaultModules
<1> QED BY <1>1, <1>2, <1>3, BuiltinAssumption

LEMMA BootingIsNewLoader ==
  ASSUME NEW p \in Profiles, Booting(p)
  PROVE  NewLoader
BY CataloguesOfKernel DEF Booting, NewLoader, Enables, Profiles

\* What happens to the modules of the kernel, boots under any profile included,
\* is what ModuleLoader says.
THEOREM KernelImplementsLoader == KernelSpec => Spec
<1>1. KernelInit => Init
  BY CataloguesOfKernel DEF KernelInit, Init, Enables
<1>2. [KernelNext]_kernelVars => [Next]_vars
  <2>1. ASSUME NEW p \in Profiles, ShellBoot(p) \/ ShellReboot(p) PROVE Next
    BY <2>1, BootingIsNewLoader DEF ShellBoot, ShellReboot, Next
  <2>2. ASSUME NEW n \in Name, Insmod(n) \/ Rmmod(n) PROVE Next
    BY <2>2 DEF Insmod, Rmmod, Next
  <2>3. ASSUME NEW n \in Name, NEW deps \in SUBSET Name, RegisterModule(n, deps) PROVE Next
    BY <2>3 DEF RegisterModule, Next
  <2>4. ASSUME \/ ShellStep \/ ShellPower
               \/ \E p \in DOMAIN sys.processes : ShellFork(p)
               \/ \E size \in BlockSizes : KernelAlloc(size)
               \/ \E addr \in DOMAIN sys.heap.blocks : KernelFree(addr)
               \/ UNCHANGED kernelVars
        PROVE  UNCHANGED vars
    BY <2>4 DEF ShellStep, ShellPower, ShellFork, KernelAlloc, KernelFree, kernelVars
  <2> QED BY <2>1, <2>2, <2>3, <2>4 DEF KernelNext
<1> QED BY <1>1, <1>2, PTL DEF KernelSpec, Spec

----------------------------------------------------------------------------
(* What the kernel inherits from its parts.                                *)

\* The flag of the loader is that of the profile, which only a boot changes.
LEMMA FlagOfProfile == KernelSpec => [](modulesEnabled = Enables(profile))
<1> DEFINE Flag == modulesEnabled = Enables(profile)
<1>1. KernelInit => Flag
  BY DEF KernelInit
<1>2. Flag /\ [KernelNext]_kernelVars => Flag'
  <2> SUFFICES ASSUME Flag, [KernelNext]_kernelVars PROVE Flag'
    OBVIOUS
  <2>1. ASSUME NEW p \in Profiles, ShellBoot(p) \/ ShellReboot(p) PROVE Flag'
    BY <2>1 DEF ShellBoot, ShellReboot, Booting
  <2>2. ASSUME UNCHANGED <<modulesEnabled, profile>> PROVE Flag'
    BY <2>2
  <2>3. ASSUME NEW n \in Name, Insmod(n) \/ Rmmod(n)
        PROVE  UNCHANGED <<modulesEnabled, profile>>
    BY <2>3 DEF Insmod, Rmmod, Load, Unload
  <2>4. ASSUME NEW n \in Name, NEW deps \in SUBSET Name, RegisterModule(n, deps)
        PROVE  UNCHANGED <<modulesEnabled, profile>>
    BY <2>4 DEF RegisterModule, RegisterUnloaded, Register
  <2>5. ASSUME \/ ShellStep \/ ShellPower
               \/ \E p \in DOMAIN sys.processes : ShellFork(p)
               \/ \E size \in BlockSizes : KernelAlloc(size)
               \/ \E addr \in DOMAIN sys.heap.blocks : KernelFree(addr)
               \/ UNCHANGED kernelVars
        PROVE  UNCHANGED <<modulesEnabled, profile>>
    BY <2>5 DEF ShellStep, ShellPower, ShellFork, KernelAlloc, KernelFree, kernelVars, vars
  <2> QED BY <2>1, <2>2, <2>3, <2>4, <2>5 DEF KernelNext
<1> QED BY <1>1, <1>2, PTL DEF KernelSpec

\* The kernel is booted only when all stages have succeeded, its modules have
\* their dependencies, and in safe mode it has none, whatever the shell did
\* before: with the theorems about its parts.
THEOREM KernelSafe ==
  KernelSpec => [](/\ BootedMeansAllSucceeded
                   /\ DepsLoaded /\ SomethingCanBeUnloaded
                   /\ SafeModeLoadsNothing)
<1>1. DisabledLoadsNothing /\ modulesEnabled = Enables(profile) => SafeModeLoadsNothing
  BY DEF DisabledLoadsNothing, Enables, SafeModeLoadsNothing
<1> QED BY <1>1, KernelImplementsBoot, KernelImplementsLoader, FlagOfProfile,
           BootSafe, LoaderSafe, LoaderNeverStuck, PTL

----------------------------------------------------------------------------
(* The heap.                                                               *)

\* The inductive invariant: blocks are not empty and end below the next
\* address, which is where the next one starts.
HeapSound(h) ==
  /\ h = [next |-> h.next, blocks |-> h.blocks]
  /\ h.next \in Nat /\ h.next % 16 = 0 /\ HeapBase <= h.next
  /\ \A a \in DOMAIN h.blocks : a \in Nat /\ h.blocks[a] \in Nat \ {0}
  /\ BlocksApart(h)

LEMMA RoundedFacts ==
  ASSUME NEW size \in Nat \ {0}, NEW next \in Nat, next % 16 = 0
  PROVE  /\ next + Rounded(size) \in Nat /\ (next + Rounded(size)) % 16 = 0
         /\ next + size <= next + Rounded(size)
<1> DEFINE k == (size + 15) \div 16
<1>1. k \in Nat /\ size <= k * 16
  OBVIOUS
<1>2. Rounded(size) = k * 16
  BY DEF Rounded
<1> HIDE DEF k
<1>3. (next + k * 16) % 16 = 0
  BY <1>1
<1> QED BY <1>1, <1>2, <1>3

LEMMA NewHeapSound == HeapSound(NewHeap)
BY HeapBaseAssumption DEF HeapSound, NewHeap, BlocksApart

LEMMA KmallocSound ==
  ASSUME NEW h, HeapSound(h), NEW size \in Nat \ {0}
  PROVE  HeapSound(Kmalloc(h, size))
<1> DEFINE g == Kmalloc(h, size)
<1>1. /\ g.next = h.next + Rounded(size)
      /\ DOMAIN g.blocks = DOMAIN h.blocks \cup {h.next}
      /\ g.blocks[h.next] = size
      /\ \A a \in DOMAIN h.blocks : a # h.next => g.blocks[a] = h.blocks[a]
      /\ g = [next |-> g.next, blocks |-> g.blocks]
  BY DEF Kmalloc
<1>2. h.next \in Nat /\ h.next % 16 = 0 /\ HeapBase <= h.next /\ HeapBase \in Nat
  BY HeapBaseAssumption DEF HeapSound
<1>3. g.next \in Nat /\ g.next % 16 = 0 /\ h.next + size <= g.next
  BY <1>1, <1>2, RoundedFacts
<1>4. \A a \in DOMAIN h.blocks :
        /\ a \in Nat /\ h.blocks[a] \in Nat \ {0}
        /\ a % 16 = 0 /\ HeapBase <= a /\ a + h.blocks[a] <= h.next
        /\ \A b \in DOMAIN h.blocks : a < b => a + h.blocks[a] <= b
  BY DEF HeapSound, BlocksApart
<1>5. \A a \in DOMAIN h.blocks : a < h.next /\ g.blocks[a] = h.blocks[a]
  BY <1>1, <1>2, <1>4
<1> HIDE DEF g
<1>6. \A a \in DOMAIN g.blocks : a \in Nat /\ g.blocks[a] \in Nat \ {0}
  BY <1>1, <1>2, <1>4, <1>5
<1>7. \A a \in DOMAIN g.blocks :
        a % 16 = 0 /\ HeapBase <= a /\ a + g.blocks[a] <= g.next
  BY <1>1, <1>2, <1>3, <1>4, <1>5
<1>8. \A a, b \in DOMAIN g.blocks : a < b => a + g.blocks[a] <= b
  BY <1>1, <1>2, <1>4, <1>5
<1>9. HeapSound(g)
  BY <1>1, <1>2, <1>3, <1>6, <1>7, <1>8 DEF HeapSound, BlocksApart
<1> QED BY <1>9 DEF g

LEMMA KfreeSound ==
  ASSUME NEW h, HeapSound(h), NEW addr
  PROVE  HeapSound(Kfree(h, addr))
<1> DEFINE g == Kfree(h, addr)
<1>1. /\ g.next = h.next /\ g = [next |-> g.next, blocks |-> g.blocks]
      /\ DOMAIN g.blocks = DOMAIN h.blocks \ {addr}
      /\ \A a \in DOMAIN g.blocks : g.blocks[a] = h.blocks[a]
  BY DEF Kfree, HeapSound
<1> HIDE DEF g
<1>2. HeapSound(g)
  BY <1>1 DEF HeapSound, BlocksApart
<1> QED BY <1>2 DEF g

----------------------------------------------------------------------------
(* The stages and the heap.  Only one stage touches it.                    *)

Sound(s) == "heap" \in DOMAIN s /\ HeapSound(s.heap)

\* Changing something else of the subsystems.
LEMMA OtherField ==
  ASSUME NEW s, Sound(s), NEW f, f # "heap", NEW v
  PROVE  Sound([s EXCEPT ![f] = v])
<1> DEFINE r == [s EXCEPT ![f] = v]
<1>1. "heap" \in DOMAIN r /\ r["heap"] = s["heap"]
  BY DEF Sound
<1> QED BY <1>1 DEF Sound

LEMMA HeapField ==
  ASSUME NEW s, Sound(s), NEW h, HeapSound(h)
  PROVE  Sound([s EXCEPT !.heap = h]) /\ [s EXCEPT !.heap = h].heap = h
BY DEF Sound

LEMMA SmallSteps ==
  ASSUME NEW s, Sound(s)
  PROVE  /\ \A p : Sound(WithSpace(s, p))
         /\ \A p, slice : Sound(SpawnThread(s, p, slice))
         /\ \A tid : Sound(AddToQueue(s, tid))
         /\ \A p, st : Sound(SpawnProcess(s, p, st))
         /\ Sound(Ticked(s)) /\ Sound(Probed(s))
<1>1. ASSUME NEW p PROVE Sound(WithSpace(s, p))
  BY OtherField DEF WithSpace
<1>2. ASSUME NEW p, NEW slice PROVE Sound(SpawnThread(s, p, slice))
  BY OtherField DEF SpawnThread
<1>3. ASSUME NEW tid PROVE Sound(AddToQueue(s, tid))
  BY OtherField DEF AddToQueue, Sound
<1>4. ASSUME NEW p, NEW st PROVE Sound(SpawnProcess(s, p, st))
  BY DEF SpawnProcess, Sound
<1>5. Sound(Ticked(s))
  BY DEF Ticked, Sound
<1>6. Sound(Probed(s))
  BY DEF Probed, Sound
<1> QED BY <1>1, <1>2, <1>3, <1>4, <1>5, <1>6

\* Every state of a course, with its end.
AllSound(c) == Len(c) \in Nat \ {0} /\ \A i \in 1 .. Len(c) : Sound(c[i])

LEMMA MemoryCourse == ASSUME NEW s, Sound(s) PROVE AllSound(MemoryBringup(s))
<1> DEFINE space  == WithSpace(s, 0)
           first  == [space EXCEPT !.heap = Kmalloc(@, 512)]
           second == [first EXCEPT !.heap = Kmalloc(@, 256)]
           freed  == [second EXCEPT !.heap = Kfree(@, space.heap.next)]
           last   == [freed EXCEPT !.heap = Kfree(@, first.heap.next)]
<1>1. Sound(space)
  BY SmallSteps
<1> HIDE DEF space
<1>2. Sound(first)
  BY <1>1, KmallocSound, HeapField DEF Sound
<1> HIDE DEF first
<1>3. Sound(second)
  BY <1>2, KmallocSound, HeapField DEF Sound
<1> HIDE DEF second
<1>4. Sound(freed)
  BY <1>3, KfreeSound, HeapField DEF Sound
<1> HIDE DEF freed
<1>5. Sound(last)
  BY <1>4, KfreeSound, HeapField DEF Sound
<1> HIDE DEF last
<1>6. AllSound(<<s, space, first, second, freed, last>>)
  BY <1>1, <1>2, <1>3, <1>4, <1>5 DEF AllSound
<1> QED BY <1>6 DEF MemoryBringup, space, first, second, freed, last

LEMMA SchedulerCourse == ASSUME NEW s, Sound(s) PROVE AllSound(SchedulerStart(s))
<1> DEFINE idle    == [SpawnThread(s, 0, 1) EXCEPT !.threads[LastTid(s) + 1].state = "RUNNABLE"]
           worker1 == SpawnThread(idle, 0, DefaultSlice)
           worker2 == SpawnThread(worker1, 0, DefaultSlice)
           worker3 == SpawnThread(worker2, 0, DefaultSlice)
           queued1 == AddToQueue(worker3, LastTid(worker1))
           queued2 == AddToQueue(queued1, LastTid(worker2))
           queued3 == AddToQueue(queued2, LastTid(worker3))
           ticked  == Ticked(queued3)
<1>1. Sound(idle)
  BY SmallSteps, OtherField
<1> HIDE DEF idle
<1>2. Sound(worker1) /\ Sound(worker2) /\ Sound(worker3)
  BY <1>1, SmallSteps
<1> HIDE DEF worker1, worker2, worker3
<1>3. Sound(queued1) /\ Sound(queued2) /\ Sound(queued3)
  BY <1>2, SmallSteps
<1> HIDE DEF queued1, queued2, queued3
<1>4. Sound(ticked)
  BY <1>3, SmallSteps
<1> HIDE DEF ticked
<1>5. AllSound(<<s, idle, worker1, worker2, worker3, queued1, queued2, queued3, ticked>>)
  BY <1>1, <1>2, <1>3, <1>4 DEF AllSound
<1> QED BY <1>5 DEF SchedulerStart, idle, worker1, worker2, worker3,
                    queued1, queued2, queued3, ticked

LEMMA DeviceCourse == ASSUME NEW s, Sound(s) PROVE AllSound(VfsDeviceInit(s))
<1> DEFINE root    == [s EXCEPT !.mounted = TRUE, !.entries = {}]
           dirs    == [root EXCEPT !.entries = RootDirs]
           files   == [dirs EXCEPT !.entries = @ \cup RootFiles]
           devices == [files EXCEPT !.devices = [d \in DeviceNames |-> ""]]
           drivers == [devices EXCEPT !.drivers =
                         [i \in DOMAIN Drivers |-> [name |-> Drivers[i].name, bound |-> {}]]]
           probed  == Probed(drivers)
<1>1. Sound(root)
  BY DEF Sound
<1> HIDE DEF root
<1>2. Sound(dirs)
  BY <1>1, OtherField
<1> HIDE DEF dirs
<1>3. Sound(files)
  BY <1>2, OtherField
<1> HIDE DEF files
<1>4. Sound(devices)
  BY <1>3, OtherField
<1> HIDE DEF devices
<1>5. Sound(drivers)
  BY <1>4, OtherField
<1> HIDE DEF drivers
<1>6. Sound(probed)
  BY <1>5, SmallSteps
<1> HIDE DEF probed
<1>7. AllSound(<<s, root, dirs, files, devices, drivers, probed>>)
  BY <1>1, <1>2, <1>3, <1>4, <1>5, <1>6 DEF AllSound
<1> QED BY <1>7 DEF VfsDeviceInit, root, dirs, files, devices, drivers, probed

LEMMA UserspaceCourse == ASSUME NEW s, Sound(s) PROVE AllSound(UserspaceInit(s))
<1> DEFINE process == SpawnProcess(s, 0, "RUNNABLE")
           thread  == SpawnThread(process, s.nextPid, DefaultSlice)
           queued  == AddToQueue(thread, LastTid(thread))
           space   == WithSpace(queued, s.nextPid)
<1>1. Sound(process)
  BY SmallSteps
<1> HIDE DEF process
<1>2. Sound(thread)
  BY <1>1, SmallSteps
<1> HIDE DEF thread
<1>3. Sound(queued)
  BY <1>2, SmallSteps
<1> HIDE DEF queued
<1>4. Sound(space)
  BY <1>3, SmallSteps
<1> HIDE DEF space
<1>5. AllSound(<<s, process, thread, queued, space>>)
  BY <1>1, <1>2, <1>3, <1>4 DEF AllSound
<1> QED BY <1>5 DEF UserspaceInit, process, thread, queued, space

LEMMA OtherCourses ==
  ASSUME NEW s, Sound(s)
  PROVE  AllSound(ArchEarlyInit(s)) /\ AllSound(OnlyLogs(s))
<1> DEFINE detected == [s EXCEPT !.features = TRUE]
<1>1. Sound(detected)
  BY OtherField
<1> HIDE DEF detected
<1>2. AllSound(<<s, detected>>) /\ AllSound(<<s, s>>)
  BY <1>1 DEF AllSound
<1> QED BY <1>2 DEF ArchEarlyInit, OnlyLogs, detected

LEMMA EveryCourse ==
  ASSUME NEW s, Sound(s), NEW stage
  PROVE  AllSound(Course(stage, s))
BY MemoryCourse, SchedulerCourse, DeviceCourse, UserspaceCourse, OtherCourses DEF Course

\* A stage that fails leaves a state of its course, and one that succeeds the
\* last one.
LEMMA AfterSound ==
  ASSUME NEW s, Sound(s), NEW result, NEW t \in After(result, s)
  PROVE  Sound(t)
<1> DEFINE c == Course(result.stage, s)
<1>1. AllSound(c)
  BY EveryCourse
<1> HIDE DEF c
<1>2. PICK i \in 1 .. Len(c) : t = c[i]
  <2>1. CASE result.success
    BY <1>1, <2>1 DEF After, AllSound, c
  <2>2. CASE ~result.success
    <3>1. PICK i \in 1 .. Len(c) - 1 : t = c[i]
      BY <2>2 DEF After, c
    <3> QED BY <1>1, <3>1 DEF AllSound
  <2> QED BY <2>1, <2>2
<1> QED BY <1>1, <1>2 DEF AllSound

LEMMA LastSound ==
  ASSUME NEW c, AllSound(c)
  PROVE  Sound(Last(c))
BY DEF AllSound, Last

LEMMA BeforeSound ==
  ASSUME NEW s, Sound(s), NEW stage
  PROVE  Sound(Before(stage, s))
<1> DEFINE arch      == Last(ArchEarlyInit(s))
           memory    == Last(MemoryBringup(arch))
           scheduler == Last(SchedulerStart(memory))
           devices   == Last(VfsDeviceInit(scheduler))
<1>1. Sound(arch)
  BY OtherCourses, LastSound
<1> HIDE DEF arch
<1>2. Sound(memory)
  BY <1>1, MemoryCourse, LastSound
<1> HIDE DEF memory
<1>3. Sound(scheduler)
  BY <1>2, SchedulerCourse, LastSound
<1> HIDE DEF scheduler
<1>4. Sound(devices)
  BY <1>3, DeviceCourse, LastSound
<1> HIDE DEF devices
<1>5. Before(stage, s) \in {s, arch, memory, scheduler, devices}
  BY DEF Before, arch, memory, scheduler, devices
<1> QED BY <1>1, <1>2, <1>3, <1>4, <1>5

LEMMA FreshSound == Sound(Fresh)
BY NewHeapSound DEF Sound, Fresh

\* The blocks of the kernel heap are aligned and lie apart, for any sizes, and
\* however boots fail between the calls that the stages make.
THEOREM HeapSafe == KernelSpec => []HeapBlocksApart
<1>1. KernelInit => Sound(sys)
  BY FreshSound DEF KernelInit
<1>2. Sound(sys) /\ [KernelNext]_kernelVars => Sound(sys)'
  <2> SUFFICES ASSUME Sound(sys), [KernelNext]_kernelVars PROVE Sound(sys')
    BY DEF Sound
  <2>1. ASSUME NEW p \in Profiles, ShellBoot(p) \/ ShellReboot(p) PROVE Sound(sys')
    <3>1. sys' \in AfterAll(results', Fresh)
      BY <2>1 DEF ShellBoot, ShellReboot, Booting, NewSystem
    <3>2. sys' \in After(Last(results'), Before(Last(results').stage, Fresh))
      BY <3>1 DEF AfterAll
    <3> QED BY <3>2, FreshSound, BeforeSound, AfterSound
  <2>2. CASE ShellStep
    BY <2>2, AfterSound DEF ShellStep
  <2>3. ASSUME NEW p \in DOMAIN sys.processes, ShellFork(p) PROVE Sound(sys')
    BY <2>3, SmallSteps DEF ShellFork
  <2>4. ASSUME NEW size \in BlockSizes, KernelAlloc(size) PROVE Sound(sys')
    <3>1. HeapSound(Kmalloc(sys.heap, size))
      BY KmallocSound, BlockSizesAssumption DEF Sound
    <3> QED BY <2>4, <3>1, HeapField DEF KernelAlloc
  <2>5. ASSUME NEW addr \in DOMAIN sys.heap.blocks, KernelFree(addr) PROVE Sound(sys')
    <3>1. HeapSound(Kfree(sys.heap, addr))
      BY KfreeSound DEF Sound
    <3> QED BY <2>5, <3>1, HeapField DEF KernelFree
  <2>6. ASSUME \/ ShellPower
               \/ \E n \in Name : Insmod(n) \/ Rmmod(n)
               \/ \E n \in Name, deps \in SUBSET Name : RegisterModule(n, deps)
               \/ UNCHANGED kernelVars
        PROVE  Sound(sys')
    BY <2>6 DEF ShellPower, Insmod, Rmmod, RegisterModule, kernelVars
  <2> QED BY <2>1, <2>2, <2>3, <2>4, <2>5, <2>6 DEF KernelNext
<1>3. Sound(sys) => HeapBlocksApart
  BY DEF Sound, HeapSound, HeapBlocksApart
<1> QED BY <1>1, <1>2, <1>3, PTL DEF KernelSpec

----------------------------------------------------------------------------
(* What the stages leave.                                                  *)

Fields == {"features", "spaces", "heap", "threads", "runqueue", "current", "processes",
           "nextPid", "mounted", "entries", "devices", "drivers"}

\* The subsystems r are those of s in all but the fields F.
SameBut(s, r, F) == DOMAIN r = Fields /\ \A f \in Fields \ F : r[f] = s[f]

ThreadStates == {"NEW", "RUNNABLE", "RUNNING"}
ThreadRecord == [pid : Nat, state : ThreadStates, remaining : Nat]

\* The subsystems have their fields, with threads and a run queue.
Formed(s) ==
  DOMAIN s = Fields /\ s.threads \in Seq(ThreadRecord) /\ s.runqueue \in Seq(Nat)

\* The subsystems r are those of s with a new thread of p after the others.
Spawned(s, r, p) ==
  /\ Formed(r) /\ SameBut(s, r, {"threads"})
  /\ Len(r.threads) = Len(s.threads) + 1
  /\ \A t \in 1 .. Len(s.threads) : r.threads[t] = s.threads[t]
  /\ r.threads[Len(s.threads) + 1].pid = p

\* The same with the thread t runnable and the last one of the queue.
Queued(s, r, t) ==
  /\ Formed(r) /\ SameBut(s, r, {"threads", "runqueue"})
  /\ Len(r.threads) = Len(s.threads)
  /\ r.threads[t].pid = s.threads[t].pid /\ r.threads[t].state = "RUNNABLE"
  /\ \A u \in 1 .. Len(s.threads) : u # t => r.threads[u] = s.threads[u]
  /\ r.runqueue = Append(s.runqueue, t)

\* The threads r are those of q, but that the thread t has the state st.
Moved(q, r, t, st) ==
  /\ r \in Seq(ThreadRecord) /\ Len(r) = Len(q)
  /\ r[t].pid = q[t].pid /\ r[t].state = st
  /\ \A u \in 1 .. Len(q) : u # t => r[u] = q[u]

LEMMA SpawnThreadLeaves ==
  ASSUME NEW s, Formed(s), NEW p \in Nat, NEW slice \in Nat
  PROVE  Spawned(s, SpawnThread(s, p, slice), p)
<1> DEFINE new == [pid |-> p, state |-> "NEW", remaining |-> slice]
           r == SpawnThread(s, p, slice)
<1>1. new \in ThreadRecord /\ s.threads \in Seq(ThreadRecord)
  <2>1. "NEW" \in ThreadStates
    BY DEF ThreadStates
  <2>2. new \in ThreadRecord
    BY <2>1 DEF ThreadRecord
  <2> QED BY <2>2 DEF Formed
<1>2. r = [s EXCEPT !.threads = Append(@, new)]
  BY DEF SpawnThread
<1> HIDE DEF new, r
<1>3. /\ Append(s.threads, new) \in Seq(ThreadRecord)
      /\ Len(Append(s.threads, new)) = Len(s.threads) + 1
      /\ \A t \in 1 .. Len(s.threads) : Append(s.threads, new)[t] = s.threads[t]
      /\ Append(s.threads, new)[Len(s.threads) + 1] = new
  BY <1>1, AppendProperties
<1>4. r.threads = Append(s.threads, new) /\ DOMAIN r = Fields
      /\ \A f \in Fields \ {"threads"} : r[f] = s[f]
  BY <1>2 DEF Formed, Fields
<1>5. r.runqueue = s.runqueue
  BY <1>4 DEF Fields
<1>6. new.pid = p
  BY DEF new
<1>7. Len(s.threads) \in Nat
  BY <1>1, LenProperties
<1>8. Spawned(s, r, p)
  BY <1>3, <1>4, <1>5, <1>6, <1>7 DEF Formed, SameBut, Spawned
<1> QED BY <1>8 DEF r

\* One thread gets another state.
LEMMA StateLeaves ==
  ASSUME NEW q \in Seq(ThreadRecord), NEW t \in 1 .. Len(q), NEW st \in ThreadStates
  PROVE  Moved(q, [q EXCEPT ![t].state = st], t, st)
<1> DEFINE r == [q EXCEPT ![t].state = st]
<1>1. Len(q) \in Nat /\ q \in [1 .. Len(q) -> ThreadRecord]
  BY LenProperties, ElementOfSeq
<1>2. r = [q EXCEPT ![t] = [q[t] EXCEPT !.state = st]]
  OBVIOUS
<1>3. q[t] \in ThreadRecord
  BY <1>1
<1>4. /\ [q[t] EXCEPT !.state = st] \in ThreadRecord
      /\ [q[t] EXCEPT !.state = st].state = st
      /\ [q[t] EXCEPT !.state = st].pid = q[t].pid
  BY <1>3 DEF ThreadRecord
<1> HIDE DEF r, ThreadRecord
<1>5. /\ r \in [1 .. Len(q) -> ThreadRecord]
      /\ r[t] = [q[t] EXCEPT !.state = st]
      /\ \A u \in 1 .. Len(q) : u # t => r[u] = q[u]
  BY <1>1, <1>2, <1>4
<1>6. r \in Seq(ThreadRecord) /\ Len(r) = Len(q)
  BY <1>1, <1>5, SeqDef, LenProperties
<1>7. Moved(q, r, t, st)
  BY <1>4, <1>5, <1>6 DEF Moved
<1> QED BY <1>7 DEF r

\* One thread gets another number of ticks.
LEMMA RemainingLeaves ==
  ASSUME NEW q \in Seq(ThreadRecord), NEW t \in 1 .. Len(q), NEW k \in Nat
  PROVE  Moved(q, [q EXCEPT ![t].remaining = k], t, q[t].state)
<1> DEFINE r == [q EXCEPT ![t].remaining = k]
<1>1. Len(q) \in Nat /\ q \in [1 .. Len(q) -> ThreadRecord]
  BY LenProperties, ElementOfSeq
<1>2. r = [q EXCEPT ![t] = [q[t] EXCEPT !.remaining = k]]
  OBVIOUS
<1>3. q[t] \in ThreadRecord
  BY <1>1
<1>4. /\ [q[t] EXCEPT !.remaining = k] \in ThreadRecord
      /\ [q[t] EXCEPT !.remaining = k].state = q[t].state
      /\ [q[t] EXCEPT !.remaining = k].pid = q[t].pid
  BY <1>3 DEF ThreadRecord
<1> HIDE DEF r, ThreadRecord
<1>5. /\ r \in [1 .. Len(q) -> ThreadRecord]
      /\ r[t] = [q[t] EXCEPT !.remaining = k]
      /\ \A u \in 1 .. Len(q) : u # t => r[u] = q[u]
  BY <1>1, <1>2, <1>4
<1>6. r \in Seq(ThreadRecord) /\ Len(r) = Len(q)
  BY <1>1, <1>5, SeqDef, LenProperties
<1>7. Moved(q, r, t, q[t].state)
  BY <1>4, <1>5, <1>6 DEF Moved
<1> QED BY <1>7 DEF r

LEMMA AddToQueueLeaves ==
  ASSUME NEW s, Formed(s), NEW t \in 1 .. Len(s.threads)
  PROVE  Queued(s, AddToQueue(s, t), t)
<1> DEFINE r == AddToQueue(s, t)
           q == [s.threads EXCEPT ![t].state = "RUNNABLE"]
<1>1. /\ q \in Seq(ThreadRecord) /\ Len(q) = Len(s.threads)
      /\ q[t].pid = s.threads[t].pid /\ q[t].state = "RUNNABLE"
      /\ \A u \in 1 .. Len(s.threads) : u # t => q[u] = s.threads[u]
  <2>1. s.threads \in Seq(ThreadRecord) /\ "RUNNABLE" \in ThreadStates
    BY DEF Formed, ThreadStates
  <2> QED BY <2>1, StateLeaves DEF Moved
<1>2. /\ r.threads = q /\ r.runqueue = Append(s.runqueue, t) /\ DOMAIN r = Fields
      /\ \A f \in Fields \ {"threads", "runqueue"} : r[f] = s[f]
  BY DEF AddToQueue, Formed, Fields
<1>3. t \in Nat
  BY LenProperties DEF Formed
<1>4. Append(s.runqueue, t) \in Seq(Nat)
  BY <1>3, AppendProperties DEF Formed
<1> HIDE DEF r, q
<1>5. Queued(s, r, t)
  BY <1>1, <1>2, <1>4 DEF Formed, SameBut, Queued
<1> QED BY <1>5 DEF r

\* Changing one field leaves the others.
LEMMA OneField ==
  ASSUME NEW s, DOMAIN s = Fields, NEW f \in Fields, NEW v
  PROVE  LET r == [s EXCEPT ![f] = v]
         IN  DOMAIN r = Fields /\ r[f] = v /\ \A g \in Fields : g # f => r[g] = s[g]
OBVIOUS

\* What a list with one more element is.
LEMMA OneMore ==
  ASSUME NEW q \in Seq(Nat), NEW r \in Seq(Nat), NEW t \in Nat,
         Len(r) = Len(q) + 1, r[Len(r)] = t, \A i \in 1 .. Len(q) : r[i] = q[i]
  PROVE  Append(q, t) = r
<1> DEFINE a == Append(q, t)
<1>1. Len(q) \in Nat
  BY LenProperties
<1>2. /\ a \in Seq(Nat) /\ Len(a) = Len(r) /\ a[Len(r)] = t
      /\ \A i \in 1 .. Len(q) : a[i] = q[i]
  BY <1>1, AppendProperties
<1> HIDE DEF a
<1>3. ASSUME NEW i \in 1 .. Len(r) PROVE a[i] = r[i]
  <2>1. i \in 1 .. Len(q) \/ i = Len(r)
    BY <1>1
  <2> QED BY <1>2, <2>1
<1>4. a = r
  BY <1>2, <1>3, SeqEqual
<1> QED BY <1>4 DEF a

\* The queue as it fills.
LEMMA QueueFills ==
  /\ Append(<<>>, 2) = <<2>> /\ Append(<<2>>, 3) = <<2, 3>>
  /\ Append(<<2, 3>>, 4) = <<2, 3, 4>> /\ Append(<<2, 3, 4>>, 5) = <<2, 3, 4, 5>>
<1>1. Append(<<>>, 2) = <<2>>
  <2> DEFINE q == <<>>
             r == <<2>>
  <2>1. q \in Seq(Nat) /\ r \in Seq(Nat) /\ Len(q) = 0 /\ Len(r) = 1 /\ r[1] = 2
    OBVIOUS
  <2>2. \A i \in 1 .. 0 : r[i] = q[i]
    <3>1. 1 .. 0 = {}
      OBVIOUS
    <3> QED BY <3>1
  <2> HIDE DEF q, r
  <2>3. Len(r) = Len(q) + 1 /\ r[Len(r)] = 2 /\ \A i \in 1 .. Len(q) : r[i] = q[i]
    BY <2>1, <2>2
  <2>4. Append(q, 2) = r
    BY <2>1, <2>3, OneMore
  <2> QED BY <2>4 DEF q, r
<1>2. Append(<<2>>, 3) = <<2, 3>>
  <2> DEFINE q == <<2>>
             r == <<2, 3>>
  <2>1. q \in Seq(Nat) /\ r \in Seq(Nat) /\ Len(q) = 1 /\ Len(r) = 2 /\ r[2] = 3
    OBVIOUS
  <2>2. \A i \in 1 .. 1 : r[i] = q[i]
    <3>1. 1 .. 1 = {1}
      OBVIOUS
    <3> QED BY <3>1
  <2> HIDE DEF q, r
  <2>3. Len(r) = Len(q) + 1 /\ r[Len(r)] = 3 /\ \A i \in 1 .. Len(q) : r[i] = q[i]
    BY <2>1, <2>2
  <2>4. Append(q, 3) = r
    BY <2>1, <2>3, OneMore
  <2> QED BY <2>4 DEF q, r
<1>3. Append(<<2, 3>>, 4) = <<2, 3, 4>>
  <2> DEFINE q == <<2, 3>>
             r == <<2, 3, 4>>
  <2>1. q \in Seq(Nat) /\ r \in Seq(Nat) /\ Len(q) = 2 /\ Len(r) = 3 /\ r[3] = 4
    OBVIOUS
  <2>2. \A i \in 1 .. 2 : r[i] = q[i]
    <3>1. 1 .. 2 = {1, 2}
      OBVIOUS
    <3> QED BY <3>1
  <2> HIDE DEF q, r
  <2>3. Len(r) = Len(q) + 1 /\ r[Len(r)] = 4 /\ \A i \in 1 .. Len(q) : r[i] = q[i]
    BY <2>1, <2>2
  <2>4. Append(q, 4) = r
    BY <2>1, <2>3, OneMore
  <2> QED BY <2>4 DEF q, r
<1>4. Append(<<2, 3, 4>>, 5) = <<2, 3, 4, 5>>
  <2> DEFINE q == <<2, 3, 4>>
             r == <<2, 3, 4, 5>>
  <2>1. q \in Seq(Nat) /\ r \in Seq(Nat) /\ Len(q) = 3 /\ Len(r) = 4 /\ r[4] = 5
    OBVIOUS
  <2>2. \A i \in 1 .. 3 : r[i] = q[i]
    <3>1. 1 .. 3 = {1, 2, 3}
      OBVIOUS
    <3> QED BY <3>1
  <2> HIDE DEF q, r
  <2>3. Len(r) = Len(q) + 1 /\ r[Len(r)] = 5 /\ \A i \in 1 .. Len(q) : r[i] = q[i]
    BY <2>1, <2>2
  <2>4. Append(q, 5) = r
    BY <2>1, <2>3, OneMore
  <2> QED BY <2>4 DEF q, r
<1> QED BY <1>1, <1>2, <1>3, <1>4

\* Memory is brought up with a space for idle; the blocks that the stage tries
\* out are all freed.
LEMMA MemoryLeaves ==
  ASSUME NEW s, Formed(s), s.heap = NewHeap
  PROVE  LET r == Last(MemoryBringup(s))
         IN  /\ Formed(r) /\ SameBut(s, r, {"spaces", "heap"})
             /\ r.spaces = s.spaces \cup {0} /\ DOMAIN r.heap.blocks = {}
<1> DEFINE space  == WithSpace(s, 0)
           first  == [space EXCEPT !.heap = Kmalloc(@, 512)]
           second == [first EXCEPT !.heap = Kmalloc(@, 256)]
           freed  == [second EXCEPT !.heap = Kfree(@, space.heap.next)]
           r      == [freed EXCEPT !.heap = Kfree(@, first.heap.next)]
<1>1. Last(MemoryBringup(s)) = r
  BY DEF MemoryBringup, Last
<1>2. /\ space.spaces = s.spaces \cup {0} /\ DOMAIN space = Fields /\ space.heap = s.heap
      /\ \A f \in Fields \ {"spaces", "heap"} : space[f] = s[f]
  BY DEF WithSpace, Formed, Fields
<1> HIDE DEF space
<1>3. /\ first.spaces = space.spaces /\ DOMAIN first = Fields
      /\ first.heap = Kmalloc(space.heap, 512)
      /\ \A f \in Fields \ {"spaces", "heap"} : first[f] = space[f]
  BY <1>2 DEF Fields
<1> HIDE DEF first
<1>4. /\ second.spaces = space.spaces /\ DOMAIN second = Fields
      /\ second.heap = Kmalloc(first.heap, 256)
      /\ \A f \in Fields \ {"spaces", "heap"} : second[f] = space[f]
  BY <1>3 DEF Fields
<1> HIDE DEF second
<1>5. /\ freed.spaces = space.spaces /\ DOMAIN freed = Fields
      /\ freed.heap = Kfree(second.heap, space.heap.next)
      /\ \A f \in Fields \ {"spaces", "heap"} : freed[f] = space[f]
  BY <1>4 DEF Fields
<1> HIDE DEF freed
<1>6. /\ r.spaces = space.spaces /\ DOMAIN r = Fields
      /\ r.heap = Kfree(freed.heap, first.heap.next)
      /\ \A f \in Fields \ {"spaces", "heap"} : r[f] = space[f]
  BY <1>5 DEF Fields
<1> HIDE DEF r
<1>7. DOMAIN first.heap.blocks = {space.heap.next}
  BY <1>2, <1>3 DEF Kmalloc, NewHeap
<1>8. /\ DOMAIN second.heap.blocks = {space.heap.next, first.heap.next}
      /\ DOMAIN second.heap = {"next", "blocks"}
  BY <1>4, <1>7 DEF Kmalloc
<1>9. /\ DOMAIN freed.heap.blocks \subseteq {first.heap.next}
      /\ DOMAIN freed.heap = {"next", "blocks"}
  BY <1>5, <1>8 DEF Kfree
<1>10. DOMAIN r.heap.blocks = {}
  BY <1>6, <1>9 DEF Kfree
<1>11. r.threads = s.threads /\ r.runqueue = s.runqueue
  BY <1>2, <1>6 DEF Fields
<1> QED BY <1>1, <1>2, <1>6, <1>10, <1>11 DEF Formed, SameBut

\* The four kernel threads of idle: itself not queued, the other three queued
\* behind each other and the first of them running.
LEMMA SchedulerLeaves ==
  ASSUME NEW s, Formed(s), s.threads = <<>>, s.runqueue = <<>>
  PROVE  LET r == Last(SchedulerStart(s))
         IN  /\ Formed(r) /\ SameBut(s, r, {"threads", "runqueue", "current"})
             /\ Len(r.threads) = 4 /\ \A t \in 1 .. 4 : r.threads[t].pid = 0
             /\ \A t \in 1 .. 4 :
                  r.threads[t].state = IF t = 2 THEN "RUNNING" ELSE "RUNNABLE"
             /\ r.runqueue = <<2, 3, 4>> /\ r.current = 2
<1> DEFINE spawned == SpawnThread(s, 0, 1)
           idle    == [SpawnThread(s, 0, 1) EXCEPT !.threads[LastTid(s) + 1].state = "RUNNABLE"]
           worker1 == SpawnThread(idle, 0, DefaultSlice)
           worker2 == SpawnThread(worker1, 0, DefaultSlice)
           worker3 == SpawnThread(worker2, 0, DefaultSlice)
           queued1 == AddToQueue(worker3, LastTid(worker1))
           queued2 == AddToQueue(queued1, LastTid(worker2))
           queued3 == AddToQueue(queued2, LastTid(worker3))
           r       == Ticked(queued3)
           kept    == Fields \ {"threads", "runqueue", "current"}
<1>1. Last(SchedulerStart(s)) = r
  BY DEF SchedulerStart, Last
<1>2. LastTid(s) = 0 /\ DefaultSlice \in Nat
  BY DEF LastTid, DefaultSlice
<1>3. Spawned(s, spawned, 0) /\ Len(spawned.threads) = 1 /\ spawned.threads[1].pid = 0
  <2>1. Spawned(s, spawned, 0)
    BY SpawnThreadLeaves
  <2> HIDE DEF spawned
  <2> QED BY <2>1 DEF Spawned
<1>4. /\ Formed(idle) /\ Len(idle.threads) = 1
      /\ idle.threads[1].pid = 0 /\ idle.threads[1].state = "RUNNABLE"
      /\ idle.runqueue = <<>>
      /\ \A f \in kept : idle[f] = s[f]
  <2> DEFINE q == [spawned.threads EXCEPT ![1].state = "RUNNABLE"]
  <2>1. idle = [spawned EXCEPT !.threads = q]
    BY <1>2
  <2> HIDE DEF spawned, idle
  <2>2. "RUNNABLE" \in ThreadStates /\ spawned.threads \in Seq(ThreadRecord)
        /\ 1 \in 1 .. Len(spawned.threads)
    BY <1>3 DEF ThreadStates, Formed, Spawned
  <2>3. Moved(spawned.threads, q, 1, "RUNNABLE")
    BY <2>2, StateLeaves
  <2> HIDE DEF q
  <2>4. idle.threads = q /\ DOMAIN idle = Fields
        /\ \A f \in Fields : f # "threads" => idle[f] = spawned[f]
    BY <1>3, <2>1 DEF Formed, Fields, Spawned
  <2>5. idle.runqueue = <<>>
    BY <1>3, <2>4 DEF SameBut, Fields, Spawned
  <2>6. idle.runqueue \in Seq(Nat)
    BY <2>5
  <2> QED BY <1>3, <2>3, <2>4, <2>5, <2>6 DEF Formed, SameBut, Spawned, Moved
<1> HIDE DEF idle
<1>5. /\ Formed(worker1) /\ Len(worker1.threads) = 2 /\ worker1.runqueue = <<>>
      /\ \A t \in 1 .. 2 : worker1.threads[t].pid = 0
      /\ worker1.threads[1].state = "RUNNABLE"
      /\ \A f \in kept : worker1[f] = s[f]
  <2>1. Spawned(idle, worker1, 0)
    BY <1>2, <1>4, SpawnThreadLeaves
  <2> HIDE DEF worker1
  <2>2. \A f \in Fields \ {"threads"} : worker1[f] = idle[f]
    BY <2>1 DEF Spawned, SameBut
  <2>3. \A t \in 1 .. 1 : worker1.threads[t] = idle.threads[t]
    BY <1>4, <2>1 DEF Spawned
  <2>4. worker1.runqueue = <<>> /\ \A f \in kept : worker1[f] = s[f]
    BY <1>4, <2>2 DEF Fields
  <2>5. Formed(worker1) /\ Len(worker1.threads) = 2 /\ worker1.threads[2].pid = 0
    BY <1>4, <2>1 DEF Spawned
  <2>6. \A t \in 1 .. 2 : t = 2 \/ t \in 1 .. 1
    OBVIOUS
  <2> QED BY <1>4, <2>3, <2>4, <2>5, <2>6
<1> HIDE DEF worker1
<1>6. /\ Formed(worker2) /\ Len(worker2.threads) = 3 /\ worker2.runqueue = <<>>
      /\ \A t \in 1 .. 3 : worker2.threads[t].pid = 0
      /\ worker2.threads[1].state = "RUNNABLE"
      /\ \A f \in kept : worker2[f] = s[f]
  <2>1. Spawned(worker1, worker2, 0)
    BY <1>2, <1>5, SpawnThreadLeaves
  <2> HIDE DEF worker2
  <2>2. \A f \in Fields \ {"threads"} : worker2[f] = worker1[f]
    BY <2>1 DEF Spawned, SameBut
  <2>3. \A t \in 1 .. 2 : worker2.threads[t] = worker1.threads[t]
    BY <1>5, <2>1 DEF Spawned
  <2>4. worker2.runqueue = <<>> /\ \A f \in kept : worker2[f] = s[f]
    BY <1>5, <2>2 DEF Fields
  <2>5. Formed(worker2) /\ Len(worker2.threads) = 3 /\ worker2.threads[3].pid = 0
    BY <1>5, <2>1 DEF Spawned
  <2>6. \A t \in 1 .. 3 : t = 3 \/ t \in 1 .. 2
    OBVIOUS
  <2> QED BY <1>5, <2>3, <2>4, <2>5, <2>6
<1> HIDE DEF worker2
<1>7. /\ Formed(worker3) /\ Len(worker3.threads) = 4 /\ worker3.runqueue = <<>>
      /\ \A t \in 1 .. 4 : worker3.threads[t].pid = 0
      /\ worker3.threads[1].state = "RUNNABLE"
      /\ \A f \in kept : worker3[f] = s[f]
  <2>1. Spawned(worker2, worker3, 0)
    BY <1>2, <1>6, SpawnThreadLeaves
  <2> HIDE DEF worker3
  <2>2. \A f \in Fields \ {"threads"} : worker3[f] = worker2[f]
    BY <2>1 DEF Spawned, SameBut
  <2>3. \A t \in 1 .. 3 : worker3.threads[t] = worker2.threads[t]
    BY <1>6, <2>1 DEF Spawned
  <2>4. worker3.runqueue = <<>> /\ \A f \in kept : worker3[f] = s[f]
    BY <1>6, <2>2 DEF Fields
  <2>5. Formed(worker3) /\ Len(worker3.threads) = 4 /\ worker3.threads[4].pid = 0
    BY <1>6, <2>1 DEF Spawned
  <2>6. \A t \in 1 .. 4 : t = 4 \/ t \in 1 .. 3
    OBVIOUS
  <2> QED BY <1>6, <2>3, <2>4, <2>5, <2>6
<1> HIDE DEF worker3
<1>8. /\ Formed(queued1) /\ Len(queued1.threads) = 4 /\ queued1.runqueue = <<2>>
      /\ \A t \in 1 .. 4 : queued1.threads[t].pid = 0
      /\ \A t \in 1 .. 2 : queued1.threads[t].state = "RUNNABLE"
      /\ \A f \in kept : queued1[f] = s[f]
  <2>1. LastTid(worker1) = 2 /\ 2 \in 1 .. Len(worker3.threads) /\ Formed(worker3)
    BY <1>5, <1>7 DEF LastTid
  <2>2. Append(worker3.runqueue, 2) = <<2>>
    BY <1>7, QueueFills
  <2>3. Queued(worker3, queued1, 2)
    BY <2>1, AddToQueueLeaves
  <2> HIDE DEF queued1
  <2>4. \A f \in kept : queued1[f] = s[f]
    BY <1>7, <2>3 DEF Queued, SameBut
  <2>5. /\ \A u \in 1 .. 4 : u # 2 => queued1.threads[u] = worker3.threads[u]
        /\ queued1.threads[2].pid = 0 /\ queued1.threads[2].state = "RUNNABLE"
        /\ Formed(queued1) /\ Len(queued1.threads) = 4 /\ queued1.runqueue = <<2>>
    BY <1>7, <2>2, <2>3 DEF Queued
  <2>6. \A u \in 1 .. 2 : u = 2 \/ u \in 1 .. 1
    OBVIOUS
  <2>7. \A u \in 1 .. 2 : u \in 1 .. 4
    OBVIOUS
  <2> QED BY <1>7, <2>4, <2>5, <2>6, <2>7
<1> HIDE DEF queued1
<1>9. /\ Formed(queued2) /\ Len(queued2.threads) = 4 /\ queued2.runqueue = <<2, 3>>
      /\ \A t \in 1 .. 4 : queued2.threads[t].pid = 0
      /\ \A t \in 1 .. 3 : queued2.threads[t].state = "RUNNABLE"
      /\ \A f \in kept : queued2[f] = s[f]
  <2>1. LastTid(worker2) = 3 /\ 3 \in 1 .. Len(queued1.threads) /\ Formed(queued1)
    BY <1>6, <1>8 DEF LastTid
  <2>2. Append(queued1.runqueue, 3) = <<2, 3>>
    BY <1>8, QueueFills
  <2>3. Queued(queued1, queued2, 3)
    BY <2>1, AddToQueueLeaves
  <2> HIDE DEF queued2
  <2>4. \A f \in kept : queued2[f] = s[f]
    BY <1>8, <2>3 DEF Queued, SameBut
  <2>5. /\ \A u \in 1 .. 4 : u # 3 => queued2.threads[u] = queued1.threads[u]
        /\ queued2.threads[3].pid = 0 /\ queued2.threads[3].state = "RUNNABLE"
        /\ Formed(queued2) /\ Len(queued2.threads) = 4 /\ queued2.runqueue = <<2, 3>>
    BY <1>8, <2>2, <2>3 DEF Queued
  <2>6. \A u \in 1 .. 3 : u = 3 \/ u \in 1 .. 2
    OBVIOUS
  <2>7. \A u \in 1 .. 3 : u \in 1 .. 4
    OBVIOUS
  <2> QED BY <1>8, <2>4, <2>5, <2>6, <2>7
<1> HIDE DEF queued2
<1>10. /\ Formed(queued3) /\ Len(queued3.threads) = 4 /\ queued3.runqueue = <<2, 3, 4>>
       /\ \A t \in 1 .. 4 : queued3.threads[t].pid = 0
       /\ \A t \in 1 .. 4 : queued3.threads[t].state = "RUNNABLE"
      /\ \A f \in kept : queued3[f] = s[f]
  <2>1. LastTid(worker3) = 4 /\ 4 \in 1 .. Len(queued2.threads) /\ Formed(queued2)
    BY <1>7, <1>9 DEF LastTid
  <2>2. Append(queued2.runqueue, 4) = <<2, 3, 4>>
    BY <1>9, QueueFills
  <2>3. Queued(queued2, queued3, 4)
    BY <2>1, AddToQueueLeaves
  <2> HIDE DEF queued3
  <2>4. \A f \in kept : queued3[f] = s[f]
    BY <1>9, <2>3 DEF Queued, SameBut
  <2>5. /\ \A u \in 1 .. 4 : u # 4 => queued3.threads[u] = queued2.threads[u]
        /\ queued3.threads[4].pid = 0 /\ queued3.threads[4].state = "RUNNABLE"
        /\ Formed(queued3) /\ Len(queued3.threads) = 4 /\ queued3.runqueue = <<2, 3, 4>>
    BY <1>9, <2>2, <2>3 DEF Queued
  <2>6. \A u \in 1 .. 4 : u = 4 \/ u \in 1 .. 3
    OBVIOUS
  <2>7. \A u \in 1 .. 4 : u \in 1 .. 4
    OBVIOUS
  <2> QED BY <1>9, <2>4, <2>5, <2>6, <2>7
<1> HIDE DEF queued3
<1> DEFINE q == queued3.threads
           q1 == [q EXCEPT ![2].state = "RUNNING"]
           q2 == [q1 EXCEPT ![2].remaining = DefaultSlice - BootTicks]
<1>11. /\ r.current = 2 /\ r.runqueue = <<2, 3, 4>> /\ DOMAIN r = Fields /\ r.threads = q2
       /\ \A f \in kept : r[f] = s[f]
  <2>1. Head(queued3.runqueue) = 2
    BY <1>10
  <2> DEFINE s1 == [queued3 EXCEPT !.current = 2]
             s2 == [s1 EXCEPT !.threads = q1]
  <2>2. DOMAIN s1 = Fields /\ s1.threads = q /\ s1.current = 2
        /\ \A f \in Fields : f # "current" => s1[f] = queued3[f]
    BY <1>10 DEF Formed, Fields
  <2>3. DOMAIN s2 = Fields /\ s2.threads = q1
        /\ \A f \in Fields : f # "threads" => s2[f] = s1[f]
    BY <2>2 DEF Fields
  <2>4. r = [s2 EXCEPT !.threads = q2]
    BY <2>1, <2>2, <2>3 DEF Ticked
  <2> HIDE DEF s1, s2, q2, r
  <2>5. DOMAIN r = Fields /\ r.threads = q2
        /\ \A f \in Fields : f # "threads" => r[f] = s2[f]
    BY <2>3, <2>4 DEF Fields
  <2> QED BY <1>10, <2>2, <2>3, <2>5 DEF Fields
<1>12. /\ r.threads \in Seq(ThreadRecord) /\ Len(r.threads) = 4
       /\ r.threads[2].pid = 0 /\ r.threads[2].state = "RUNNING"
       /\ \A t \in 1 .. 4 : t # 2 => r.threads[t] = q[t]
  <2>1. q \in Seq(ThreadRecord) /\ Len(q) = 4 /\ q[2].pid = 0 /\ 2 \in 1 .. Len(q)
    BY <1>10 DEF Formed
  <2> HIDE DEF q
  <2>2. Moved(q, q1, 2, "RUNNING")
    <3>1. "RUNNING" \in ThreadStates
      BY DEF ThreadStates
    <3> QED BY <2>1, <3>1, StateLeaves
  <2> HIDE DEF q1
  <2>3. DefaultSlice - BootTicks \in Nat /\ q1 \in Seq(ThreadRecord) /\ 2 \in 1 .. Len(q1)
    BY <2>1, <2>2 DEF DefaultSlice, BootTicks, Moved
  <2>4. Moved(q1, q2, 2, q1[2].state)
    BY <2>3, RemainingLeaves
  <2> HIDE DEF q2
  <2> QED BY <1>11, <2>1, <2>2, <2>4 DEF Moved
<1> HIDE DEF r
<1>13. r.runqueue \in Seq(Nat)
  BY <1>11
<1> QED BY <1>1, <1>10, <1>11, <1>12, <1>13 DEF Formed, SameBut

\* The root directory is filled, and each device and the driver that claims it
\* know of each other.
LEMMA DevicesLeave ==
  ASSUME NEW s, Formed(s)
  PROVE  LET r == Last(VfsDeviceInit(s))
         IN  /\ Formed(r) /\ SameBut(s, r, {"mounted", "entries", "devices", "drivers"})
             /\ r.mounted /\ r.entries = RootDirs \cup RootFiles
             /\ r.devices = [d \in DeviceNames |-> DriverOf(d)]
             /\ \A i \in DOMAIN r.drivers :
                  r.drivers[i].bound = {d \in DeviceNames : DriverOf(d) = r.drivers[i].name}
<1> DEFINE root    == [s EXCEPT !.mounted = TRUE, !.entries = {}]
           dirs    == [root EXCEPT !.entries = RootDirs]
           files   == [dirs EXCEPT !.entries = @ \cup RootFiles]
           devices == [files EXCEPT !.devices = [d \in DeviceNames |-> ""]]
           drivers == [devices EXCEPT !.drivers =
                         [i \in DOMAIN Drivers |-> [name |-> Drivers[i].name, bound |-> {}]]]
           r       == Probed(drivers)
           kept    == Fields \ {"mounted", "entries", "devices", "drivers"}
<1>1. Last(VfsDeviceInit(s)) = r
  BY DEF VfsDeviceInit, Last
<1>2. DOMAIN root = Fields /\ root.mounted /\ \A f \in kept : root[f] = s[f]
  BY DEF Formed, Fields
<1> HIDE DEF root
<1>3. /\ DOMAIN dirs = Fields /\ dirs.mounted /\ dirs.entries = RootDirs
      /\ \A f \in kept : dirs[f] = s[f]
  BY <1>2 DEF Fields
<1> HIDE DEF dirs
<1>4. /\ DOMAIN files = Fields /\ files.mounted /\ files.entries = RootDirs \cup RootFiles
      /\ \A f \in kept : files[f] = s[f]
  BY <1>3 DEF Fields
<1> HIDE DEF files
<1>5. /\ DOMAIN devices = Fields /\ devices.mounted
      /\ devices.entries = RootDirs \cup RootFiles
      /\ DOMAIN devices.devices = DeviceNames
      /\ \A f \in kept : devices[f] = s[f]
  BY <1>4 DEF Fields
<1> HIDE DEF devices
<1>6. /\ DOMAIN drivers = Fields /\ drivers.mounted
      /\ drivers.entries = RootDirs \cup RootFiles
      /\ DOMAIN drivers.devices = DeviceNames
      /\ drivers.drivers = [i \in DOMAIN Drivers |-> [name |-> Drivers[i].name, bound |-> {}]]
      /\ \A f \in kept : drivers[f] = s[f]
  BY <1>5 DEF Fields
<1> HIDE DEF drivers
<1> DEFINE table == [d \in DeviceNames |-> DriverOf(d)]
           list  == [i \in DOMAIN drivers.drivers |->
                       [drivers.drivers[i] EXCEPT
                          !.bound = {d \in DeviceNames : DriverOf(d) = drivers.drivers[i].name}]]
<1>7. r = [[drivers EXCEPT !.devices = table] EXCEPT !.drivers = list]
  BY <1>6 DEF Probed
<1>8. \A i \in DOMAIN list :
        list[i].bound = {d \in DeviceNames : DriverOf(d) = list[i].name}
  BY <1>6
<1> HIDE DEF table, list, r
<1>9. /\ DOMAIN r = Fields /\ r.mounted /\ r.entries = RootDirs \cup RootFiles
      /\ r.devices = table /\ r.drivers = list
      /\ \A f \in kept : r[f] = s[f]
  BY <1>6, <1>7 DEF Fields
<1>10. r.threads = s.threads /\ r.runqueue = s.runqueue
  BY <1>9 DEF Fields
<1> QED BY <1>1, <1>8, <1>9, <1>10 DEF Formed, SameBut, table

\* The first process is a child of idle with a space and a queued thread.
LEMMA UserspaceLeaves ==
  ASSUME NEW s, Formed(s), s.nextPid = 2, s.processes = Fresh.processes,
         Len(s.threads) = 4, s.runqueue = <<2, 3, 4>>
  PROVE  LET r == Last(UserspaceInit(s))
         IN  /\ SameBut(s, r, {"nextPid", "processes", "threads", "runqueue", "spaces"})
             /\ r.nextPid = 3 /\ DOMAIN r.processes = {0, 2}
             /\ r.processes[2] = [ppid |-> 0, state |-> "RUNNABLE", children |-> <<>>]
             /\ r.processes[0].children = <<2>>
             /\ r.spaces = s.spaces \cup {2}
             /\ r.runqueue = <<2, 3, 4, 5>>
             /\ DOMAIN r.threads = 1 .. 5
             /\ \A t \in 1 .. 4 : r.threads[t] = s.threads[t]
             /\ r.threads[5].pid = 2 /\ r.threads[5].state = "RUNNABLE"
<1> DEFINE process == SpawnProcess(s, 0, "RUNNABLE")
           thread  == SpawnThread(process, s.nextPid, DefaultSlice)
           queued  == AddToQueue(thread, LastTid(thread))
           r       == WithSpace(queued, s.nextPid)
           kept    == Fields \ {"nextPid", "processes", "threads", "runqueue", "spaces"}
<1>1. Last(UserspaceInit(s)) = r
  BY DEF UserspaceInit, Last
<1> DEFINE idle  == [ppid |-> 0, state |-> "RUNNABLE", children |-> <<>>]
           first == [ppid |-> 0, state |-> "RUNNABLE", children |-> <<>>]
           table == [p \in {0, 2} |->
                       IF p = 2 THEN first ELSE WithChild(idle, 2)]
<1>2. s.processes = [p \in {0} |-> idle]
  BY DEF Fresh
<1>3. /\ process.nextPid = 3 /\ process.processes = table
      /\ DOMAIN process = Fields
      /\ \A f \in Fields \ {"nextPid", "processes"} : process[f] = s[f]
  <2> DEFINE T == [p \in DOMAIN s.processes \cup {s.nextPid} |->
                     IF p = s.nextPid THEN first
                     ELSE IF p = 0 THEN WithChild(s.processes[p], s.nextPid)
                     ELSE s.processes[p]]
  <2>1. process = [s EXCEPT !.nextPid = s.nextPid + 1, !.processes = T]
    BY DEF SpawnProcess
  <2>2. T = table
    <3>1. DOMAIN s.processes \cup {s.nextPid} = {0, 2}
      BY <1>2
    <3>2. \A p \in {0, 2} : p # 2 => s.processes[p] = idle
      BY <1>2
    <3> HIDE DEF idle, first
    <3> QED BY <3>1, <3>2
  <2> HIDE DEF T, table, process
  <2> DEFINE s1 == [s EXCEPT !.nextPid = 3]
  <2>3. DOMAIN s1 = Fields /\ s1.nextPid = 3
        /\ \A f \in Fields : f # "nextPid" => s1[f] = s[f]
    BY DEF Formed, Fields
  <2>4. process = [s1 EXCEPT !.processes = table]
    BY <2>1, <2>2
  <2> HIDE DEF s1
  <2>5. DOMAIN process = Fields /\ process.processes = table
        /\ \A f \in Fields : f # "processes" => process[f] = s1[f]
    BY <2>3, <2>4 DEF Fields
  <2> QED BY <2>3, <2>5 DEF Fields
<1>4. table[0].children = <<2>> /\ table[2] = first /\ DOMAIN table = {0, 2}
  <2>1. table[0] = WithChild(idle, 2)
    OBVIOUS
  <2>2. table[0].children = Append(<<>>, 2)
    BY <2>1 DEF WithChild
  <2>3. table[2] = first /\ DOMAIN table = {0, 2}
    OBVIOUS
  <2> QED BY <2>2, <2>3, QueueFills
<1> HIDE DEF process, table
<1>5. Formed(process) /\ process.threads = s.threads /\ process.runqueue = s.runqueue
  BY <1>3 DEF Formed, Fields
<1>6. Spawned(process, thread, 2)
  <2>1. s.nextPid \in Nat /\ DefaultSlice \in Nat
    BY DEF DefaultSlice
  <2> QED BY <1>5, <2>1, SpawnThreadLeaves
<1> HIDE DEF thread
<1>7. Formed(thread) /\ Len(thread.threads) = 5 /\ LastTid(thread) = 5
      /\ thread.runqueue = <<2, 3, 4>>
  BY <1>5, <1>6 DEF Spawned, LastTid, SameBut, Fields
<1>8. Queued(thread, queued, 5)
  <2>1. 5 \in 1 .. Len(thread.threads)
    BY <1>7
  <2> QED BY <1>7, <2>1, AddToQueueLeaves
<1> HIDE DEF queued
<1>9. DOMAIN r = Fields /\ r.spaces = queued.spaces \cup {2}
      /\ \A f \in Fields : f # "spaces" => r[f] = queued[f]
  BY <1>8 DEF WithSpace, Queued, Formed, Fields
<1> HIDE DEF r
<1>10. /\ queued.runqueue = <<2, 3, 4, 5>> /\ queued.threads \in Seq(ThreadRecord)
       /\ Len(queued.threads) = 5
       /\ queued.threads[5].pid = 2 /\ queued.threads[5].state = "RUNNABLE"
       /\ \A t \in 1 .. 4 : queued.threads[t] = thread.threads[t]
  <2>1. thread.threads[5].pid = 2
    <3>1. Len(process.threads) = 4
      BY <1>5
    <3>2. thread.threads[Len(process.threads) + 1].pid = 2
      BY <1>6 DEF Spawned
    <3>3. 4 + 1 = 5
      OBVIOUS
    <3> QED BY <3>1, <3>2, <3>3
  <2> QED BY <1>7, <1>8, <2>1, QueueFills DEF Queued, Formed
<1>11. \A t \in 1 .. 4 : thread.threads[t] = s.threads[t]
  BY <1>5, <1>6 DEF Spawned
<1>12. \A f \in Fields \ {"threads", "runqueue"} : queued[f] = process[f]
  BY <1>6, <1>8 DEF Spawned, Queued, SameBut
<1>13. /\ r.nextPid = 3 /\ r.processes = table /\ r.spaces = s.spaces \cup {2}
       /\ \A f \in kept : r[f] = s[f]
  BY <1>3, <1>9, <1>12 DEF Fields
<1>14. r.threads = queued.threads /\ r.runqueue = queued.runqueue
  BY <1>9 DEF Fields
<1>15. DOMAIN r.threads = 1 .. 5
  BY <1>10, <1>14, LenProperties
<1> QED BY <1>1, <1>4, <1>9, <1>10, <1>11, <1>13, <1>14, <1>15 DEF SameBut

\* The stages one after the other, from new subsystems.
LEMMA BootedIsReady ==
  Ready(Last(UserspaceInit(Before("USERSPACE_INIT", Fresh))))
<1> DEFINE a == Last(ArchEarlyInit(Fresh))
           m == Last(MemoryBringup(a))
           c == Last(SchedulerStart(m))
           d == Last(VfsDeviceInit(c))
           u == Last(UserspaceInit(d))
<1>1. Before("USERSPACE_INIT", Fresh) = d
  BY DEF Before
<1>2. /\ Formed(a) /\ a.features /\ a.spaces = {} /\ a.heap = NewHeap
      /\ a.threads = <<>> /\ a.runqueue = <<>>
      /\ a.processes = Fresh.processes /\ a.nextPid = 2
  <2>1. a = [Fresh EXCEPT !.features = TRUE]
    BY DEF ArchEarlyInit, Last
  <2>2. <<>> \in Seq(ThreadRecord) /\ <<>> \in Seq(Nat)
    OBVIOUS
  <2> QED BY <2>1, <2>2 DEF Fresh, Formed, Fields
<1> HIDE DEF a
<1>3. Formed(m) /\ SameBut(a, m, {"spaces", "heap"})
      /\ m.spaces = {0} /\ DOMAIN m.heap.blocks = {}
  BY <1>2, MemoryLeaves
<1> HIDE DEF m
<1>4. /\ m.features /\ m.threads = <<>> /\ m.runqueue = <<>>
      /\ m.processes = Fresh.processes /\ m.nextPid = 2
  BY <1>2, <1>3 DEF SameBut, Fields
<1>5. /\ Formed(c) /\ SameBut(m, c, {"threads", "runqueue", "current"})
      /\ Len(c.threads) = 4 /\ \A t \in 1 .. 4 : c.threads[t].pid = 0
      /\ \A t \in 1 .. 4 : c.threads[t].state = IF t = 2 THEN "RUNNING" ELSE "RUNNABLE"
      /\ c.runqueue = <<2, 3, 4>> /\ c.current = 2
  BY <1>3, <1>4, SchedulerLeaves
<1> HIDE DEF c
<1>6. /\ c.features /\ c.spaces = {0} /\ DOMAIN c.heap.blocks = {}
      /\ c.processes = Fresh.processes /\ c.nextPid = 2
  BY <1>3, <1>4, <1>5 DEF SameBut, Fields
<1>7. /\ Formed(d) /\ SameBut(c, d, {"mounted", "entries", "devices", "drivers"})
      /\ d.mounted /\ d.entries = RootDirs \cup RootFiles
      /\ d.devices = [e \in DeviceNames |-> DriverOf(e)]
      /\ \A i \in DOMAIN d.drivers :
           d.drivers[i].bound = {e \in DeviceNames : DriverOf(e) = d.drivers[i].name}
  BY <1>5, DevicesLeave
<1> HIDE DEF d
<1>8. /\ d.features /\ d.spaces = {0} /\ DOMAIN d.heap.blocks = {}
      /\ d.processes = Fresh.processes /\ d.nextPid = 2
      /\ d.threads = c.threads /\ d.runqueue = <<2, 3, 4>> /\ d.current = 2
  BY <1>5, <1>6, <1>7 DEF SameBut, Fields
<1>9. /\ SameBut(d, u, {"nextPid", "processes", "threads", "runqueue", "spaces"})
      /\ u.nextPid = 3 /\ DOMAIN u.processes = {0, 2}
      /\ u.processes[2] = [ppid |-> 0, state |-> "RUNNABLE", children |-> <<>>]
      /\ u.processes[0].children = <<2>>
      /\ u.spaces = {0, 2} /\ u.runqueue = <<2, 3, 4, 5>>
      /\ DOMAIN u.threads = 1 .. 5
      /\ \A t \in 1 .. 4 : u.threads[t] = d.threads[t]
      /\ u.threads[5].pid = 2 /\ u.threads[5].state = "RUNNABLE"
  BY <1>5, <1>7, <1>8, UserspaceLeaves
<1> HIDE DEF u
<1>10. /\ u.features /\ DOMAIN u.heap.blocks = {} /\ u.current = 2
       /\ u.mounted /\ u.entries = RootDirs \cup RootFiles
       /\ u.devices = d.devices /\ u.drivers = d.drivers
  BY <1>7, <1>8, <1>9 DEF SameBut, Fields
<1>11. u.current = Head(u.runqueue)
  BY <1>9, <1>10
<1>12. \A t \in DOMAIN u.threads :
         /\ u.threads[t].pid \in DOMAIN u.processes
         /\ u.threads[t].state = IF t = u.current THEN "RUNNING" ELSE "RUNNABLE"
  <2> TAKE t \in DOMAIN u.threads
  <2>1. t \in 1 .. 4 \/ t = 5
    BY <1>9
  <2> QED BY <1>5, <1>8, <1>9, <1>10, <2>1
<1>13. \A e \in DOMAIN u.devices, i \in DOMAIN u.drivers :
         u.devices[e] = u.drivers[i].name <=> e \in u.drivers[i].bound
  BY <1>7, <1>10
<1> QED BY <1>1, <1>9, <1>10, <1>11, <1>12, <1>13 DEF Ready, u

\* A boot that succeeds leaves the same subsystems, ready, wherever those before
\* it failed and whatever was done to the kernel since.
THEOREM BootsAreReady == KernelSpec => BootedKernelIsReady
<1>1. ASSUME KernelNext, booted', NEW p \in Profiles, ShellBoot(p) \/ ShellReboot(p)
      PROVE  Ready(sys)'
  <2>1. InitAndBoot /\ sys' \in AfterAll(results', Fresh)
    BY <1>1 DEF ShellBoot, ShellReboot, DoBoot, DoReboot, Booting, NewSystem
  <2>2. results' = [i \in 1 .. 8 |-> ResultOf(i, TRUE)]
    BY <1>1, <2>1, BootFacts, StagesFacts DEF BootInv, BootedMeansAllSucceeded
  <2>3. Last(results') = [stage |-> "USERSPACE_INIT", success |-> TRUE]
    <3> DEFINE log == [i \in 1 .. 8 |-> ResultOf(i, TRUE)]
    <3>1. Len(log) = 8
      OBVIOUS
    <3>2. log[8] = [stage |-> "USERSPACE_INIT", success |-> TRUE]
      <4>1. log[8] = ResultOf(8, TRUE) /\ Stages[8] = "USERSPACE_INIT"
        BY DEF Stages
      <4> QED BY <4>1 DEF ResultOf
    <3> HIDE DEF log
    <3> QED BY <2>2, <3>1, <3>2 DEF Last, log
  <2> DEFINE s == Before("USERSPACE_INIT", Fresh)
  <2>4. sys' \in After(Last(results'), s)
    BY <2>1, <2>3 DEF AfterAll
  <2> HIDE DEF s
  <2>5. After([stage |-> "USERSPACE_INIT", success |-> TRUE], s) = {Last(UserspaceInit(s))}
    BY DEF After, Course, Last
  <2>6. sys' = Last(UserspaceInit(s))
    BY <2>3, <2>4, <2>5
  <2>7. Ready(sys')
    BY <2>6, BootedIsReady DEF s
  <2> QED BY <2>7 DEF Ready
<1>2. [KernelNext]_kernelVars =>
        [booted' /\ (\E p \in Profiles : ShellBoot(p) \/ ShellReboot(p)) => Ready(sys)']_kernelVars
  BY <1>1
<1> QED BY <1>2, PTL DEF KernelSpec, BootedKernelIsReady

=============================================================================
