---------------------------- MODULE ModuleLoader ----------------------------
(***************************************************************************)
(* computekernel_edu/module_loader.py: the available modules, which of     *)
(* them are loaded, and the table of the symbols they export.              *)
(*                                                                         *)
(* Versions, descriptions and parameters are left out.  A module is        *)
(* registered, as KernelState.init does, while it is not loaded; insmod    *)
(* and rmmod come in any order; a boot puts a new loader in the place of   *)
(* the old one.                                                            *)
(***************************************************************************)
EXTENDS Functions

CONSTANTS
  Name,         \* names of modules, of dependencies that are missing too
  Symbol,
  Exports       \* what the module of each name exports

ASSUME ExportsAssumption == Exports \in [Name -> SUBSET Symbol]

\* In the catalogue of make_default_modules no two modules export the same.
DisjointExports == \A m, n \in Name : m # n => Exports[m] \cap Exports[n] = {}

VARIABLES
  modules,      \* ModuleLoader._available
  symbols,      \* ModuleLoader._symbol_table
  modulesEnabled    \* KernelProfile.modules_enabled

vars == <<modules, symbols, modulesEnabled>>

Module    == [dependencies : SUBSET Name, isLoaded : BOOLEAN]
Available == DOMAIN modules
Loaded    == {n \in Available : modules[n].isLoaded}

NoSymbols == [s \in {} |-> ""]

\* Some modules, with any dependencies, and none of them loaded.
Catalogues ==
  UNION {[R -> [dependencies : SUBSET Name, isLoaded : {FALSE}]] : R \in SUBSET Name}

Init == modules \in Catalogues /\ symbols = NoSymbols /\ modulesEnabled \in BOOLEAN

\* Mutant: dependencies need not be loaded.
DepsRegistered(n) == modules[n].dependencies \subseteq Available

DepsAreLoaded(n) == modules[n].dependencies \subseteq Loaded

LoadingAllowed == modulesEnabled

\* load: the symbols of a module replace entries of the same name.  Loading a
\* loaded module changes nothing.
Load(n) ==
  /\ LoadingAllowed
  /\ n \in Available \ Loaded
  /\ DepsAreLoaded(n)
  /\ modules' = [modules EXCEPT ![n].isLoaded = TRUE]
  /\ symbols' = [s \in DOMAIN symbols \cup Exports[n] |->
                   IF s \in Exports[n] THEN n ELSE symbols[s]]
  /\ UNCHANGED modulesEnabled

\* Needed by a loaded module, itself included.
Needed(n) == \E m \in Loaded : n \in modules[m].dependencies

\* Mutant: the symbols of a module stay.
SymbolsKept(n) == symbols

\* The entries are dropped by symbol, whoever they point to.
SymbolsWithout(n) == Restrict(symbols, DOMAIN symbols \ Exports[n])

\* unload, of a module that no loaded one depends on.  The profile is not asked.
Unload(n) ==
  /\ n \in Loaded
  /\ ~Needed(n)
  /\ symbols' = SymbolsWithout(n)
  /\ modules' = [modules EXCEPT ![n].isLoaded = FALSE]
  /\ UNCHANGED modulesEnabled

\* register puts a new object under the name, in place of any other.
Register(n, deps) ==
  /\ modules' = [m \in Available \cup {n} |->
       IF m = n THEN [dependencies |-> deps, isLoaded |-> FALSE] ELSE modules[m]]
  /\ UNCHANGED <<symbols, modulesEnabled>>

\* Nobody registers a module that is loaded: its object would be replaced by
\* one that is not.
RegisterUnloaded(n, deps) == n \notin Loaded /\ Register(n, deps)

\* KernelState.init: a loader of its own for each boot, under any profile.
NewLoader ==
  modules' \in Catalogues /\ symbols' = NoSymbols /\ modulesEnabled' \in BOOLEAN

Next ==
  \/ \E n \in Name :
       \/ Load(n)
       \/ Unload(n)
       \/ \E deps \in SUBSET Name : RegisterUnloaded(n, deps)
  \/ NewLoader

Spec == Init /\ [][Next]_vars

----------------------------------------------------------------------------
\* The shape of the pool and of the symbol table.
TypeOK ==
  /\ Available \subseteq Name /\ modules \in [Available -> Module]
  /\ DOMAIN symbols \subseteq Symbol
  /\ \A s \in DOMAIN symbols : symbols[s] \in Name
  /\ modulesEnabled \in BOOLEAN

\* What a loaded module depends on is loaded, after any loads and unloads.
DepsLoaded == \A n \in Loaded : modules[n].dependencies \subseteq Loaded

\* A cycle of dependencies is never loaded, so the loaded modules can always
\* be taken out again, one by one.
SomethingCanBeUnloaded == Loaded # {} => \E n \in Loaded : ~Needed(n)

\* The symbol table has the exports of the loaded modules and nothing else,
\* each with the module it comes from.
SymbolsMatch ==
  /\ DOMAIN symbols = UNION {Exports[n] : n \in Loaded}
  /\ \A s \in DOMAIN symbols : symbols[s] \in Loaded /\ s \in Exports[symbols[s]]

\* With modules disabled nothing is loaded (profiles.py:23).
DisabledLoadsNothing == ~modulesEnabled => Loaded = {} /\ DOMAIN symbols = {}
=============================================================================
