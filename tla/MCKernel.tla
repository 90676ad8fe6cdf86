------------------------------ MODULE MCKernel ------------------------------
(***************************************************************************)
(* Two modules, one of them in the default catalogue: chains, cycles, a    *)
(* module that needs itself, and dependencies that are not registered.     *)
(* Two stages may fail: the one in the middle of whose calls the heap is   *)
(* in use, and the last one, after which no step is left.                  *)
(***************************************************************************)
EXTENDS Kernel

MCName    == {"ata", "raid"}
MCBuiltin == {"ata"}
MCSymbol  == {"s1", "s2", "s3"}
MCExports == [n \in MCName |-> IF n = "ata" THEN {"s1", "s2"} ELSE {"s3"}]
MCMayFail == {"MEMORY_BRINGUP", "USERSPACE_INIT"}
MCBlockSizes == {505}
=============================================================================
