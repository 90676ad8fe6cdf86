-------------------------------- MODULE Boot --------------------------------
(***************************************************************************)
(* Bringing the kernel up and down: the boot pipeline (boot.py), the       *)
(* KernelState that owns it (kernel.py), the power manager (power.py) and  *)
(* the shell commands boot, reboot, step and power (shell.py).             *)
(*                                                                         *)
(* What a stage does to the subsystems is in Kernel.  Here it succeeds or, *)
(* if it is one of MayFail, raises, which the pipeline turns into a failed *)
(* result.  The client is the shell, the one user of KernelState in the    *)
(* program.                                                                *)
(***************************************************************************)
EXTENDS Integers, Sequences, SequencesExt

CONSTANT MayFail        \* the stages that may fail

Stages == <<"FIRMWARE_HANDOFF", "BOOTLOADER_HANDOFF", "ARCH_EARLY_INIT",
            "MEMORY_BRINGUP", "INTERRUPT_TIMER_SETUP", "SCHEDULER_START",
            "VFS_DEVICE_INIT", "USERSPACE_INIT">>

ASSUME MayFailAssumption == MayFail \subseteq ToSet(Stages)

VARIABLES
  initComplete,     \* KernelState._init_complete
  booted,           \* KernelState.booted
  stageIndex,       \* BootPipeline._stage_index, from 1 here
  results,          \* BootPipeline._results
  pipelineBooted,   \* BootPipeline._booted
  power             \* PowerManager.state, "NONE" before there is one

pipeline == <<stageIndex, results, pipelineBooted>>
bootVars == <<initComplete, booted, pipeline, power>>

Result      == [stage : ToSet(Stages), success : BOOLEAN]
PowerStates == {"NONE", "RUNNING", "SUSPEND", "HIBERNATE", "SHUTDOWN", "REBOOT"}

BootInit ==
  /\ initComplete = FALSE /\ booted = FALSE
  /\ stageIndex = 1 /\ results = <<>> /\ pipelineBooted = FALSE
  /\ power = "NONE"

----------------------------------------------------------------------------
(* The pipeline.  A run of it starts at a stage after some results.        *)

ResultOf(i, ok) == [stage |-> Stages[i], success |-> ok]

\* run_all from the stage after log: stage after stage runs, until one fails
\* (ok is FALSE) or all have succeeded.
RunAll(from, log, ok) ==
  \E last \in from - 1 .. Len(Stages) :
    /\ IF ok THEN last = Len(Stages) ELSE last >= from /\ Stages[last] \in MayFail
    /\ stageIndex' = last + 1
    /\ results' = log \o [i \in 1 .. last - from + 1 |->
                            ResultOf(from + i - 1, ok \/ from + i - 1 < last)]

RecordBoot(ok) == booted' = ok /\ pipelineBooted' = ok

----------------------------------------------------------------------------
(* KernelState.                                                            *)

\* Mutant: init does not clear the pipeline, so the boot goes on where it was.
StartAgain == stageIndex

Start == 1

\* KernelState.init followed by boot: new subsystems, and all the stages run.
InitAndBoot ==
  /\ \E ok \in BOOLEAN : RunAll(Start, <<>>, ok) /\ RecordBoot(ok)
  /\ initComplete' = TRUE
  /\ power' = "RUNNING"

\* The next stage; the index moves whether it succeeds or not.
KernelStep ==
  /\ stageIndex <= Len(Stages)
  /\ stageIndex' = stageIndex + 1
  /\ \E ok \in BOOLEAN :
       /\ ok \/ Stages[stageIndex] \in MayFail
       /\ results' = Append(results, ResultOf(stageIndex, ok))
  /\ UNCHANGED <<initComplete, booted, pipelineBooted, power>>

----------------------------------------------------------------------------
(* The shell.                                                              *)

DoBoot == ~booted /\ InitAndBoot

\* The kernel object is built anew, whatever its state.
DoReboot == InitAndBoot

DoStep == initComplete /\ KernelStep

SetPower(state) == power' = state /\ UNCHANGED <<initComplete, booted, pipeline>>

DoShutdown == power # "NONE" /\ SetPower("SHUTDOWN")
DoSuspend  == power # "NONE" /\ SetPower("SUSPEND")
DoResume   == power = "SUSPEND" /\ SetPower("RUNNING")

DoPower == DoShutdown \/ DoSuspend \/ DoResume

BootNext == DoBoot \/ DoReboot \/ DoStep \/ DoPower

BootSpec == BootInit /\ [][BootNext]_bootVars

----------------------------------------------------------------------------
\* The shape of the state; a result is logged for every stage behind the index.
BootTypeOK ==
  /\ initComplete \in BOOLEAN /\ booted \in BOOLEAN /\ pipelineBooted \in BOOLEAN
  /\ results \in Seq(Result)
  /\ stageIndex = Len(results) + 1 /\ stageIndex <= Len(Stages) + 1
  /\ power \in PowerStates

\* The log has the stages in their order, each once.
LogIsOrdered == \A i \in DOMAIN results : results[i].stage = Stages[i]

\* The shell calls the kernel booted only when the pipeline that is there has
\* run every stage, in order and once, and none of them failed: whatever boots
\* failed, were stepped on or were repeated before.
BootedMeansAllSucceeded ==
  booted =>
    /\ pipelineBooted
    /\ results = [i \in DOMAIN Stages |-> ResultOf(i, TRUE)]
=============================================================================
