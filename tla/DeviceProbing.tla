--------------------------- MODULE DeviceProbing ---------------------------
(***************************************************************************)
(* Devices with a history variable: which drivers claimed a device when it *)
(* was probed and was given the driver that it has, those among them that  *)
(* were not registered then.  A device bound by hand has none.             *)
(***************************************************************************)
EXTENDS Devices

VARIABLE claimers

ProbingVars == <<vars, claimers>>

ProbingInit == Init /\ claimers = [d \in Device |-> {}]

\* What probe_device is told of the devices that have no driver.
ProbeAndNote(answers) ==
  /\ ProbeAll(answers)
  /\ claimers' = [d \in Device |->
       IF d \in Probed THEN {r \in Driver : <<r, d>> \in answers} ELSE claimers[d]]

BindByHand(r, d) == BindFree(r, d) /\ claimers' = [claimers EXCEPT ![d] = {}]

ProbingNext ==
  \/ \E d \in Device :
       (RegisterDevice(d) \/ UnregisterFreeDevice(d)) /\ UNCHANGED claimers
  \/ \E r \in Driver :
       (RegisterDriver(r) \/ UnregisterIdleDriver(r)) /\ UNCHANGED claimers
  \/ \E r \in Driver, d \in devices :
       BindByHand(r, d) \/ (RemoveBound(r, d) /\ UNCHANGED claimers)
  \/ \E answers \in SUBSET Probe : ProbeAndNote(answers)

ProbingSpec == ProbingInit /\ [][ProbingNext]_ProbingVars

\* Of the drivers that claimed a device, it has the one that registered
\* first, for as long as it has one: no driver that registers later, or leaves
\* and comes back, gets in front of its driver, and none whose probe raised or
\* refused has it.
EarliestClaimerHasIt ==
  \A d \in Device : boundDriver[d] # NoDriver /\ claimers[d] # {} =>
    /\ boundDriver[d] \in claimers[d]
    /\ \A i, j \in DOMAIN drivers :
         drivers[i] = boundDriver[d] /\ drivers[j] \in claimers[d] => i <= j
=============================================================================
