--------------------------- MODULE DeviceProofs ---------------------------
(***************************************************************************)
(* The two records of the bindings agree, and a device stays with the      *)
(* driver that registered first of those that claimed it, for any devices, *)
(* drivers and probe functions, raising ones included.                     *)
(***************************************************************************)
EXTENDS DeviceProbing, ListLemmas, WellFoundedInduction, TLAPS

\* If some driver claims a device, one does so before all others: what the
\* loop of probe_device stops at (driver.py:85).
LEMMA FirstClaimExists ==
  ASSUME NEW answers, NEW d, NEW k \in DOMAIN drivers, Claims(answers, k, d), drivers \in Seq(Driver)
  PROVE  \E i \in DOMAIN drivers : FirstClaims(answers, i, d)
<1> DEFINE T == {i \in DOMAIN drivers : Claims(answers, i, d)}
<1>1. T \subseteq Nat /\ T # {}
  OBVIOUS
<1>2. PICK i \in T : \A j \in T : ~(<<j, i>> \in OpToRel(<, Nat))
  BY <1>1, NatLessThanWellFounded, WFMin, Zenon
<1>3. \A j \in T : ~(j < i)
  <2> SUFFICES ASSUME NEW j \in T, j < i PROVE FALSE
    OBVIOUS
  <2>1. <<j, i>> \in Nat \X Nat
    BY <1>1
  <2> QED
    BY <1>2, <2>1 DEF OpToRel
<1>4. i \in DOMAIN drivers /\ Claims(answers, i, d) /\ \A j \in 1 .. i - 1 : ~Claims(answers, j, d)
  <2>1. i \in 1 .. Len(drivers)
    OBVIOUS
  <2>2. ASSUME NEW j \in 1 .. i - 1 PROVE ~Claims(answers, j, d)
    <3>1. j \in DOMAIN drivers /\ j < i
      BY <2>1
    <3> QED
      BY <1>3, <3>1
  <2> QED
    BY <2>2
<1> QED
  BY <1>4 DEF FirstClaims

\* The driver that probe_all leaves a device with: its own if it has one, and
\* else the first that claims it or none.
LEMMA ProbedDriverIsFirst ==
  ASSUME TypeOK, NEW answers, NEW d \in Device
  PROVE  /\ d \notin Probed => ProbedDriver(answers, d) = boundDriver[d]
         /\ d \in Probed =>
              \/ /\ ProbedDriver(answers, d) = NoDriver
                 /\ \A i \in DOMAIN drivers : ~Claims(answers, i, d)
              \/ \E i \in DOMAIN drivers :
                   FirstClaims(answers, i, d) /\ ProbedDriver(answers, d) = drivers[i]
<1>1. d \notin Probed => ProbedDriver(answers, d) = boundDriver[d]
  BY DEF ProbedDriver
<1>2. CASE d \in Probed /\ \E i \in DOMAIN drivers : Claims(answers, i, d)
  <2>1. \E i \in DOMAIN drivers : FirstClaims(answers, i, d)
    BY <1>2, FirstClaimExists DEF TypeOK
  <2> DEFINE c == CHOOSE i \in DOMAIN drivers : FirstClaims(answers, i, d)
  <2>2. c \in DOMAIN drivers /\ FirstClaims(answers, c, d)
    BY <2>1, Zenon
  <2>3. ProbedDriver(answers, d) = drivers[c]
    BY <1>2, Zenon DEF ProbedDriver
  <2> QED
    BY <1>2, <2>2, <2>3, Zenon
<1>3. CASE d \in Probed /\ ~\E i \in DOMAIN drivers : Claims(answers, i, d)
  <2>1. ProbedDriver(answers, d) = NoDriver
    BY <1>3 DEF ProbedDriver, Probed
  <2> QED
    BY <1>3, <2>1
<1> QED
  BY <1>1, <1>2, <1>3

LEMMA ProbedDriverType ==
  ASSUME TypeOK, NEW answers, NEW d \in Device
  PROVE  /\ ProbedDriver(answers, d) \in Driver \cup {NoDriver}
         /\ d \in Probed /\ ProbedDriver(answers, d) # NoDriver => IsRegistered(ProbedDriver(answers, d))
<1>1. \A i \in DOMAIN drivers : drivers[i] \in Driver /\ IsRegistered(drivers[i])
  BY DEF TypeOK, IsRegistered, ToSet
<1>2. boundDriver[d] \in Driver \cup {NoDriver}
  BY DEF TypeOK
<1> QED
  BY <1>1, <1>2, ProbedDriverIsFirst

----------------------------------------------------------------------------
\* Types are kept by every call, and no driver is registered twice
\* (driver.py:57).
THEOREM TypeCorrect == Spec => []TypeOK
<1>1. Init => TypeOK
  <2> SUFFICES ASSUME Init PROVE TypeOK
    OBVIOUS
  <2>1. drivers = <<>> /\ drivers \in Seq(Driver) /\ IsInjective(drivers)
    BY DEF Init, IsInjective
  <2> QED
    BY <2>1 DEF Init, TypeOK
<1>2. TypeOK /\ [Next]_vars => TypeOK'
  <2> SUFFICES ASSUME TypeOK, [Next]_vars PROVE TypeOK'
    OBVIOUS
  <2> USE DEF TypeOK
  <2>1. ASSUME NEW d \in Device, RegisterDevice(d) PROVE TypeOK'
    BY <2>1 DEF RegisterDevice
  <2>2. ASSUME NEW d \in Device, UnregisterDevice(d) PROVE TypeOK'
    BY <2>2 DEF UnregisterDevice
  <2>3. ASSUME NEW r \in Driver, RegisterDriver(r) PROVE TypeOK'
    <3>1. drivers' \in Seq(Driver) /\ IsInjective(drivers')
      BY <2>3, AppendInjectiveList DEF RegisterDriver, IsRegistered
    <3> QED
      BY <2>3, <3>1 DEF RegisterDriver
  <2>4. ASSUME NEW r \in Driver, UnregisterDriver(r) PROVE TypeOK'
    <3>1. drivers' \in Seq(Driver) /\ IsInjective(drivers')
      BY <2>4, RemoveFirstInjective DEF UnregisterDriver, IsRegistered
    <3> QED
      BY <2>4, <3>1 DEF UnregisterDriver
  <2>5. ASSUME NEW r \in Driver, NEW d \in devices, Bind(r, d) PROVE TypeOK'
    BY <2>5 DEF Bind, Listed
  <2>6. ASSUME NEW r \in Driver, NEW d \in devices, RemoveDriver(r, d) PROVE TypeOK'
    BY <2>6 DEF RemoveDriver, Unlisted
  <2>7. ASSUME NEW answers \in SUBSET Probe, ProbeAll(answers) PROVE TypeOK'
    <3>1. \A d \in Device : ProbedDriver(answers, d) \in Driver \cup {NoDriver}
      BY ProbedDriverType
    <3>2. boundDriver' \in [Device -> Driver \cup {NoDriver}]
      BY <2>7, <3>1 DEF ProbeAll
    <3>3. boundDevices' \in [Driver -> SUBSET Device]
      <4>1. Probed \subseteq Device
        BY DEF Probed
      <4> QED
        BY <2>7, <4>1 DEF ProbeAll
    <3> QED
      BY <2>7, <3>2, <3>3 DEF ProbeAll
  <2>8. CASE UNCHANGED vars
    BY <2>8 DEF vars
  <2> QED
    BY <2>1, <2>2, <2>3, <2>4, <2>5, <2>6, <2>7, <2>8
       DEF Next, UnregisterFreeDevice, UnregisterIdleDriver, BindFree, RemoveBound
<1> QED
  BY <1>1, <1>2, PTL DEF Spec

----------------------------------------------------------------------------
\* The inductive step of BindingsAgree.  ProbeAll needs that a probed device
\* is in no driver's list, which is the invariant itself.
LEMMA AgreeStep ==
  ASSUME TypeOK, BindingsAgree, [Next]_vars
  PROVE  BindingsAgree'
<1> USE NoDriverAssumption
<1>1. ASSUME NEW d \in Device, RegisterDevice(d) PROVE BindingsAgree'
  BY <1>1 DEF RegisterDevice, BindingsAgree, IsRegistered
<1>2. ASSUME NEW d \in Device, boundDriver[d] = NoDriver, UnregisterDevice(d)
      PROVE  BindingsAgree'
  BY <1>2 DEF UnregisterDevice, BindingsAgree, IsRegistered
<1>3. ASSUME NEW r \in Driver, RegisterDriver(r) PROVE BindingsAgree'
  <2>1. ToSet(drivers') = ToSet(drivers) \cup {r}
    BY <1>3, AppendInjectiveList DEF RegisterDriver, IsRegistered, TypeOK
  <2> QED
    BY <1>3, <2>1 DEF RegisterDriver, BindingsAgree, IsRegistered
<1>4. ASSUME NEW r \in Driver, boundDevices[r] = {}, UnregisterDriver(r)
      PROVE  BindingsAgree'
  <2>1. ToSet(drivers') = ToSet(drivers) \ {r}
    BY <1>4, RemoveFirstInjective DEF UnregisterDriver, IsRegistered, TypeOK
  <2>2. \A d \in Device : boundDriver[d] # r
    BY <1>4 DEF BindingsAgree
  <2> QED
    BY <1>4, <2>1, <2>2 DEF UnregisterDriver, BindingsAgree, IsRegistered
<1>5. ASSUME NEW r \in Driver, NEW d \in devices, boundDriver[d] = NoDriver, Bind(r, d)
      PROVE  BindingsAgree'
  BY <1>5 DEF Bind, Listed, BindingsAgree, IsRegistered, TypeOK
<1>6. ASSUME NEW r \in Driver, NEW d \in devices, boundDriver[d] = r, RemoveDriver(r, d)
      PROVE  BindingsAgree'
  BY <1>6 DEF RemoveDriver, Unlisted, BindingsAgree, IsRegistered, TypeOK
<1>7. ASSUME NEW answers \in SUBSET Probe, ProbeAll(answers) PROVE BindingsAgree'
  <2>1. ASSUME NEW d \in Device
        PROVE  /\ boundDriver'[d] = ProbedDriver(answers, d)
               /\ \A r \in Driver : ProbedDriver(answers, d) = r <=> d \in boundDevices'[r]
               /\ ProbedDriver(answers, d) # NoDriver => d \in devices /\ IsRegistered(ProbedDriver(answers, d))
    <3>1. boundDriver'[d] = ProbedDriver(answers, d)
      BY <1>7 DEF ProbeAll
    <3>2. \A r \in Driver : d \in boundDevices'[r] <=>
            d \in boundDevices[r] \/ (d \in Probed /\ ProbedDriver(answers, d) = r)
      BY <1>7 DEF ProbeAll
    <3>3. CASE d \in Probed
      <4>1. d \in devices /\ \A r \in Driver : d \notin boundDevices[r]
        BY <3>3 DEF Probed, BindingsAgree
      <4> QED
        BY <3>1, <3>2, <3>3, <4>1, ProbedDriverType
    <3>4. CASE d \notin Probed
      <4>1. ProbedDriver(answers, d) = boundDriver[d]
        BY <3>4, ProbedDriverIsFirst
      <4> QED
        BY <3>1, <3>2, <3>4, <4>1 DEF BindingsAgree
    <3> QED
      BY <3>3, <3>4
  <2>2. devices' = devices /\ drivers' = drivers
    BY <1>7 DEF ProbeAll
  <2> QED
    BY <2>1, <2>2 DEF BindingsAgree, IsRegistered
<1>8. CASE UNCHANGED vars
  BY <1>8 DEF vars, BindingsAgree, IsRegistered
<1> QED
  BY <1>1, <1>2, <1>3, <1>4, <1>5, <1>6, <1>7, <1>8
     DEF Next, UnregisterFreeDevice, UnregisterIdleDriver, BindFree, RemoveBound

\* The driver a device names and the lists of the drivers agree, and only
\* registered drivers have devices (driver.py:108, driver.py:121, device.py:117).
THEOREM BindingsSafe == Spec => []BindingsAgree
<1>1. Init => BindingsAgree
  BY NoDriverAssumption DEF Init, BindingsAgree
<1>2. TypeOK /\ BindingsAgree /\ [Next]_vars => BindingsAgree'
  BY AgreeStep
<1> QED
  BY <1>1, <1>2, TypeCorrect, PTL DEF Spec

----------------------------------------------------------------------------
(* Who has a device that was probed.                                       *)

ClaimersTyped == claimers \in [Device -> SUBSET Driver]

ProbingInv == TypeOK /\ BindingsAgree /\ ClaimersTyped /\ EarliestClaimerHasIt

\* The driver r of a device comes before all others that claimed it.
Earliest(list, r, S) ==
  \A i, j \in DOMAIN list : list[i] = r /\ list[j] \in S => i <= j

\* A driver that registers goes behind those that have devices.
LEMMA AppendKeepsEarliest ==
  ASSUME NEW list \in Seq(Driver), NEW new \in Driver, NEW r, r # new, NEW S,
         Earliest(list, r, S)
  PROVE  Earliest(Append(list, new), r, S)
<1> DEFINE n == Len(list)
           longer == Append(list, new)
<1>1. /\ n \in Nat /\ DOMAIN list = 1 .. n /\ DOMAIN longer = 1 .. n + 1
      /\ longer[n + 1] = new /\ \A i \in 1 .. n : longer[i] = list[i]
  BY AppendProperties, LenProperties
<1> HIDE DEF longer, n
<1>2. ASSUME NEW i \in DOMAIN longer, NEW j \in DOMAIN longer, longer[i] = r, longer[j] \in S
      PROVE  i <= j
  <2>1. i \in 1 .. n
    BY <1>1, <1>2
  <2>2. CASE j \in 1 .. n
    BY <1>1, <1>2, <2>1, <2>2 DEF Earliest
  <2>3. CASE j = n + 1
    BY <1>1, <2>1, <2>3
  <2> QED BY <1>1, <2>2, <2>3
<1> QED BY <1>2 DEF Earliest, longer

\* Those left when one unregisters keep their order.
LEMMA RemoveKeepsEarliest ==
  ASSUME NEW list \in Seq(Driver), NEW old \in ToSet(list), NEW r, NEW S,
         Earliest(list, r, S)
  PROVE  Earliest(RemoveFirst(list, old), r, S)
<1> DEFINE n == Len(list)
           shorter == RemoveFirst(list, old)
<1>1. PICK k \in 1 .. n :
        /\ shorter \in Seq(Driver) /\ Len(shorter) = n - 1
        /\ \A j \in 1 .. n - 1 : shorter[j] = IF j < k THEN list[j] ELSE list[j + 1]
  BY RemoveFirstAt
<1>2. n \in Nat /\ DOMAIN list = 1 .. n /\ DOMAIN shorter = 1 .. n - 1
  BY <1>1, LenProperties
<1> HIDE DEF shorter, n
<1>3. ASSUME NEW i \in DOMAIN shorter, NEW j \in DOMAIN shorter,
             shorter[i] = r, shorter[j] \in S
      PROVE  i <= j
  <2> DEFINE At(x) == IF x < k THEN x ELSE x + 1
  <2>1. \A x \in DOMAIN shorter : At(x) \in DOMAIN list /\ shorter[x] = list[At(x)]
    BY <1>1, <1>2
  <2>2. At(i) <= At(j)
    BY <1>3, <2>1 DEF Earliest
  <2> QED BY <1>2, <2>2
<1> QED BY <1>3 DEF Earliest, shorter

\* The inductive step.  A driver with a device is registered and stays, which
\* is what the agreement of the records is for.
LEMMA ProbingStep ==
  ASSUME ProbingInv, [ProbingNext]_ProbingVars
  PROVE  ClaimersTyped' /\ EarliestClaimerHasIt'
<1> DEFINE Has(d) == boundDriver[d] # NoDriver /\ claimers[d] # {}
           Ok(d) == Has(d) => /\ boundDriver[d] \in claimers[d]
                              /\ Earliest(drivers, boundDriver[d], claimers[d])
<1>1. EarliestClaimerHasIt <=> \A d \in Device : Ok(d)
  BY DEF EarliestClaimerHasIt, Earliest
<1>2. EarliestClaimerHasIt' <=> \A d \in Device : Ok(d)'
  BY DEF EarliestClaimerHasIt, Earliest
<1>3. /\ drivers \in Seq(Driver) /\ claimers \in [Device -> SUBSET Driver]
      /\ boundDriver \in [Device -> Driver \cup {NoDriver}] /\ devices \subseteq Device
      /\ \A d \in Device : Ok(d)
  BY <1>1 DEF ProbingInv, TypeOK, ClaimersTyped
<1>4. ASSUME UNCHANGED <<drivers, boundDriver, claimers>>
      PROVE  ClaimersTyped' /\ EarliestClaimerHasIt'
  BY <1>2, <1>3, <1>4 DEF ClaimersTyped
<1>5. ASSUME NEW r \in Driver, RegisterDriver(r), UNCHANGED claimers
      PROVE  ClaimersTyped' /\ EarliestClaimerHasIt'
  <2>1. /\ drivers' = Append(drivers, r) /\ boundDriver' = boundDriver
        /\ \A d \in Device : boundDriver[d] # NoDriver => boundDriver[d] # r
    BY <1>5 DEF RegisterDriver, ProbingInv, BindingsAgree
  <2>2. ASSUME NEW d \in Device, Has(d) PROVE Earliest(drivers', boundDriver[d], claimers[d])
    BY <1>3, <2>1, <2>2, AppendKeepsEarliest
  <2>3. \A d \in Device : Ok(d)'
    BY <1>3, <1>5, <2>1, <2>2
  <2> QED BY <1>2, <1>3, <1>5, <2>3 DEF ClaimersTyped
<1>6. ASSUME NEW r \in Driver, UnregisterDriver(r), UNCHANGED claimers
      PROVE  ClaimersTyped' /\ EarliestClaimerHasIt'
  <2>1. /\ drivers' = RemoveFirst(drivers, r) /\ boundDriver' = boundDriver
        /\ r \in ToSet(drivers)
    BY <1>6 DEF UnregisterDriver, IsRegistered
  <2>2. ASSUME NEW d \in Device, Has(d) PROVE Earliest(drivers', boundDriver[d], claimers[d])
    BY <1>3, <2>1, <2>2, RemoveKeepsEarliest
  <2>3. \A d \in Device : Ok(d)'
    BY <1>3, <1>6, <2>1, <2>2
  <2> QED BY <1>2, <1>3, <1>6, <2>3 DEF ClaimersTyped
<1>7. ASSUME NEW r \in Driver, NEW d \in devices, BindByHand(r, d)
      PROVE  ClaimersTyped' /\ EarliestClaimerHasIt'
  <2>1. /\ drivers' = drivers /\ claimers' = [claimers EXCEPT ![d] = {}]
        /\ boundDriver' = [boundDriver EXCEPT ![d] = r]
    BY <1>7 DEF BindByHand, BindFree, Bind
  <2>2. \A c \in Device : Ok(c)'
    BY <1>3, <2>1
  <2> QED BY <1>2, <1>3, <2>1, <2>2 DEF ClaimersTyped
<1>8. ASSUME NEW r \in Driver, NEW d \in devices, RemoveBound(r, d), UNCHANGED claimers
      PROVE  ClaimersTyped' /\ EarliestClaimerHasIt'
  <2>1. drivers' = drivers /\ boundDriver' = [boundDriver EXCEPT ![d] = NoDriver]
    BY <1>8 DEF RemoveBound, RemoveDriver
  <2>2. \A c \in Device : Ok(c)'
    BY <1>3, <1>8, <2>1
  <2> QED BY <1>2, <1>3, <1>8, <2>2 DEF ClaimersTyped
<1>9. ASSUME NEW answers \in SUBSET Probe, ProbeAndNote(answers)
      PROVE  ClaimersTyped' /\ EarliestClaimerHasIt'
  <2>1. /\ drivers' = drivers /\ boundDriver' = [d \in Device |-> ProbedDriver(answers, d)]
        /\ claimers' = [d \in Device |->
             IF d \in Probed THEN {r \in Driver : <<r, d>> \in answers} ELSE claimers[d]]
    BY <1>9 DEF ProbeAndNote, ProbeAll
  <2>2. ASSUME NEW d \in Device PROVE Ok(d)'
    <3>1. CASE d \notin Probed
      <4>1. boundDriver'[d] = boundDriver[d] /\ claimers'[d] = claimers[d]
        BY <2>1, <3>1, ProbedDriverIsFirst DEF ProbingInv
      <4> QED BY <1>3, <2>1, <4>1
    <3>2. CASE d \in Probed /\ ProbedDriver(answers, d) # NoDriver
      <4>1. PICK c \in DOMAIN drivers :
              FirstClaims(answers, c, d) /\ ProbedDriver(answers, d) = drivers[c]
        BY <3>2, ProbedDriverIsFirst DEF ProbingInv
      <4>2. /\ boundDriver'[d] = drivers[c] /\ drivers[c] \in Driver
            /\ claimers'[d] = {r \in Driver : <<r, d>> \in answers}
        BY <1>3, <2>1, <3>2, <4>1
      <4>3. drivers[c] \in claimers'[d]
        BY <4>1, <4>2 DEF FirstClaims, Claims
      <4>4. ASSUME NEW i \in DOMAIN drivers, NEW j \in DOMAIN drivers,
                   drivers[i] = drivers[c], drivers[j] \in claimers'[d]
            PROVE  i <= j
        <5>1. i = c
          BY <4>4 DEF ProbingInv, TypeOK, IsInjective
        <5>2. Claims(answers, j, d)
          BY <4>2, <4>4 DEF Claims
        <5>3. DOMAIN drivers = 1 .. Len(drivers) /\ Len(drivers) \in Nat
          BY <1>3, LenProperties
        <5>4. j \notin 1 .. c - 1
          BY <4>1, <5>2 DEF FirstClaims
        <5> QED BY <5>1, <5>3, <5>4
      <4> QED BY <2>1, <4>2, <4>3, <4>4 DEF Earliest
    <3>3. CASE ProbedDriver(answers, d) = NoDriver
      BY <2>1, <3>3
    <3> QED BY <3>1, <3>2, <3>3
  <2>3. ClaimersTyped'
    BY <1>3, <2>1 DEF ClaimersTyped
  <2> QED BY <1>2, <2>2, <2>3
<1> HIDE DEF Has, Ok
<1>10. ASSUME NEW d \in Device,
              RegisterDevice(d) \/ UnregisterFreeDevice(d), UNCHANGED claimers
       PROVE  ClaimersTyped' /\ EarliestClaimerHasIt'
  BY <1>4, <1>10 DEF RegisterDevice, UnregisterFreeDevice, UnregisterDevice
<1>11. CASE UNCHANGED ProbingVars
  BY <1>4, <1>11 DEF ProbingVars, vars
<1> QED
  BY <1>5, <1>6, <1>7, <1>8, <1>9, <1>10, <1>11 DEF ProbingNext, UnregisterIdleDriver

\* Noting who claimed takes nothing from what Devices does.
LEMMA ProbingIsDevices ==
  ASSUME [ProbingNext]_ProbingVars
  PROVE  [Next]_vars
BY DEF ProbingNext, ProbeAndNote, BindByHand, Next, ProbingVars

\* A device that probe_all has bound is, for as long as it is bound, with the
\* driver that registered first of those that claimed it (driver.py:85,
\* driver.py:61), whoever registers, leaves, comes back or raises.
THEOREM ProbingOrderLasts == ProbingSpec => []EarliestClaimerHasIt
<1>1. ProbingInit => Init /\ ClaimersTyped /\ EarliestClaimerHasIt
  BY DEF ProbingInit, Init, ClaimersTyped, EarliestClaimerHasIt
<1>2. ProbingSpec => Spec
  <2>1. ProbingInit => Init
    BY DEF ProbingInit
  <2>2. [ProbingNext]_ProbingVars => [Next]_vars
    BY ProbingIsDevices
  <2> QED BY <2>1, <2>2, PTL DEF ProbingSpec, Spec
<1>3. TypeOK /\ BindingsAgree /\ ClaimersTyped /\ EarliestClaimerHasIt
        /\ [ProbingNext]_ProbingVars => ClaimersTyped' /\ EarliestClaimerHasIt'
  BY ProbingStep DEF ProbingInv
<1> QED BY <1>1, <1>2, <1>3, TypeCorrect, BindingsSafe, PTL DEF ProbingSpec
=============================================================================
