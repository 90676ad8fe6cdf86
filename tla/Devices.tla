------------------------------ MODULE Devices ------------------------------
(***************************************************************************)
(* The device registry (device.py) and the driver registry (driver.py),    *)
(* which keep the binding of a device to a driver twice: as the bound      *)
(* driver of the device, and in the driver's list of bound devices.        *)
(*                                                                         *)
(* A device or a driver is its object, and keeps what it says of bindings  *)
(* while it is not registered.  The order of devices decides nothing;      *)
(* drivers are probed in the order in which they were registered.          *)
(***************************************************************************)
EXTENDS Integers, Sequences, SequencesExt

CONSTANTS
  Device, Driver,
  Probe,        \* the pairs of a driver and a device its probe function may claim
  NoDriver      \* bound_driver == ""

ASSUME ProbeAssumption == Probe \subseteq Driver \X Device
ASSUME NoDriverAssumption == NoDriver \notin Driver

VARIABLES
  devices,      \* DeviceRegistry._devices
  drivers,      \* DriverRegistry._drivers, in its order
  boundDriver,  \* Device.bound_driver
  boundDevices  \* Driver.bound_devices

vars == <<devices, drivers, boundDriver, boundDevices>>

IsRegistered(r) == r \in ToSet(drivers)

Init ==
  /\ devices = {}
  /\ drivers = <<>>
  /\ boundDriver = [d \in Device |-> NoDriver]
  /\ boundDevices = [r \in Driver |-> {}]

----------------------------------------------------------------------------
RegisterDevice(d) ==
  /\ d \notin devices
  /\ devices' = devices \cup {d}
  /\ UNCHANGED <<drivers, boundDriver, boundDevices>>

UnregisterDevice(d) ==
  /\ d \in devices
  /\ devices' = devices \ {d}
  /\ UNCHANGED <<drivers, boundDriver, boundDevices>>

\* Registering a driver binds nothing.
RegisterDriver(r) ==
  /\ ~IsRegistered(r)
  /\ drivers' = Append(drivers, r)
  /\ UNCHANGED <<devices, boundDriver, boundDevices>>

UnregisterDriver(r) ==
  /\ IsRegistered(r)
  /\ drivers' = RemoveFirst(drivers, r)
  /\ UNCHANGED <<devices, boundDriver, boundDevices>>

Listed(r, d) == [boundDevices EXCEPT ![r] = @ \cup {d}]

\* bind.  A device that is not registered enters the driver's list only.
Bind(r, d) ==
  /\ IsRegistered(r)
  /\ boundDevices' = Listed(r, d)
  /\ boundDriver' = IF d \in devices THEN [boundDriver EXCEPT ![d] = r] ELSE boundDriver
  /\ UNCHANGED <<devices, drivers>>

\* Mutant: the driver keeps the device.
Kept(r, d) == boundDevices

Unlisted(r, d) == [boundDevices EXCEPT ![r] = @ \ {d}]

\* remove.  The device loses its driver, whichever it is.
RemoveDriver(r, d) ==
  /\ IsRegistered(r)
  /\ boundDevices' = Unlisted(r, d)
  /\ boundDriver' = IF d \in devices THEN [boundDriver EXCEPT ![d] = NoDriver] ELSE boundDriver
  /\ UNCHANGED <<devices, drivers>>

\* probe_device: the first driver that claims the device.  The answers are the
\* pairs of which the probe function claims this time; where it raises, the
\* driver is passed over.
Claims(answers, i, d) == <<drivers[i], d>> \in answers

\* Mutant: the last driver that claims it.
LastClaims(answers, i, d) ==
  Claims(answers, i, d) /\ \A j \in i + 1 .. Len(drivers) : ~Claims(answers, j, d)

FirstClaims(answers, i, d) ==
  Claims(answers, i, d) /\ \A j \in 1 .. i - 1 : ~Claims(answers, j, d)

Probed == {d \in devices : boundDriver[d] = NoDriver}

\* The driver that probe_all binds to a device.
ProbedDriver(answers, d) ==
  IF d \in Probed /\ \E i \in DOMAIN drivers : Claims(answers, i, d)
  THEN drivers[CHOOSE i \in DOMAIN drivers : FirstClaims(answers, i, d)]
  ELSE boundDriver[d]

ProbeAll(answers) ==
  /\ boundDriver' = [d \in Device |-> ProbedDriver(answers, d)]
  /\ boundDevices' =
       [r \in Driver |->
          boundDevices[r] \cup {d \in Probed : ProbedDriver(answers, d) = r}]
  /\ UNCHANGED <<devices, drivers>>

\* The calls of a driver core that unregisters what is not bound, binds what
\* is free and removes what is bound.
UnregisterFreeDevice(d) == boundDriver[d] = NoDriver /\ UnregisterDevice(d)
UnregisterIdleDriver(r) == boundDevices[r] = {} /\ UnregisterDriver(r)
BindFree(r, d)    == boundDriver[d] = NoDriver /\ Bind(r, d)
RemoveBound(r, d) == boundDriver[d] = r /\ RemoveDriver(r, d)

Next ==
  \/ \E d \in Device : RegisterDevice(d) \/ UnregisterFreeDevice(d)
  \/ \E r \in Driver : RegisterDriver(r) \/ UnregisterIdleDriver(r)
  \/ \E r \in Driver, d \in devices : BindFree(r, d) \/ RemoveBound(r, d)
  \/ \E answers \in SUBSET Probe : ProbeAll(answers)

Spec == Init /\ [][Next]_vars

----------------------------------------------------------------------------
\* The shape of the registries, in which no driver is twice.
TypeOK ==
  /\ devices \subseteq Device
  /\ drivers \in Seq(Driver) /\ IsInjective(drivers)
  /\ boundDriver \in [Device -> Driver \cup {NoDriver}]
  /\ boundDevices \in [Driver -> SUBSET Device]

\* The two records of a binding agree, and who is bound is registered.
BindingsAgree ==
  /\ \A r \in Driver, d \in Device : boundDriver[d] = r <=> d \in boundDevices[r]
  /\ \A d \in Device : boundDriver[d] # NoDriver => d \in devices /\ IsRegistered(boundDriver[d])
=============================================================================
