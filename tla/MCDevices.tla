----------------------------- MODULE MCDevices -----------------------------
(* Two drivers that may claim the same device, and one that has a device of *)
(* its own, each of which may raise instead; one device that nothing claims *)
(* is left to explicit binding.                                             *)
EXTENDS DeviceProbing

MCProbe == {<<"uart", "tty0">>, <<"serial", "tty0">>, <<"mem", "null">>}
=============================================================================
