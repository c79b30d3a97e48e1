-------------------------- MODULE MCDeviceConnection --------------------------
(* Configurations of up to three devices. *)
EXTENDS DeviceConnection

MCDevices == 1..3
Sorted == [d \in MCDevices |-> d]
Reversed == [d \in MCDevices |-> 4 - d]
Config(t, h, r, b) == [ha_type |-> t, hosts |-> h, rank |-> r, broken |-> b]

MCConfigurations ==
    { Config("standalone", {1}, Sorted, {}),
      Config("standalone", {1, 2}, Sorted, {}),
      Config("pair", {1, 2}, Sorted, {}),
      Config("pair", {1, 2}, Reversed, {1}),
      Config("scalen", {1, 2, 3}, Reversed, {}) }
=============================================================================
