---------------------------- MODULE MCDeviceRun ----------------------------
(* An instance of DeviceRun for TLC. *)
EXTENDS DeviceRun
============================================================================
