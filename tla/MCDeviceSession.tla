-------------------------- MODULE MCDeviceSession --------------------------
(* DeviceSession for TLC: rotations that a configuration file cannot spell. *)
EXTENDS DeviceSession

\* A negative angle and a full turn.
MCRotationArgs == {-90, 360}
=============================================================================
