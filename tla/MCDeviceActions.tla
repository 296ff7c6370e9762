--------------------------- MODULE MCDeviceActions ---------------------------
(* An instance of DeviceActions for TLC.                                   *)
EXTENDS DeviceActions, TLC

CONSTANTS d1, d2, g1

\* A list of both devices.
SomeBodies == {d1 :> 1 @@ d2 :> 1}

\* The devices are told apart by nothing.
Symmetry == Permutations(Devices)

AllEntries ==
    [event : Events \cup {"schedule"}, target : Devices \cup Groups,
     ok : BOOLEAN]
=============================================================================
