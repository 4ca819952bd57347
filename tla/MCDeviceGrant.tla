--------------------------- MODULE MCDeviceGrant ---------------------------
(* DeviceGrant on small sets of model values, without symmetry: the run checks
   liveness. *)
EXTENDS DeviceGrant
=============================================================================
