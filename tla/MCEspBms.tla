-------------------------------- MODULE MCEspBms --------------------------------
(* The configuration is read every second round; a buffer of a frame and a *)
(* half.  An RPC call reads as many registers as a block of the round, or  *)
(* as two of the configuration.  The vehicle asks while the driver is on   *)
(* the bus: with the other driver it meets nothing it would not meet here. *)
EXTENDS EspBms

MCMaxAsks == [uart |-> 1, ble |-> 0]
MCNoAsks == [uart |-> 0, ble |-> 0]
=============================================================================
