------------------------------ MODULE MCEspUplink ------------------------------
(* A batch of two samples, two publications that fail.                     *)
EXTENDS EspUplink
=============================================================================
