----------------------------- MODULE MCFotaMgr -----------------------------
(* Values of the constants of FotaMgr for TLC: uploads of up to two bytes  *)
(* in blocks of one byte, and of two, which is too long; contents that     *)
(* match the announced CRC and contents that do not.                       *)
EXTENDS FotaMgr

MCByte == {0, 1}
MCBlocks == {<<0>>, <<1>>, <<0, 1>>}
MCImages == {<<0, 1>>}
OutsideVerifying == {"PREPARING", "READY", "RECEIVING"}
AnyStage == OutsideVerifying \cup {"VERIFYING"}
=============================================================================
