------------------------------- MODULE MCEspHost -------------------------------
(* A button held for three polls, an idle time of two polls, a transmit      *)
(* buffer of two lines.                                                    *)
EXTENDS EspHost
=============================================================================
