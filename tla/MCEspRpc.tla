-------------------------------- MODULE MCEspRpc --------------------------------
(* Two bits; a request names one setting, in its range or out of it, or    *)
(* two, one of them out of range.                                          *)
EXTENDS EspRpc, TLC

MCChanges ==
  {"uart_poll" :> "bad", "uart_poll" :> "other", "mq_smpl" :> "other",
   "log_level" :> "other" @@ "mq_smpl" :> "bad"}
MCParamLists ==
  {<<[bit |-> "heat", to |-> TRUE]>>,
   <<[bit |-> "sleep", to |-> TRUE], [bit |-> "heat", to |-> FALSE]>>}
=============================================================================
