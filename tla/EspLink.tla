-------------------------------- MODULE EspLink --------------------------------
(***************************************************************************)
(* The 4G link of the esp32 firmware (ml307_4g.c): the state machine of    *)
(* ml307_task, from the module that may or may not answer AT to a TCP      *)
(* connection, and the AT engine that the modem's task, the uplink and the *)
(* web page's manual command share.                                        *)
(*                                                                         *)
(* Whoever runs a command has s_at_mutex for all of it, so a command is    *)
(* one step.  What it does to the lines the module sent unasked (URCs) is  *)
(* not settled by that: it flushes the input first and consumes the lines  *)
(* that come while it waits.  A wait of many polls (for AT, the SIM, the   *)
(* registration) is one step with the outcome of the wait.                 *)
(*                                                                         *)
(* External: the module, the network, and the broker at the other end.     *)
(* They misbehave at most MaxFaults times.                                 *)
(***************************************************************************)
EXTENDS Integers, Sequences

CONSTANTS
  EN,          (* how the module's EN is wired: "pulse" (a trigger that    *)
               (* restarts it) or "level" (its power)                      *)
  Channels,    (* the values of transparent that are looked at             *)
  CALLS,       (* external: RPC requests the broker has for the device     *)
  UrcCap,      (* bound: lines waiting in the UART, packets in the ring    *)
  MaxFaults    (* bound: misbehaviours of what is external                 *)

ASSUME LinkAssumption ==
  /\ EN \in {"pulse", "level"} /\ Channels \subseteq BOOLEAN
  /\ UrcCap \in Nat \ {0} /\ MaxFaults \in Nat
  /\ CALLS \cap {"CONNACK", "SUBACK", "disconn", "pdpdeact"} = {}

VARIABLES
  state,                 (* s_status.state; SOCKET is split in three and   *)
                         (* ONLINE in two                                  *)
  net_ok, socket_ok,     (* of s_status                                    *)
  has_socket,            (* online_loop's local variable                   *)
  req_reconnect, req_power_cycle,
  module,                (* external: "on", or "hung" or without power     *)
  reg,                   (* external: registered with a network            *)
  tcp,                   (* external: the connection as the broker has it: *)
                         (* none, open, session or subscribed              *)
  urc,                   (* lines in the UART and in s_rx                  *)
  rx,                    (* packets in s_rx_ring and in the parser's       *)
                         (* buffer                                         *)
  faults,                (* misbehaviours so far                           *)
  transparent            (* for good FALSE: rtcp data is cut at its first  *)
                         (* zero byte, as note_mipurc does; or TRUE: it    *)
                         (* passes as it is, as ml307_4g.h:10 says         *)

statusVars == <<net_ok, socket_ok>>
reqVars == <<req_reconnect, req_power_cycle>>
moduleVars == <<module, reg, tcp>>
linkVars == <<state, statusVars, has_socket, reqVars, moduleVars, urc, rx, faults>>

Packets == {"CONNACK", "SUBACK"} \cup CALLS

LinkInit ==
  /\ state = "POWER_ON"
  /\ net_ok = FALSE /\ socket_ok = FALSE /\ has_socket = FALSE
  /\ req_reconnect = FALSE /\ req_power_cycle = FALSE
  /\ module \in (IF EN = "pulse" THEN {"on", "hung"} ELSE {"hung"})
  /\ reg = FALSE /\ tcp = "none"
  /\ urc = <<>> /\ rx = <<>> /\ faults = 0 /\ transparent \in Channels

Misbehaves(bad) ==
  IF bad THEN faults < MaxFaults /\ faults' = faults + 1 ELSE UNCHANGED faults
Fault == Misbehaves(TRUE)
Answers == module = "on"

-----------------------------------------------------------------------------
(* Commands and lines                                                      *)

Has(lines, kind) == \E i \in DOMAIN lines : lines[i] = kind

(* uplink_rx_push.  Data that is cut has no zero byte, so that the parser  *)
(* never makes a CONNACK with the code 0 of it; and before there has been  *)
(* one, the broker sends nothing else, of which it could make a packet.    *)
Received(lines) ==
  IF transparent THEN SelectSeq(lines, LAMBDA l : l \in Packets) ELSE <<>>

(* urc_consume: a line of the socket's end, or of the network's, changes   *)
(* the status; data goes to the callback.                                  *)
note_mipurc(lines) ==
  /\ socket_ok' = (socket_ok /\ ~Has(lines, "disconn") /\ ~Has(lines, "pdpdeact"))
  /\ net_ok' = (net_ok /\ ~Has(lines, "pdpdeact"))
  /\ rx' = rx \o Received(lines)

(* What is left of the lines after the flush, and is consumed.             *)
Flushes == {SubSeq(urc, i, Len(urc)) : i \in 1..Len(urc) + 1}
Loses(lines) == Len(lines) < Len(urc)

(* at_run: that lines fall before a flush is counted as a misbehaviour.    *)
at_run ==
  /\ urc' = <<>>
  /\ \E lines \in Flushes : note_mipurc(lines) /\ Misbehaves(Loses(lines))

(* The same with AT+CEREG? as the last command: its answer sets net_ok,    *)
(* and without an answer that is what it was.                              *)
at_run_cereg ==
  /\ urc' = <<>>
  /\ \E lines \in Flushes :
       /\ socket_ok' = (socket_ok /\ ~Has(lines, "disconn") /\ ~Has(lines, "pdpdeact"))
       /\ net_ok' = IF Answers THEN reg ELSE net_ok /\ ~Has(lines, "pdpdeact")
       /\ rx' = rx \o Received(lines)
       /\ Misbehaves(Loses(lines))

(* The same for a command after which the socket counts as closed.         *)
at_run_close ==
  /\ socket_ok' = FALSE /\ urc' = <<>>
  /\ \E lines \in Flushes :
       /\ net_ok' = (net_ok /\ ~Has(lines, "pdpdeact"))
       /\ rx' = rx \o Received(lines)
       /\ Misbehaves(Loses(lines))

-----------------------------------------------------------------------------
(* ml307_task, up to the socket                                            *)

Moves(from, to) == state = from /\ state' = to

(* ml307_power_on and ml307_power_cycle: the module starts from nothing.   *)
Powered == module' = "on" /\ reg' = FALSE /\ tcp' = "none"

(* POWER_ON: a module that answers is left alone.                          *)
PowerOn ==
  /\ Moves("POWER_ON", "WAIT_AT")
  /\ IF EN = "pulse" /\ Answers THEN UNCHANGED moduleVars ELSE Powered
  /\ UNCHANGED <<statusVars, has_socket, reqVars, urc, rx, faults>>

(* wait_at_ready, init_module (whose outcome is not looked at), wait_sim.  *)
Starts ==
  /\ \/ Moves("WAIT_AT", IF Answers THEN "INIT" ELSE "RETRY")
     \/ Moves("INIT", "SIM")
     \/ Moves("SIM", IF Answers THEN "NETWORK" ELSE "RETRY")
  /\ at_run
  /\ UNCHANGED <<has_socket, reqVars, moduleVars>>

wait_network ==
  /\ state = "NETWORK"
  /\ at_run_cereg
  /\ state' = IF net_ok' THEN "SOCKET" ELSE "RETRY"
  /\ UNCHANGED <<has_socket, reqVars, moduleVars>>

-----------------------------------------------------------------------------
(* The socket                                                              *)

(* socket_open up to AT+MIPOPEN: the older connection is closed, and the   *)
(* command is accepted or, three times, not.                               *)
socket_open ==
  /\ Moves("SOCKET", IF Answers THEN "POLL" ELSE "RETRY")
  /\ at_run
  /\ tcp' = IF Answers THEN "none" ELSE tcp
  /\ UNCHANGED <<has_socket, reqVars, module, reg>>

(* The polls of AT+MIPSTATE: connected, or not within 25 of them.          *)
Connected ==
  /\ state = "POLL"
  /\ at_run
  /\ state' = IF Answers /\ reg THEN "OPENED" ELSE "RETRY"
  /\ tcp' = IF Answers /\ reg THEN "open" ELSE tcp
  /\ UNCHANGED <<has_socket, reqVars, module, reg>>

(* The end of socket_open, whatever the lines said meanwhile.              *)
Opened ==
  /\ Moves("OPENED", "ONLINE")
  /\ socket_ok' = TRUE
  /\ UNCHANGED <<net_ok, has_socket, reqVars, moduleVars, urc, rx, faults>>

-----------------------------------------------------------------------------
(* On line                                                                 *)

(* online_loop is entered after a log line and a delay, in which another   *)
(* task's command may have consumed the line of the socket's end.          *)
Enter ==
  /\ Moves("ONLINE", "LOOPING")
  /\ has_socket' = socket_ok
  /\ UNCHANGED <<statusVars, reqVars, moduleVars, urc, rx, faults>>

(* Mutated form: the socket is left open when a reconnect is asked for.    *)
RequestedOpen ==
  /\ state = "LOOPING" /\ (req_power_cycle \/ req_reconnect)
  /\ req_power_cycle' = FALSE /\ req_reconnect' = FALSE
  /\ state' = IF req_power_cycle THEN "RETRY" ELSE "LOOPING"
  /\ UNCHANGED <<statusVars, has_socket, moduleVars, urc, rx, faults>>

(* A request is looked for first; socket_close runs AT+MIPCLOSE.           *)
Requested ==
  /\ state = "LOOPING" /\ (req_power_cycle \/ req_reconnect)
  /\ req_power_cycle' = FALSE /\ req_reconnect' = FALSE
  /\ IF req_power_cycle
     THEN state' = "RETRY" /\ UNCHANGED <<statusVars, tcp, urc, rx, faults>>
     ELSE /\ state' = "SOCKET"
          /\ IF has_socket
             THEN at_run_close /\ tcp' = IF Answers THEN "none" ELSE tcp
             ELSE UNCHANGED <<statusVars, tcp, urc, rx, faults>>
  /\ UNCHANGED <<has_socket, module, reg>>

(* Mutated form: a loss of the socket is not looked for after the lines.   *)
at_drain_blind ==
  /\ state = "LOOPING" /\ ~req_power_cycle /\ ~req_reconnect
  /\ note_mipurc(urc) /\ urc' = <<>>
  /\ state' = IF ~net_ok' THEN "NETWORK" ELSE "LOOPING"
  /\ UNCHANGED <<has_socket, reqVars, moduleVars, faults>>

(* at_drain, and what is seen after it.                                    *)
at_drain ==
  /\ state = "LOOPING" /\ ~req_power_cycle /\ ~req_reconnect
  /\ note_mipurc(urc) /\ urc' = <<>>
  /\ state' = IF has_socket /\ ~socket_ok' THEN "SOCKET"
              ELSE IF ~net_ok' THEN "NETWORK" ELSE "LOOPING"
  /\ UNCHANGED <<has_socket, reqVars, moduleVars, faults>>

(* Three queries, every ML307_STAT_MS.                                     *)
refresh_status ==
  /\ state = "LOOPING"
  /\ at_run_cereg
  /\ UNCHANGED <<state, has_socket, reqVars, moduleVars>>

(* RETRY: a module that answers only has its start repeated; another one   *)
(* is restarted, and nothing of the status survives.                       *)
Retry ==
  /\ state = "RETRY"
  /\ IF EN = "pulse" /\ Answers
     THEN state' = "INIT" /\ at_run_close /\ UNCHANGED moduleVars
     ELSE /\ state' = "WAIT_AT" /\ net_ok' = FALSE /\ socket_ok' = FALSE /\ urc' = <<>>
          /\ Powered /\ UNCHANGED <<rx, faults>>
  /\ UNCHANGED <<has_socket, reqVars>>

ml307_task ==
  \/ PowerOn \/ Starts \/ wait_network \/ socket_open \/ Opened
  \/ Enter \/ Requested \/ at_drain \/ refresh_status \/ Retry

(* at_command, from the web page; it matters only when there are lines.    *)
at_command ==
  /\ urc # <<>> /\ at_run
  /\ UNCHANGED <<state, has_socket, reqVars, moduleVars>>

-----------------------------------------------------------------------------
(* External: the module and its network                                    *)

(* The module hangs; or restarts by itself, of which it says nothing that  *)
(* the code listens to.                                                    *)
ModuleFails ==
  /\ Fault /\ Answers
  /\ \/ module' = "hung" /\ UNCHANGED <<reg, tcp, urc>>
     \/ UNCHANGED module /\ reg' = FALSE /\ tcp' = "none" /\ urc' = <<>>
  /\ UNCHANGED <<state, statusVars, has_socket, reqVars, rx>>

(* The connection breaks, alone or with the network.                       *)
LinkBreaks ==
  /\ Fault /\ Answers /\ tcp # "none" /\ Len(urc) < UrcCap
  /\ tcp' = "none"
  /\ \/ urc' = Append(urc, "disconn") /\ UNCHANGED reg
     \/ urc' = Append(urc, "pdpdeact") /\ reg' = FALSE
  /\ UNCHANGED <<state, statusVars, has_socket, reqVars, module, rx>>

Registers ==
  /\ Answers /\ ~reg /\ reg' = TRUE
  /\ UNCHANGED <<state, statusVars, has_socket, reqVars, module, tcp, urc, rx, faults>>
=============================================================================
