------------------------------- MODULE EspUplink -------------------------------
(***************************************************************************)
(* The esp32 firmware's uplink (bms_uplink.c) with its MQTT packets        *)
(* (mqtt_client.c) over the 4G link of EspLink: uplink_task connects,      *)
(* subscribes, samples, publishes a batch, answers RPC requests and keeps  *)
(* the session alive, while ml307_task opens and closes the socket below.  *)
(*                                                                         *)
(* A packet is whole or not there; the ring and the parser's buffer are    *)
(* one sequence, which mqtt_mark_disconnected leaves alone: it resets only *)
(* the buffer, that pump_rx left empty.  Which intervals have passed is    *)
(* open, but for the ones the fairness and the guards name.                *)
(*                                                                         *)
(* mqtt_rx_next moves the buffer over the packet it returns before the     *)
(* packet is handled, so that its payload is what followed it, if anything *)
(* did.                                                                    *)
(***************************************************************************)
EXTENDS EspLink

CONSTANTS
  BATCH,      (* batch_samples                                             *)
  FAIL_MAX,   (* UPLINK_PUBLISH_FAIL_MAX                                   *)
  MaxAsks     (* bound: requests from the web page                         *)

ASSUME UplinkAssumption == {BATCH, FAIL_MAX} \subseteq Nat \ {0} /\ MaxAsks \in Nat

VARIABLES
  up,                (* where uplink_task is                               *)
  mqtt_connected, subscribed,
  s_await,           (* what it waits for                                  *)
  seen,              (* it has looked since the opening of a socket began  *)
  call,              (* the request it handles: none, or [step, is, seen]  *)
  count,             (* samples in s_hist                                  *)
  pub_fails,
  s_req_publish, s_req_reconnect,
  calls,             (* external: requests the broker still has            *)
  asks               (* requests from the web page so far                  *)

sessionVars == <<mqtt_connected, subscribed, s_await>>
batchVars == <<count, pub_fails>>
webVars == <<s_req_publish, s_req_reconnect, asks>>
upVars == <<up, seen, sessionVars, call, batchVars, webVars, calls, transparent>>
vars == <<linkVars, upVars>>

None == [step |-> "none"]

Init ==
  /\ LinkInit
  /\ up = "look" /\ seen = FALSE
  /\ mqtt_connected = FALSE /\ subscribed = FALSE /\ s_await = {}
  /\ call = None /\ count = 0 /\ pub_fails = 0
  /\ s_req_publish = FALSE /\ s_req_reconnect = FALSE
  /\ calls = CALLS /\ asks = 0

-----------------------------------------------------------------------------
(* Sending                                                                 *)

(* External: what the broker makes of a packet.  It closes a connection    *)
(* that does not begin with CONNECT or has a second one.                   *)
Broker(packet) ==
  LET close == (packet = "CONNECT") # (tcp = "open")
  IN  CASE close -> tcp' = "none" /\ urc' = <<"disconn">>
        [] packet = "CONNECT" /\ ~close -> tcp' = "session" /\ urc' = <<"CONNACK">>
        [] packet = "SUBSCRIBE" /\ ~close -> tcp' = "subscribed" /\ urc' = <<"SUBACK">>
        [] OTHER -> urc' = <<>> /\ UNCHANGED tcp

(* mqtt_send, with ml307_4g_socket_send and socket_send_bytes: without a   *)
(* socket nothing is tried; the lines before the prompt are lost or        *)
(* consumed; the module takes the data if it has a connection, and may not *)
(* say so.  unlikely is a coincidence to be counted with the rest.         *)
mqtt_send(packet, ok, unlikely) ==
  IF ~socket_ok
  THEN ~ok /\ UNCHANGED <<statusVars, rx, urc, tcp>> /\ Misbehaves(unlikely)
  ELSE \E lines \in Flushes, taken \in BOOLEAN :
         /\ note_mipurc(lines)
         /\ taken \/ ~ok
         /\ IF taken THEN Answers /\ tcp # "none" /\ Broker(packet)
            ELSE urc' = <<>> /\ UNCHANGED tcp
         /\ Misbehaves(unlikely \/ Loses(lines) \/ (~ok /\ Answers /\ tcp # "none"))

unsent == <<state, has_socket, req_power_cycle, module, reg>>

(* mqtt_mark_disconnected.                                                 *)
mqtt_mark_disconnected == mqtt_connected' = FALSE /\ subscribed' = FALSE

-----------------------------------------------------------------------------
(* uplink_task                                                             *)

Goes(from, to) == up = from /\ up' = to /\ call = None

(* The top of the loop.                                                    *)
Look ==
  /\ Goes("look", IF ~socket_ok THEN "look" ELSE IF mqtt_connected THEN "pump" ELSE "connect")
  /\ IF ~socket_ok THEN mqtt_mark_disconnected ELSE UNCHANGED <<mqtt_connected, subscribed>>
  /\ seen' = (state = "POLL")
  /\ UNCHANGED <<linkVars, s_await, call, batchVars, webVars, calls, transparent>>

(* mqtt_connect: CONNECT is sent; without it a reconnect is asked for.     *)
mqtt_connect ==
  /\ \E ok \in BOOLEAN :
       /\ mqtt_send("CONNECT", ok, FALSE)
       /\ Goes("connect", IF ok THEN "connack" ELSE "pause")
       /\ s_await' = IF ok THEN {"CONNACK"} ELSE s_await
       /\ req_reconnect' = (req_reconnect \/ ~ok)
  /\ UNCHANGED <<unsent, seen, mqtt_connected, subscribed, call, batchVars, webVars, calls, transparent>>

(* The wait for the acknowledgement of a packet ends with it.              *)
Acknowledged ==
  /\ rx = <<>>
  /\ \/ Goes("connack", "subscribe") /\ "CONNACK" \notin s_await
     \/ Goes("suback", "pump") /\ "SUBACK" \notin s_await
  /\ UNCHANGED <<linkVars, seen, sessionVars, call, batchVars, webVars, calls, transparent>>

(* Or it ends without it.  An answer that is late by more than the wait is *)
(* a misbehaviour of the network.                                          *)
TimesOut ==
  /\ rx = <<>>
  /\ \/ Goes("connack", "pause") /\ "CONNACK" \in s_await /\ req_reconnect' = TRUE
     \/ Goes("suback", "pump") /\ "SUBACK" \in s_await /\ UNCHANGED req_reconnect
  /\ IF Has(urc, "CONNACK") \/ Has(urc, "SUBACK") THEN Fault ELSE UNCHANGED faults
  /\ UNCHANGED <<state, seen, statusVars, has_socket, req_power_cycle, moduleVars, urc, rx,
                 sessionVars, call, batchVars, webVars, calls, transparent>>

(* vTaskDelay of 3 s after a failed connect: online_loop looks for the     *)
(* request every 200 ms.                                                   *)
Pause ==
  /\ Goes("pause", "look")
  /\ ~(state = "LOOPING" /\ req_reconnect)
  /\ UNCHANGED <<linkVars, seen, sessionVars, call, batchVars, webVars, calls, transparent>>

mqtt_subscribe ==
  /\ \E ok \in BOOLEAN :
       /\ mqtt_send("SUBSCRIBE", ok, FALSE)
       /\ Goes("subscribe", IF ok THEN "suback" ELSE "pump")
       /\ s_await' = IF ok THEN {"SUBACK"} ELSE s_await
  /\ UNCHANGED <<unsent, seen, req_reconnect, mqtt_connected, subscribed, call, batchVars,
                 webVars, calls, transparent>>

(* pump_rx takes the next packet: handle_message.  A CONNACK's code is the *)
(* second byte of its payload, so of what follows it, where it is a length *)
(* and not zero.                                                           *)
handle_message ==
  /\ up \in {"connack", "suback", "pump"} /\ call = None /\ rx # <<>>
  /\ rx' = Tail(rx)
  /\ LET last == Len(rx) = 1
     IN  CASE Head(rx) = "CONNACK" ->
                /\ s_await' = IF last THEN s_await \ {"CONNACK"} ELSE s_await
                /\ mqtt_connected' = (mqtt_connected \/ last)
                /\ UNCHANGED <<subscribed, call>>
           [] Head(rx) = "SUBACK" ->
                /\ s_await' = s_await \ {"SUBACK"} /\ subscribed' = TRUE
                /\ UNCHANGED <<mqtt_connected, call>>
           [] OTHER ->
                /\ call' = [step |-> "puback", is |-> Head(rx),
                            seen |-> IF last THEN Head(rx) ELSE rx[2]]
                /\ UNCHANGED sessionVars
  /\ UNCHANGED <<state, seen, statusVars, has_socket, reqVars, moduleVars, urc, faults,
                 up, batchVars, webVars, calls, transparent>>

(* A request is acknowledged, then handled and answered, whatever becomes  *)
(* of the two packets.                                                     *)
handle_downlink ==
  /\ call # None
  /\ \E ok \in BOOLEAN : mqtt_send("other", ok, FALSE)
  /\ call' = IF call.step = "puback" THEN [call EXCEPT !.step = "reply"] ELSE None
  /\ UNCHANGED <<unsent, seen, req_reconnect, up, sessionVars, batchVars, webVars, calls, transparent>>

(* With nothing left to handle, a request of the user's is looked for.     *)
UserReconnect ==
  /\ rx = <<>>
  /\ Goes("pump", IF s_req_reconnect THEN "look" ELSE "sample")
  /\ IF s_req_reconnect
     THEN mqtt_mark_disconnected /\ req_reconnect' = TRUE
     ELSE UNCHANGED <<mqtt_connected, subscribed, req_reconnect>>
  /\ s_req_reconnect' = FALSE
  /\ UNCHANGED <<state, seen, statusVars, has_socket, req_power_cycle, moduleVars, urc, rx, faults,
                 s_await, call, batchVars, s_req_publish, asks, calls, transparent>>

(* What is due only every half minute is not due, but for a misbehaviour,  *)
(* in the second in which a line or a request is not yet looked at.        *)
Settled == state = "LOOPING" /\ urc = <<>> /\ ~req_reconnect /\ has_socket = socket_ok

(* A sample is due or not, and the battery has data or not.                *)
Sample ==
  /\ up = "sample" /\ call = None
  /\ \/ /\ up' = "ping" /\ UNCHANGED <<count, s_req_publish>>
     \/ /\ up' = "ping" /\ s_req_publish' = FALSE /\ UNCHANGED count
     \/ /\ count' = count + 1
        /\ up' = IF count' = BATCH \/ s_req_publish THEN "publish" ELSE "ping"
        /\ s_req_publish' = FALSE
  /\ Misbehaves(up' = "publish" /\ ~Settled)
  /\ UNCHANGED <<state, statusVars, has_socket, reqVars, moduleVars, urc, rx,
                 seen, sessionVars, call, pub_fails, s_req_reconnect, asks, calls, transparent>>

(* publish_batch: the batch is forgotten, published or not; after FAIL_MAX *)
(* failures in a row the connection is given up.                           *)
publish_batch ==
  /\ Goes("publish", "ping")
  /\ \E ok \in BOOLEAN :
       /\ mqtt_send("other", ok, FALSE)
       /\ count' = 0
       /\ LET give == ~ok /\ pub_fails + 1 >= FAIL_MAX
          IN  /\ pub_fails' = IF ok \/ give THEN 0 ELSE pub_fails + 1
              /\ req_reconnect' = (req_reconnect \/ give)
              /\ IF give THEN mqtt_mark_disconnected
                 ELSE UNCHANGED <<mqtt_connected, subscribed>>
  /\ UNCHANGED <<unsent, seen, s_await, call, webVars, calls, transparent>>

(* PINGREQ, every half of the keep-alive from mqtt_connect on.             *)
mqtt_publish_ping ==
  /\ Goes("ping", "look")
  /\ \E ok \in BOOLEAN :
       /\ mqtt_send("other", ok, ~Settled)
       /\ req_reconnect' = (req_reconnect \/ ~ok)
       /\ IF ok THEN UNCHANGED <<mqtt_connected, subscribed>> ELSE mqtt_mark_disconnected
  /\ UNCHANGED <<unsent, seen, s_await, call, batchVars, webVars, calls, transparent>>

NoPing ==
  /\ Goes("ping", "look")
  /\ UNCHANGED <<linkVars, seen, sessionVars, call, batchVars, webVars, calls, transparent>>

uplink_task ==
  \/ Look \/ mqtt_connect \/ Acknowledged \/ TimesOut \/ Pause \/ mqtt_subscribe
  \/ handle_message \/ handle_downlink \/ UserReconnect \/ Sample
  \/ publish_batch \/ mqtt_publish_ping \/ NoPing

-----------------------------------------------------------------------------
(* The others                                                              *)

(* The web page's buttons: publish, reconnect MQTT, reconnect the socket,  *)
(* restart the module.  The last two are requests to ml307_task itself, at *)
(* whatever point it is.                                                   *)
web_at ==
  /\ asks < MaxAsks /\ asks' = asks + 1
  /\ \/ s_req_publish' = TRUE /\ UNCHANGED <<s_req_reconnect, reqVars>>
     \/ s_req_reconnect' = TRUE /\ UNCHANGED <<s_req_publish, reqVars>>
     \/ req_reconnect' = TRUE /\ UNCHANGED <<s_req_publish, s_req_reconnect, req_power_cycle>>
     \/ req_power_cycle' = TRUE /\ UNCHANGED <<s_req_publish, s_req_reconnect, req_reconnect>>
  /\ UNCHANGED <<state, statusVars, has_socket, moduleVars, urc, rx, faults,
                 up, seen, sessionVars, call, batchVars, calls, transparent>>

(* External: the broker sends a request to the topic subscribed.           *)
BrokerCalls ==
  /\ tcp = "subscribed" /\ Answers /\ Len(urc) + Len(rx) < UrcCap
  /\ \E c \in calls :
       /\ urc' = Append(urc, c)
       /\ calls' = calls \ {c}
  /\ UNCHANGED <<state, statusVars, has_socket, reqVars, moduleVars, rx, faults,
                 up, seen, sessionVars, call, batchVars, webVars, transparent>>

(* Opening a socket takes a second at least, and uplink_task looks every   *)
(* half second unless it waits for an answer or handles a request.         *)
Opening ==
  /\ seen \/ up \in {"connack", "suback", "pause"} \/ call # None
  /\ Connected

Link == (ml307_task \/ Opening \/ at_command) /\ UNCHANGED upVars
World == (ModuleFails \/ LinkBreaks \/ Registers) /\ UNCHANGED upVars

Next == Link \/ World \/ uplink_task \/ web_at \/ BrokerCalls

(* Tasks that can go on do; PINGREQ is due again and again, and so is the  *)
(* look at a request and at the lines; the network is found.  Not every    *)
(* time does the socket close between the look at it and the CONNECT that  *)
(* follows at once.                                                        *)
Spec ==
  /\ Init /\ [][Next]_vars
  /\ WF_vars((ml307_task \/ Opening) /\ UNCHANGED upVars)
  /\ SF_vars((Requested \/ at_drain) /\ UNCHANGED upVars)
  /\ WF_vars(uplink_task) /\ SF_vars(mqtt_publish_ping)
  /\ SF_vars(mqtt_connect /\ up' = "connack")
  /\ WF_vars(Registers /\ UNCHANGED upVars)

-----------------------------------------------------------------------------
(* Properties                                                              *)

InSession == socket_ok /\ mqtt_connected /\ tcp \in {"session", "subscribed"}

(* The end of the socket was noticed before online_loop looked for the     *)
(* first time: it takes the modem for one without a socket and no longer   *)
(* looks for its loss (ml307_4g.c:1187, :1210).                            *)
Blind == state = "LOOPING" /\ ~has_socket

(* After the last fault the broker is reached again and again, and over a *)
(* transparent socket there is a session with it, whatever was lost: a line*)
(* about the connection's end, the module, an answer, a request to         *)
(* reconnect that came at a bad moment (ml307_4g.c:1184-1226,              *)
(* bms_uplink.c:397-478).  Over the code's own socket CONNACK is not       *)
(* understood (Reconnects); what is left then is that CONNECT comes        *)
(* through.  Excepted is a loop that is blind (Reopened).                  *)
Reached == socket_ok /\ tcp \in {"session", "subscribed"} /\ (transparent => mqtt_connected)
ReconnectsUnlessBlind == []<>(Reached \/ Blind)

(* A request to reconnect, the page's own or the uplink's, is served at    *)
(* whatever moment it comes: the socket it was made about goes             *)
(* (ml307_4g.c:1196-1203, web_server.c:769).                               *)
RequestServed == req_reconnect ~> ~req_reconnect /\ ~socket_ok

(* What esp32/README.md:220 and :233 say: when the socket has dropped, it  *)
(* is opened again.  Not if another task's command noticed it before       *)
(* online_loop looked.                                                     *)
Reopened == (state = "LOOPING" /\ ~socket_ok) ~> socket_ok

(* What ml307_4g.h:10 says, that the socket is transparent, so that the    *)
(* MQTT over it has sessions.  Data is cut at the first zero byte, and     *)
(* every CONNACK has one.                                                  *)
Reconnects == []<>InSession

(* What is executed is what the request said.                              *)
HandledIsSent == call # None => call.seen = call.is
=============================================================================
