------------------------------ MODULE MqttBus ------------------------------
(***************************************************************************)
(* The MQTT connection of bms_uplink.lua as it is lent to the management   *)
(* link: one client for both, a subscription that is repeated after every  *)
(* CONNACK, and a bounded queue between the library's callback, which may  *)
(* not work, and task_downlink, which hands the messages over.             *)
(*                                                                         *)
(* There is one subscription, mgmt_mqtt's.  What the broker knows of it is *)
(* external and ends with the connection.                                  *)
(***************************************************************************)
EXTENDS Integers, Sequences

CONSTANT RX_QUEUE_MAX     (* messages waiting at most (16)                 *)

ASSUME QueueAssumption == RX_QUEUE_MAX \in Nat \ {0}

VARIABLES
  mqttc,          (* TRUE once mqtt.create succeeded                       *)
  mqtt_ready,     (* CONNACK seen, no disconnect or error event since      *)
  sock_ready,     (* external: the connection stands                       *)
  subs,           (* mgmt_mqtt has registered its topic                    *)
  subscribed,     (* external: the broker has it, on this connection       *)
  rx_queue

busVars == <<mqttc, mqtt_ready, sock_ready, subs, subscribed, rx_queue>>

BusInit ==
  /\ mqttc = FALSE /\ mqtt_ready = FALSE /\ sock_ready = FALSE
  /\ subs = FALSE /\ subscribed = FALSE
  /\ rx_queue = <<>>

BusReset ==
  /\ mqttc' = FALSE /\ mqtt_ready' = FALSE /\ sock_ready' = FALSE
  /\ subs' = FALSE /\ subscribed' = FALSE
  /\ rx_queue' = <<>>

(* net_ready is published once: the connect task creates the client, the   *)
(* task of mgmt_mqtt registers its topic, in either order.                 *)
CreateClient ==
  /\ ~mqttc
  /\ mqttc' = TRUE
  /\ UNCHANGED <<mqtt_ready, sock_ready, subs, subscribed, rx_queue>>

(* mgmt_mqtt's open() with subscribe(): at once when connected, otherwise  *)
(* with the next CONNACK.  A call into a dead connection has no effect.    *)
Open ==
  /\ ~subs
  /\ subs' = TRUE
  /\ subscribed' = (mqttc /\ mqtt_ready /\ sock_ready)
  /\ UNCHANGED <<mqttc, mqtt_ready, sock_ready, rx_queue>>

(* Mutated form: the subscription is not repeated.                         *)
ConackOnly ==
  /\ mqttc /\ ~sock_ready
  /\ mqtt_ready' = TRUE /\ sock_ready' = TRUE
  /\ UNCHANGED <<mqttc, subs, subscribed, rx_queue>>

(* The library (re)connects and reports it, and replay_subs follows.       *)
Conack ==
  /\ mqttc /\ ~sock_ready
  /\ mqtt_ready' = TRUE /\ sock_ready' = TRUE
  /\ subscribed' = subs
  /\ UNCHANGED <<mqttc, subs, rx_queue>>

(* The connection is lost before the disconnect or error event is.         *)
LinkDown ==
  /\ sock_ready
  /\ sock_ready' = FALSE /\ subscribed' = FALSE
  /\ UNCHANGED <<mqttc, mqtt_ready, subs, rx_queue>>

DisconnectOrError ==
  /\ mqtt_ready /\ ~sock_ready
  /\ mqtt_ready' = FALSE
  /\ UNCHANGED <<mqttc, sock_ready, subs, subscribed, rx_queue>>

(* A message from the broker: queued, in place of the oldest when full.    *)
Deliver(msg) ==
  LET room == IF Len(rx_queue) >= RX_QUEUE_MAX THEN Tail(rx_queue) ELSE rx_queue IN
  /\ subscribed
  /\ rx_queue' = Append(room, msg)
  /\ UNCHANGED <<mqttc, mqtt_ready, sock_ready, subs, subscribed>>

(* task_downlink takes the oldest message; deliver_pending does so until   *)
(* none is left.                                                           *)
TakeMessage ==
  /\ rx_queue # <<>>
  /\ rx_queue' = Tail(rx_queue)
  /\ UNCHANGED <<mqttc, mqtt_ready, sock_ready, subs, subscribed>>

(* publish(): the answer leaves, or the caller is told FALSE.              *)
CanPublish == mqttc /\ mqtt_ready /\ sock_ready

-----------------------------------------------------------------------------

BusTypeOK ==
  /\ {mqttc, mqtt_ready, sock_ready, subs, subscribed} \subseteq BOOLEAN
  /\ Len(rx_queue) <= RX_QUEUE_MAX

(* Whenever the link is up the registered topic is subscribed, whichever   *)
(* came first and however often the connection was lost, also half-noticed *)
(* (bms_uplink.lua:118, "replayed after every CONNACK").                   *)
SubscriptionHolds == subs /\ sock_ready => subscribed
=============================================================================
