------------------------------ MODULE MgmtRpc ------------------------------
(***************************************************************************)
(* The management service of the air780epm firmware: mgmt.lua's requests   *)
(* with their deduplication, entered from UART1 frames (mgmt_uart) and     *)
(* from MQTT messages (mgmt_mqtt over MqttBus), working on CfgStore.       *)
(*                                                                         *)
(* Each link has a master with one request in flight                       *)
(* (docs/air780epm/MGMT_RPC.md:62) that sends a request again until it has *)
(* the answer or gives it up.  Requests and answers may be lost.  The      *)
(* masters are external, as are the names `get', for any method that       *)
(* changes nothing, and `set', `reset', `reboot', for config.set,          *)
(* cmd.factory_reset, cmd.reboot.  FotaMgr has the fota methods.           *)
(***************************************************************************)
EXTENDS CfgStore, MqttBus

CONSTANTS
  UartIds, MqttIds,   (* request ids of the two masters                    *)
  NoId,               (* an MQTT request without an id                     *)
  Kinds,              (* what the masters may ask: [link, id, method,      *)
                      (* params], params being config.set's key -> value   *)
  Stored,             (* fskv at the first boot                            *)
  DEDUP_WINDOW,       (* MGMT_DEDUP_WINDOW_MS                              *)
  DEDUP_CAP,          (* MGMT_DEDUP_MAX                                    *)
  PRUNE_ABOVE,        (* entries above which expired ones are dropped (64) *)
  MaxNow,             (* bound: time                                       *)
  MaxRequests,        (* bound: requests                                   *)
  MaxSends,           (* bound: requests that arrive, repeated ones too    *)
  MaxPowerLoss        (* bound: reboots that were not asked for            *)

ASSUME MgmtAssumption ==
  /\ NoId \notin UartIds \cup MqttIds
  /\ \A q \in Kinds :
       \/ q.link = "uart" /\ q.id \in UartIds
       \/ q.link = "mqtt" /\ q.id \in MqttIds \cup {NoId}
  /\ \A t \in Stored \cup {q.params : q \in Kinds} : \A k \in DOMAIN t : t[k] \in Value
  /\ {DEDUP_WINDOW, DEDUP_CAP} \subseteq Nat \ {0} /\ PRUNE_ABOVE \in Nat
  /\ {MaxNow, MaxRequests, MaxSends, MaxPowerLoss} \subseteq Nat

VARIABLES
  uart_rx,        (* request frames not yet handled                        *)
  dedup,          (* id -> [method, at, by], by being the request answered *)
  dedup_n,
  reboot_due,     (* cmd.reboot has posted its 200 ms timer                *)
  now,            (* external: time                                        *)
  reqs,           (* external: every request, by number                    *)
  awaited,        (* external: link -> the request its master waits for    *)
  sends, losses,  (* bounded: arrivals, power losses                       *)
  boots,          (* history: boots so far                                 *)
  runs,           (* history: what was executed, when and in which boot    *)
  answers         (* history: answers received, and to which request       *)

worldVars == <<now, reqs, awaited, sends, losses>>
histVars == <<boots, runs, answers>>
vars == <<storeVars, busVars, uart_rx, dedup, dedup_n, reboot_due, worldVars, histVars>>

Link == {"uart", "mqtt"}
Method == {"get", "set", "reset", "reboot"}

-----------------------------------------------------------------------------
(* Deduplication                                                           *)

(* Mutated form: the method is not compared.                               *)
IsRepeatedId(q) ==
  q.id \in DOMAIN dedup /\ now - dedup[q.id].at < DEDUP_WINDOW

IsRepeated(q) ==
  /\ q.id \in DOMAIN dedup
  /\ dedup[q.id].method = q.method
  /\ now - dedup[q.id].at < DEDUP_WINDOW

Young == IF dedup_n > PRUNE_ABOVE
         THEN {id \in DOMAIN dedup : now - dedup[id].at < DEDUP_WINDOW}
         ELSE DOMAIN dedup

(* Mutated form: any entry may have to make room.                          *)
RememberAny(r) ==
  LET q == reqs[r]
      entry == [id \in Young \cup {q.id} |->
                  IF id = q.id THEN [method |-> q.method, at |-> now, by |-> r] ELSE dedup[id]]
      n == dedup_n - Cardinality(DOMAIN dedup \ Young) + IF q.id \in Young THEN 0 ELSE 1
      cap == IF n > DEDUP_CAP THEN DEDUP_CAP ELSE n
  IN  /\ \E kept \in SUBSET DOMAIN entry :
           Cardinality(kept) = cap /\ dedup' = [id \in kept |-> entry[id]]
      /\ dedup_n' = cap

(* The answer to request r is kept under its id: expired entries make room *)
(* when there are many, and the oldest when there are still too many.      *)
Remember(r) ==
  LET q == reqs[r]
      entry == [id \in Young \cup {q.id} |->
                  IF id = q.id THEN [method |-> q.method, at |-> now, by |-> r] ELSE dedup[id]]
      n == dedup_n - Cardinality(DOMAIN dedup \ Young) + IF q.id \in Young THEN 0 ELSE 1
      cap == IF n > DEDUP_CAP THEN DEDUP_CAP ELSE n
  IN  /\ \E kept \in SUBSET DOMAIN entry :
           /\ Cardinality(kept) = cap
           /\ \A out \in DOMAIN entry \ kept : \A id \in kept : entry[out].at <= entry[id].at
           /\ dedup' = [id \in kept |-> entry[id]]
      /\ dedup_n' = cap

-----------------------------------------------------------------------------
(* Requests                                                                *)

(* config.set: all of the batch or nothing.                                *)
ConfigSet(vals) ==
  IF vals # NoOverrides /\ DOMAIN Accepted(vals) = DOMAIN vals
  THEN StageAndSave(Accepted(vals))
  ELSE UNCHANGED storeVars

Execute(r) ==
  LET q == reqs[r] IN
  /\ \/ q.method = "get" /\ UNCHANGED <<storeVars, reboot_due>>
     \/ q.method = "set" /\ ConfigSet(q.params) /\ UNCHANGED reboot_due
     \/ q.method = "reset" /\ Reset /\ UNCHANGED reboot_due
     \/ q.method = "reboot" /\ reboot_due' = TRUE /\ UNCHANGED storeVars
  /\ runs' = Append(runs, [req |-> r, at |-> now, boot |-> boots])

(* The master of the link gets the answer to r, if it still waits for it.  *)
Answer(r, by, arrives) ==
  LET link == reqs[r].link
      taken == arrives /\ awaited[link] = r
  IN  /\ awaited' = IF taken THEN [awaited EXCEPT ![link] = 0] ELSE awaited
      /\ answers' = IF taken THEN answers \cup {<<r, by>>} ELSE answers

(* handle(): a repeated request is answered from the table, any other is   *)
(* executed, and remembered when it has an id.                             *)
Handle(r, arrives) ==
  LET q == reqs[r] IN
  /\ IF q.id # NoId /\ IsRepeated(q)
     THEN /\ Answer(r, dedup[q.id].by, arrives)
          /\ UNCHANGED <<storeVars, reboot_due, runs, dedup, dedup_n>>
     ELSE /\ Execute(r)
          /\ Answer(r, r, arrives)
          /\ IF q.id = NoId THEN UNCHANGED <<dedup, dedup_n>> ELSE Remember(r)
  /\ UNCHANGED <<now, reqs, sends, losses, boots>>

(* process_rx takes the frames in order and may yield after each.  The     *)
(* answer is written in any case, and arrives or not.                      *)
ServeUart ==
  /\ uart_rx # <<>>
  /\ uart_rx' = Tail(uart_rx)
  /\ \E arrives \in BOOLEAN : Handle(Head(uart_rx), arrives)
  /\ UNCHANGED busVars

(* on_message, from deliver_pending, one message at a time: other steps    *)
(* between two messages only add behaviours.  The answer needs the         *)
(* connection.                                                             *)
ServeMqtt ==
  /\ TakeMessage
  /\ \E arrives \in {FALSE, CanPublish} : Handle(Head(rx_queue), arrives)
  /\ UNCHANGED uart_rx

-----------------------------------------------------------------------------
(* Masters, time and reboots                                               *)

(* A request frame or message arrives at the device.                       *)
Arrives(r) ==
  /\ sends < MaxSends
  /\ sends' = sends + 1
  /\ IF reqs'[r].link = "uart"
     THEN uart_rx' = Append(uart_rx, r) /\ UNCHANGED busVars
     ELSE Deliver(r) /\ UNCHANGED uart_rx

(* A new request.  Its master gives up the one before, and never uses an   *)
(* id of its own twice for the same method (MGMT_RPC.md:68).               *)
Request(q) ==
  LET r == Len(reqs) + 1 IN
  /\ r <= MaxRequests
  /\ q.id # NoId => \A i \in DOMAIN reqs : reqs[i].link # q.link \/ reqs[i].id # q.id
                                           \/ reqs[i].method # q.method
  /\ reqs' = Append(reqs, q)
  /\ awaited' = [awaited EXCEPT ![q.link] = r]
  /\ Arrives(r)
  /\ UNCHANGED <<storeVars, dedup, dedup_n, reboot_due, now, losses, histVars>>

SendAgain(link) ==
  /\ awaited[link] # 0
  /\ reqs' = reqs
  /\ Arrives(awaited[link])
  /\ UNCHANGED <<storeVars, dedup, dedup_n, reboot_due, now, awaited, losses, histVars>>

(* Time only counts while there is an entry whose age it changes.          *)
Tick ==
  /\ now < MaxNow /\ dedup_n > 0
  /\ now' = now + 1
  /\ UNCHANGED <<storeVars, busVars, uart_rx, dedup, dedup_n, reboot_due, reqs, awaited,
                 sends, losses, histVars>>

(* Everything in RAM starts again.                                         *)
Restart ==
  /\ Load /\ BusReset
  /\ uart_rx' = <<>> /\ dedup' = [id \in {} |-> NoId] /\ dedup_n' = 0
  /\ reboot_due' = FALSE
  /\ boots' = boots + 1
  /\ UNCHANGED <<now, reqs, awaited, sends, runs, answers>>

Reboot == reboot_due /\ Restart /\ UNCHANGED losses

PowerLoss == losses < MaxPowerLoss /\ losses' = losses + 1 /\ Restart

Connection ==
  /\ CreateClient \/ Open \/ Conack \/ LinkDown \/ DisconnectOrError
  /\ UNCHANGED <<storeVars, uart_rx, dedup, dedup_n, reboot_due, worldVars, histVars>>

-----------------------------------------------------------------------------

Init ==
  /\ \E stored \in Stored : StoreInit(stored)
  /\ BusInit
  /\ uart_rx = <<>> /\ dedup = [id \in {} |-> NoId] /\ dedup_n = 0
  /\ reboot_due = FALSE
  /\ now = 0 /\ reqs = <<>> /\ awaited = [link \in Link |-> 0] /\ sends = 0 /\ losses = 0
  /\ boots = 1 /\ runs = <<>> /\ answers = {}

Masters ==
  \/ \E q \in Kinds : Request(q)
  \/ \E link \in Link : SendAgain(link)

Next == Masters \/ ServeUart \/ ServeMqtt \/ Connection \/ Tick \/ Reboot \/ PowerLoss

Spec == Init /\ [][Next]_vars

-----------------------------------------------------------------------------
(* Properties                                                              *)

TypeOK ==
  /\ StoreTypeOK /\ BusTypeOK
  /\ DOMAIN dedup \subseteq UartIds \cup MqttIds
  /\ \A id \in DOMAIN dedup : dedup[id].method \in Method /\ dedup[id].at \in 0..now
  /\ dedup_n = Cardinality(DOMAIN dedup) /\ dedup_n <= DEDUP_CAP
  /\ reboot_due \in BOOLEAN
  /\ \A link \in Link : awaited[link] \in 0..Len(reqs)
  /\ \A i \in DOMAIN runs : runs[i].req \in DOMAIN reqs

(* Within the window of its last execution a request is not executed again *)
(* by the same boot, unless the table was full of requests that were       *)
(* executed no earlier (mgmt.lua:629-656; air780epm/README.md:431-433).    *)
OnceInWindow ==
  \A i, j \in DOMAIN runs :
    /\ i < j
    /\ runs[i].req = runs[j].req /\ runs[i].boot = runs[j].boot
    /\ reqs[runs[i].req].id # NoId
    /\ runs[j].at - runs[i].at < DEDUP_WINDOW
    => Cardinality({k \in 1..(j - 1) : k # i /\ runs[k].boot = runs[i].boot
                                      /\ runs[k].at >= runs[i].at}) >= DEDUP_CAP

(* The answer a master takes for its request was made for that request,    *)
(* and for no earlier one with the same id nor for the other master's: a   *)
(* new id is always executed (docs/air780epm/MGMT_RPC.md:66).              *)
AnsweredByOwn == \A a \in answers : a[1] = a[2]

(* A reboot command whose answer was lost and that is sent again within    *)
(* the window reboots the module once (docs/air780epm/MGMT_RPC.md:64-65).  *)
RebootOnce ==
  \A i, j \in DOMAIN runs :
    /\ i < j
    /\ runs[i].req = runs[j].req
    /\ reqs[runs[i].req].method = "reboot" /\ reqs[runs[i].req].id # NoId
    => runs[j].at - runs[i].at >= DEDUP_WINDOW
=============================================================================
