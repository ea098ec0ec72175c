-------------------------------- MODULE EspHost --------------------------------
(***************************************************************************)
(* What the esp32 firmware keeps up while somebody looks at it, and takes  *)
(* down when nobody does: the power manager (power_mgr.c), the BOOT button *)
(* (factory_reset.c), the access point and the HTTP server                 *)
(* (web_server.c), and the log stream (log_stream.c), whose mutex every    *)
(* task takes that writes a log line.                                      *)
(*                                                                         *)
(* The tasks run on two cores, so each statement that another task can see *)
(* is a step of its own.  A log line is one step, possible only while the  *)
(* mutex is free.  Time is counted in polls of the power manager.          *)
(*                                                                         *)
(* LOG_STREAM_MAX is 1, and accept_connection closes every connection      *)
(* before it looks for a slot, so its answer 503 cannot be reached and the *)
(* connections are one.  Of the transmit buffer only the length is kept.   *)
(***************************************************************************)
EXTENDS Integers, Sequences

CONSTANTS
  IDLE_TIMEOUT,       (* CONFIG_JINJIAN_IDLE_TIMEOUT_MS, in polls          *)
  FACTORY_RESET_HOLD, (* CONFIG_JINJIAN_FACTORY_RESET_HOLD_MS, in polls of *)
                      (* the button                                        *)
  LOG_STREAM_TX_CAP,  (* the transmit buffer, in lines                     *)
  EventCap            (* bound: WiFi events not yet handled                *)

ASSUME HostAssumption ==
  {IDLE_TIMEOUT, FACTORY_RESET_HOLD, LOG_STREAM_TX_CAP, EventCap} \subseteq Nat \ {0}

VARIABLES
  pm,               (* where the power manager is                          *)
  has_client,       (* its local variable                                  *)
  quiet,            (* now - s_last_activity_ms, at most IDLE_TIMEOUT      *)
  ahead,            (* s_last_activity_ms was written after now was read   *)
  s_wake_pending,
  s_sta_count,
  events,           (* WiFi events posted and not yet handled              *)
  station,          (* external: a phone is associated                     *)
  wifi, s_server, lit, suspended,
  mutex,            (* "free", or "log": the log task is inside            *)
  lt,               (* where the log task is                               *)
  conn,             (* none, waiting (no request yet) or open              *)
  ready,            (* what select said: [listen, read, write]             *)
  tx_len, n,        (* lines to send, lines the last send() took           *)
  knock,            (* external: a client asks for a connection            *)
  pressed, held     (* the button as the task last saw it, how long        *)

pmVars == <<pm, has_client, quiet, ahead>>
wifiVars == <<s_sta_count, events, station, wifi>>
streamVars == <<lt, conn, ready, tx_len, n, knock>>
buttonVars == <<pressed, held>>
vars == <<pmVars, s_wake_pending, wifiVars, s_server, lit, suspended, mutex,
          streamVars, buttonVars>>

Idle == [listen |-> FALSE, read |-> FALSE, write |-> FALSE]
Shutdown == <<"idleSays", "ledOff", "suspend", "webStop", "wifiStop", "wifiSays", "idle">>
Wakeup == <<"wakeSays", "resume", "ledOn", "apStart", "apSays", "webStart", "webSays", "judge">>
PmPoints == {"look"} \cup {Shutdown[i] : i \in DOMAIN Shutdown}
                     \cup {Wakeup[i] : i \in DOMAIN Wakeup}
LtPoints == {"collect", "collecting", "select", "accept", "accepting", "acceptSays",
             "scan", "scanning", "read", "write", "trim", "store"}

AllOn == wifi /\ s_server /\ lit /\ ~suspended
AllOff == ~wifi /\ ~s_server /\ ~lit /\ suspended

Init ==
  /\ pm = "look" /\ has_client = FALSE /\ quiet = 0 /\ ahead = FALSE
  /\ s_wake_pending = FALSE
  /\ s_sta_count = 0 /\ events = <<>> /\ station = FALSE
  /\ wifi = TRUE /\ s_server = TRUE /\ lit = TRUE /\ suspended = FALSE
  /\ mutex = "free" /\ lt = "collect" /\ conn = "none" /\ ready = Idle
  /\ tx_len = 0 /\ n = 0 /\ knock = FALSE
  /\ pressed = FALSE /\ held = 0

-----------------------------------------------------------------------------
(* Logging                                                                 *)

(* Mutated form: a line is kept without looking for room.                  *)
LogsUnbounded ==
  /\ mutex = "free"
  /\ tx_len' = IF conn = "open" THEN tx_len + 1 ELSE tx_len

(* log_stream_emit: the mutex is taken and given, and a line waits for the *)
(* client if one is there that has had its headers, and there is room.     *)
Logs ==
  /\ mutex = "free"
  /\ tx_len' = IF conn = "open" /\ tx_len < LOG_STREAM_TX_CAP THEN tx_len + 1 ELSE tx_len

(* Any other task writes a line.                                           *)
SomeoneLogs ==
  /\ Logs /\ conn = "open"
  /\ UNCHANGED <<pmVars, s_wake_pending, wifiVars, s_server, lit, suspended, mutex,
                 lt, conn, ready, n, knock, buttonVars>>

-----------------------------------------------------------------------------
(* The power manager                                                       *)

At(from, to) == pm = from /\ pm' = to

(* The top of the loop: who is there, what time it is, whether to wake.    *)
Look ==
  /\ At("look", IF s_wake_pending THEN "wakeSays" ELSE "judge")
  /\ s_wake_pending' = FALSE
  /\ has_client' = (s_sta_count > 0)
  /\ ahead' = FALSE
  /\ quiet' = IF s_wake_pending THEN 0 ELSE quiet
  /\ UNCHANGED <<wifiVars, s_server, lit, suspended, mutex, streamVars, buttonVars>>

(* The time since the last activity after one more poll.                   *)
Later == IF quiet < IDLE_TIMEOUT THEN quiet + 1 ELSE quiet

(* Time to go down?  now - s_last_activity_ms is unsigned: an activity     *)
(* that is newer than now makes it larger than any time-out.               *)
Judge ==
  LET down == ~has_client /\ (ahead \/ quiet >= IDLE_TIMEOUT)
  IN  /\ At("judge", IF down THEN "idleSays" ELSE "look")
      /\ quiet' = IF down THEN quiet ELSE IF has_client THEN 1 ELSE Later
      /\ ahead' = FALSE
      /\ UNCHANGED <<has_client, s_wake_pending, wifiVars, s_server, lit, suspended,
                     mutex, streamVars, buttonVars>>

(* Each of these writes a log line and goes on.                            *)
Says ==
  /\ \/ At("wakeSays", "resume")
     \/ At("idleSays", "ledOff")
     \/ At("apSays", "webStart")
     \/ At("webSays", "judge")
     \/ At("wifiSays", "idle")
  /\ Logs
  /\ UNCHANGED <<has_client, quiet, ahead, s_wake_pending, wifiVars, s_server, lit,
                 suspended, mutex, lt, conn, ready, n, knock, buttonVars>>

LedPowerSave ==
  /\ \/ At("ledOff", "suspend") /\ lit' = FALSE
     \/ At("ledOn", "apStart") /\ lit' = TRUE
  /\ UNCHANGED <<has_client, quiet, ahead, s_wake_pending, wifiVars, s_server, suspended,
                 mutex, streamVars, buttonVars>>

(* Mutated form: the stream is left suspended.                             *)
LogStreamForgotten ==
  /\ \/ At("suspend", "webStop") /\ suspended' = TRUE
     \/ At("resume", "ledOn") /\ UNCHANGED suspended
  /\ UNCHANGED <<has_client, quiet, ahead, s_wake_pending, wifiVars, s_server, lit,
                 mutex, streamVars, buttonVars>>

(* log_stream_suspend, wherever the task is, inside its mutex as well, and *)
(* log_stream_resume.                                                      *)
LogStream ==
  /\ \/ At("suspend", "webStop") /\ suspended' = TRUE
     \/ At("resume", "ledOn") /\ suspended' = FALSE
  /\ UNCHANGED <<has_client, quiet, ahead, s_wake_pending, wifiVars, s_server, lit,
                 mutex, streamVars, buttonVars>>

(* web_server_stop and web_server_start's httpd_start, which fails when    *)
(* the server is running and leaves s_server as it is.                     *)
Http ==
  /\ \/ At("webStop", "wifiStop") /\ s_server' = FALSE
     \/ At("webStart", "webSays") /\ s_server' = TRUE
  /\ UNCHANGED <<has_client, quiet, ahead, s_wake_pending, wifiVars, lit, suspended,
                 mutex, streamVars, buttonVars>>

(* The radio; stopping it disassociates the stations.                      *)
WifiStop ==
  /\ At("wifiStop", "wifiSays")
  /\ wifi' = FALSE /\ station' = FALSE
  /\ events' = IF station THEN Append(events, "down") ELSE events
  /\ quiet' = 0 /\ ahead' = FALSE
  /\ UNCHANGED <<has_client, s_wake_pending, s_sta_count, s_server, lit, suspended,
                 mutex, streamVars, buttonVars>>

start_softap ==
  /\ At("apStart", "apSays")
  /\ wifi' = TRUE
  /\ UNCHANGED <<has_client, quiet, ahead, s_wake_pending, s_sta_count, events, station,
                 s_server, lit, suspended, mutex, streamVars, buttonVars>>

(* Mutated form: the request that ends the idle time is taken there.       *)
IdleEndsTaking ==
  /\ At("idle", "look")
  /\ s_wake_pending \/ s_sta_count > 0
  /\ quiet' = Later
  /\ s_wake_pending' = FALSE
  /\ UNCHANGED <<has_client, ahead, wifiVars, s_server, lit, suspended,
                 mutex, streamVars, buttonVars>>

(* The wait of the idle time ends.                                         *)
IdleEnds ==
  /\ At("idle", "look")
  /\ s_wake_pending \/ s_sta_count > 0
  /\ quiet' = Later
  /\ UNCHANGED <<has_client, ahead, s_wake_pending, wifiVars, s_server, lit, suspended,
                 mutex, streamVars, buttonVars>>

PowerManager ==
  \/ Look \/ Judge \/ Says \/ LedPowerSave \/ LogStream \/ Http
  \/ WifiStop \/ start_softap \/ IdleEnds

-----------------------------------------------------------------------------
(* Stations and the button                                                 *)

(* A phone comes, or goes.                                                 *)
StationMoves ==
  /\ Len(events) + 1 < EventCap
  /\ wifi
  /\ station' = ~station
  /\ events' = Append(events, IF station THEN "down" ELSE "up")
  /\ UNCHANGED <<pmVars, s_wake_pending, s_sta_count, wifi, s_server, lit, suspended,
                 mutex, streamVars, buttonVars>>

(* wifi_event_handler, and power_mgr_notify_wifi_client with it.           *)
HandleEvent ==
  /\ events # <<>>
  /\ events' = Tail(events)
  /\ s_sta_count' = IF Head(events) = "up" THEN s_sta_count + 1
                    ELSE IF s_sta_count > 0 THEN s_sta_count - 1 ELSE 0
  /\ IF Head(events) = "up" \/ s_sta_count' > 0
     THEN quiet' = 0 /\ ahead' = (pm \in {Wakeup[i] : i \in DOMAIN Wakeup})
     ELSE UNCHANGED <<quiet, ahead>>
  /\ UNCHANGED <<pm, has_client, s_wake_pending, station, wifi, s_server, lit, suspended,
                 mutex, streamVars, buttonVars>>

Press ==
  /\ ~pressed /\ pressed' = TRUE /\ held' = 1
  /\ Logs
  /\ UNCHANGED <<pmVars, s_wake_pending, wifiVars, s_server, lit, suspended, mutex,
                 lt, conn, ready, n, knock>>

(* Still down after another poll.                                          *)
Hold ==
  /\ pressed /\ held + 1 < FACTORY_RESET_HOLD /\ held' = held + 1
  /\ UNCHANGED <<pmVars, s_wake_pending, wifiVars, s_server, lit, suspended, mutex,
                 streamVars, pressed>>

(* Held long enough: the settings are erased and the device starts anew.   *)
FactoryReset ==
  /\ pressed /\ held + 1 >= FACTORY_RESET_HOLD /\ mutex = "free"
  /\ pm' = "look" /\ has_client' = FALSE /\ quiet' = 0 /\ ahead' = FALSE
  /\ s_wake_pending' = FALSE
  /\ s_sta_count' = 0 /\ events' = <<>> /\ station' = FALSE
  /\ wifi' = TRUE /\ s_server' = TRUE /\ lit' = TRUE /\ suspended' = FALSE
  /\ mutex' = "free" /\ lt' = "collect" /\ conn' = "none" /\ ready' = Idle
  /\ tx_len' = 0 /\ n' = 0 /\ knock' = FALSE
  /\ pressed' = FALSE /\ held' = 0

(* Released before: power_mgr_request_wake.                                *)
Release ==
  /\ pressed /\ pressed' = FALSE /\ held' = 0
  /\ s_wake_pending' = TRUE
  /\ UNCHANGED <<pmVars, wifiVars, s_server, lit, suspended, mutex, streamVars>>

-----------------------------------------------------------------------------
(* The log stream's task                                                   *)

others == <<pmVars, s_wake_pending, wifiVars, s_server, lit, suspended, buttonVars>>

Goes(from, to) == ~suspended /\ lt = from /\ lt' = to
Takes == mutex = "free" /\ mutex' = "log"
Gives == mutex' = "free"

(* A client asks for a connection.                                         *)
Knock ==
  /\ station /\ ~knock /\ knock' = TRUE
  /\ UNCHANGED <<others, mutex, lt, conn, ready, tx_len, n>>

(* The descriptors are collected under the mutex.                          *)
Collect ==
  /\ \/ Goes("collect", "collecting") /\ Takes
     \/ Goes("collecting", "select") /\ Gives
  /\ UNCHANGED <<others, conn, ready, tx_len, n, knock>>

(* select() with its time-out.  A connection with its headers is asked     *)
(* for in both sets, but read from only before it has them.                *)
Select ==
  /\ Goes("select", IF knock THEN "accept" ELSE "scan")
  /\ \E r \in BOOLEAN, w \in BOOLEAN :
       ready' = [listen |-> knock, read |-> r /\ conn = "waiting",
                 write |-> w /\ conn = "open"]
  /\ UNCHANGED <<others, mutex, conn, tx_len, n, knock>>

(* accept_connection: the older connection is closed, under the mutex.     *)
(* The new descriptor is not in the sets select() filled.                  *)
AcceptConnection ==
  /\ \/ /\ Goes("accept", "accepting") /\ Takes
        /\ knock' = FALSE
        /\ UNCHANGED <<conn, ready, tx_len>>
     \/ /\ Goes("accepting", "acceptSays") /\ Gives
        /\ conn' = "waiting" /\ tx_len' = 0 /\ ready' = Idle
        /\ UNCHANGED knock
     \/ /\ Goes("acceptSays", "scan") /\ Logs
        /\ UNCHANGED <<mutex, conn, ready, knock>>
  /\ UNCHANGED <<others, n>>

(* Mutated form: the mutex is not given back when there is no connection.  *)
ScanKeeping ==
  /\ \/ Goes("scan", "scanning") /\ Takes
     \/ /\ Goes("scanning", IF ready.read /\ conn = "waiting" THEN "read"
                            ELSE IF ready.write /\ conn = "open" THEN "write" ELSE "collect")
        /\ IF conn = "none" THEN UNCHANGED mutex ELSE Gives
  /\ UNCHANGED <<others, conn, ready, tx_len, n, knock>>

(* The loop over the connections: the mutex is given back for a read and   *)
(* for a write.                                                            *)
Scan ==
  /\ \/ Goes("scan", "scanning") /\ Takes
     \/ /\ Goes("scanning", IF ready.read /\ conn = "waiting" THEN "read"
                            ELSE IF ready.write /\ conn = "open" THEN "write" ELSE "collect")
        /\ Gives
  /\ UNCHANGED <<others, conn, ready, tx_len, n, knock>>

(* handle_read: a part of the request; the whole, which is answered with   *)
(* the headers; or the end of the connection (closed by the client, too    *)
(* long, or an OPTIONS request).                                           *)
HandleRead ==
  /\ Goes("read", "scan") /\ ready' = Idle
  /\ \/ UNCHANGED <<conn, tx_len>>
     \/ mutex = "free" /\ conn' = "open" /\ tx_len' = 1
     \/ mutex = "free" /\ conn' = "none" /\ tx_len' = 0
  /\ UNCHANGED <<others, mutex, n, knock>>

(* handle_write up to send(), without the mutex: nothing to send and no    *)
(* keep-alive due, or the socket is full; some of it sent; or an error.    *)
HandleWrite ==
  LET len == IF tx_len = 0 THEN 1 ELSE tx_len
  IN  /\ lt = "write" /\ ~suspended
      /\ \/ lt' = "scan" /\ ready' = Idle /\ UNCHANGED <<conn, tx_len, n>>
         \/ /\ lt' = "trim" /\ tx_len' = len
            /\ n' \in 1..len
            /\ UNCHANGED <<conn, ready>>
         \/ /\ lt' = "scan" /\ mutex = "free" /\ conn' = "none" /\ tx_len' = 0
            /\ ready' = Idle /\ UNCHANGED n
      /\ UNCHANGED <<others, mutex, knock>>

(* handle_write after send(), still without the mutex: what another task   *)
(* appends between the two steps is lost.                                  *)
Trim ==
  /\ \/ /\ Goes("trim", "store")
        /\ n' = IF n >= tx_len THEN 0 ELSE tx_len - n
        /\ UNCHANGED <<tx_len, ready>>
     \/ Goes("store", "scan") /\ tx_len' = n /\ n' = 0 /\ ready' = Idle
  /\ UNCHANGED <<others, mutex, conn, knock>>

LogTask ==
  \/ Collect \/ Select \/ AcceptConnection \/ Scan \/ HandleRead \/ HandleWrite \/ Trim

-----------------------------------------------------------------------------
Button == Press \/ Hold \/ FactoryReset \/ Release

Next ==
  \/ PowerManager \/ LogTask \/ Button
  \/ SomeoneLogs \/ StationMoves \/ HandleEvent \/ Knock

(* Tasks that are ready run.  A task that waits for the mutex gets it if   *)
(* it is given back again and again: the log task blocks in select()       *)
(* between two rounds.  Nobody has to press the button or to associate.    *)
Spec ==
  /\ Init /\ [][Next]_vars
  /\ SF_vars(PowerManager) /\ SF_vars(LogTask) /\ WF_vars(HandleEvent)

-----------------------------------------------------------------------------
(* Properties                                                              *)

(* Every variable has its type, and handle_write never moves a negative    *)
(* number of bytes: what send() took is there when it is cut off, whatever *)
(* was logged in between (log_stream.c:242-248).                           *)
TypeOK ==
  /\ pm \in PmPoints /\ has_client \in BOOLEAN
  /\ quiet \in 0..IDLE_TIMEOUT /\ ahead \in BOOLEAN
  /\ s_wake_pending \in BOOLEAN
  /\ s_sta_count \in 0..1 /\ events \in Seq({"up", "down"}) /\ Len(events) <= EventCap
  /\ {station, wifi, s_server, lit, suspended, knock, pressed} \subseteq BOOLEAN
  /\ mutex \in {"free", "log"} /\ lt \in LtPoints
  /\ conn \in {"none", "waiting", "open"} /\ ready \in [listen : BOOLEAN, read : BOOLEAN, write : BOOLEAN]
  /\ {tx_len, n} \subseteq 0..LOG_STREAM_TX_CAP
  /\ lt = "trim" => n <= tx_len
  /\ held \in 0..FACTORY_RESET_HOLD

(* Between two decisions of the power manager the LED, the stream, the     *)
(* server and the radio are all on or all off, whatever wake-ups and       *)
(* stations came while they were switched (power_mgr.c:39-41, 49-52).      *)
ServicesTogether == pm \in {"look", "judge", "idle"} => AllOn \/ AllOff

(* The log task was suspended while it had the mutex (log_stream.c:421):   *)
(* nobody can write a line any more.                                       *)
HolderSuspended == suspended /\ mutex = "log"

(* A short press on the button wakes the device, at whatever point of      *)
(* going down it comes, unless the log task is suspended inside its mutex  *)
(* (factory_reset.c:56, power_mgr.c:56-60).                                *)
WakeServedUnlessStuck == s_wake_pending ~> AllOn \/ HolderSuspended

(* The mutex that every log line takes does not stay taken, whatever the   *)
(* connections do and however they break off: only a suspension of the log *)
(* task inside it keeps it (log_stream.c:339-388).                         *)
LoggingGoesOn == []<>(mutex = "free" \/ HolderSuspended)

(* What esp32/README.md:174 and factory_reset.c:56 say: a short press      *)
(* wakes the device.  The suspension of the log task inside its mutex      *)
(* breaks it, since the power manager's own line comes before the resume.  *)
WakeServed == s_wake_pending ~> AllOn
=============================================================================
