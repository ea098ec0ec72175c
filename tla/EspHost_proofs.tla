----------------------------- MODULE EspHost_proofs -----------------------------
(***************************************************************************)
(* What holds of the esp32 power manager, its stations and the log stream  *)
(* for every idle time, buffer and number of events: the types, that the   *)
(* services are switched together, and who has the mutex of the log lines. *)
(***************************************************************************)
EXTENDS EspHost, SequenceTheorems, TLAPS

(* The conjuncts of TypeOK one by one, and that what send() took never     *)
(* exceeds what there is.                                                  *)
Flags ==
  /\ has_client \in BOOLEAN /\ ahead \in BOOLEAN /\ s_wake_pending \in BOOLEAN
  /\ station \in BOOLEAN /\ wifi \in BOOLEAN /\ s_server \in BOOLEAN /\ lit \in BOOLEAN
  /\ suspended \in BOOLEAN /\ knock \in BOOLEAN /\ pressed \in BOOLEAN

Counters ==
  /\ quiet \in 0..IDLE_TIMEOUT /\ held \in 0..FACTORY_RESET_HOLD
  /\ tx_len \in 0..LOG_STREAM_TX_CAP /\ n \in 0..LOG_STREAM_TX_CAP
  /\ lt = "trim" => n <= tx_len

Places ==
  /\ pm \in PmPoints /\ lt \in LtPoints
  /\ mutex \in {"free", "log"} /\ conn \in {"none", "waiting", "open"}
  /\ ready \in [listen : BOOLEAN, read : BOOLEAN, write : BOOLEAN]

(* The events that wait tell in turn of a station that comes and one that  *)
(* goes, from what is counted to what is.  One more fits for each station  *)
(* that is there.                                                          *)
StationInv ==
  /\ s_sta_count \in 0..1
  /\ events \in Seq({"up", "down"}) /\ Len(events) <= EventCap
  /\ station => Len(events) < EventCap
  /\ \A i \in 1..Len(events) - 1 : events[i] # events[i + 1]
  /\ Len(events) > 0 => /\ events[1] = "up" <=> s_sta_count = 0
                        /\ events[Len(events)] = "up" <=> station
  /\ Len(events) = 0 => (station <=> s_sta_count = 1)

(* What has been switched by the point the power manager is at.            *)
ServiceInv ==
  /\ pm \in {"look", "judge", "idleSays", "ledOff", "wakeSays", "resume"} => AllOn \/ AllOff
  /\ pm \in {"suspend", "webStop", "wifiStop"} => ~lit
  /\ pm \in {"webStop", "wifiStop"} => suspended
  /\ pm = "wifiStop" => ~s_server
  /\ pm \in {"wifiSays", "idle"} => AllOff
  /\ pm \in {"ledOn", "apStart", "apSays", "webStart"} => ~suspended
  /\ pm \in {"apStart", "apSays", "webStart"} => lit
  /\ pm \in {"apSays", "webStart"} => wifi
  /\ pm = "webSays" => AllOn

(* The mutex is the log task's exactly inside its three sections; while it *)
(* is suspended there, the power manager has not passed its next line.     *)
LockInv ==
  /\ mutex = "log" <=> lt \in {"collecting", "accepting", "scanning"}
  /\ HolderSuspended => pm \in {"webStop", "wifiStop", "wifiSays"}

HostInv == Flags /\ Counters /\ Places /\ StationInv /\ ServiceInv /\ LockInv

-----------------------------------------------------------------------------
(* The points of both sequences, one by one.                               *)
LEMMA PmPointsAre ==
  PmPoints = {"look", "idleSays", "ledOff", "suspend", "webStop", "wifiStop", "wifiSays",
              "idle", "wakeSays", "resume", "ledOn", "apStart", "apSays", "webStart",
              "webSays", "judge"}
BY DEF PmPoints, Shutdown, Wakeup

(* HostInv has all that TypeOK says.                                       *)
LEMMA HostInvTypes == HostInv => TypeOK
BY DEF HostInv, Flags, Counters, Places, StationInv, TypeOK

(* A line leaves the mutex free and the buffer within its bounds, and does *)
(* not take away what send() took.                                         *)
LEMMA LogsKeep ==
  ASSUME Counters, Logs
  PROVE  tx_len' \in 0..LOG_STREAM_TX_CAP /\ tx_len' >= tx_len
BY HostAssumption DEF Counters, Logs

(* The device starts with everything on and nobody there.                  *)
LEMMA HostInvInit == ASSUME Init PROVE HostInv
<1>1. Flags /\ LockInv
  BY DEF Init, Flags, LockInv, HolderSuspended
<1>2. Counters
  BY HostAssumption DEF Init, Counters
<1>3. Places
  BY PmPointsAre DEF Init, Places, LtPoints, Idle
<1>4. StationInv
  BY HostAssumption DEF Init, StationInv
<1>5. ServiceInv
  BY DEF Init, ServiceInv, AllOn
<1> QED BY <1>1, <1>2, <1>3, <1>4, <1>5 DEF HostInv

-----------------------------------------------------------------------------
(* The kinds of steps, for the case distinctions below.                    *)
LEMMA Steps ==
  [Next]_vars <=>
    \/ Look \/ Judge \/ Says \/ LedPowerSave \/ LogStream \/ Http
    \/ WifiStop \/ start_softap \/ IdleEnds
    \/ Collect \/ Select \/ AcceptConnection \/ Scan \/ HandleRead \/ HandleWrite \/ Trim
    \/ Press \/ Hold \/ FactoryReset \/ Release
    \/ SomeoneLogs \/ StationMoves \/ HandleEvent \/ Knock
    \/ UNCHANGED vars
BY DEF Next, PowerManager, LogTask, Button

(* The mutex changes hands only where the log task enters and leaves.      *)
LEMMA LockStep ==
  ASSUME HostInv, [Next]_vars
  PROVE  LockInv'
<1> USE DEF HolderSuspended
<1>1. CASE Look \/ Judge
  BY <1>1 DEF HostInv, LockInv, Look, Judge, At, streamVars
<1>2. CASE Says \/ LedPowerSave \/ Http \/ WifiStop \/ start_softap \/ IdleEnds
  BY <1>2 DEF HostInv, LockInv, Says, LedPowerSave, Http, WifiStop,
        start_softap, IdleEnds, At, Logs, streamVars
<1>3. CASE LogStream
  BY <1>3 DEF HostInv, LockInv, Places, LogStream, At, streamVars
<1>4. CASE Collect \/ AcceptConnection \/ Scan
  BY <1>4 DEF HostInv, LockInv, Places, Collect, AcceptConnection, Scan, Goes,
        Takes, Gives, others, pmVars
<1>5. CASE Select \/ HandleRead \/ HandleWrite \/ Trim
  BY <1>5 DEF HostInv, LockInv, Select, HandleRead, HandleWrite, Trim, Goes,
        others, pmVars
<1>6. CASE Press \/ Hold \/ Release
  BY <1>6 DEF HostInv, LockInv, Press, Hold, Release, pmVars, streamVars
<1>7. CASE FactoryReset
  BY <1>7 DEF LockInv, FactoryReset
<1>8. CASE SomeoneLogs \/ StationMoves \/ HandleEvent \/ Knock
  BY <1>8 DEF HostInv, LockInv, SomeoneLogs, StationMoves, HandleEvent, Knock,
        pmVars, streamVars, others
<1>9. CASE UNCHANGED vars
  BY <1>9 DEF HostInv, LockInv, vars, pmVars, streamVars
<1> QED BY <1>1, <1>2, <1>3, <1>4, <1>5, <1>6, <1>7, <1>8, <1>9, Steps

(* Each switch leaves what was switched before it.                         *)
LEMMA ServiceStep ==
  ASSUME HostInv, [Next]_vars
  PROVE  ServiceInv'
<1>1. CASE Look \/ Judge
  BY <1>1 DEF HostInv, ServiceInv, Look, Judge, At, AllOn, AllOff, wifiVars
<1>2. CASE Says
  BY <1>2 DEF HostInv, ServiceInv, Says, At, AllOn, AllOff, wifiVars
<1>3. CASE LedPowerSave
  BY <1>3 DEF HostInv, ServiceInv, LedPowerSave, At, AllOn, AllOff, wifiVars
<1>4. CASE LogStream
  BY <1>4 DEF HostInv, ServiceInv, LogStream, At, AllOn, AllOff, wifiVars
<1>5. CASE Http
  BY <1>5 DEF HostInv, ServiceInv, Http, At, AllOn, AllOff, wifiVars
<1>6. CASE WifiStop
  BY <1>6 DEF HostInv, ServiceInv, WifiStop, At, AllOn, AllOff
<1>7. CASE start_softap \/ IdleEnds
  BY <1>7 DEF HostInv, ServiceInv, start_softap, IdleEnds, At, AllOn, AllOff,
        wifiVars
<1>8. CASE Collect \/ Select \/ AcceptConnection \/ Scan \/ HandleRead \/ HandleWrite \/ Trim
  BY <1>8 DEF HostInv, ServiceInv, AllOn, AllOff, Collect, Select,
        AcceptConnection, Scan, HandleRead, HandleWrite, Trim, others, pmVars,
        wifiVars
<1>9. CASE Press \/ Hold \/ Release
  BY <1>9 DEF HostInv, ServiceInv, AllOn, AllOff, Press, Hold, Release,
        pmVars, wifiVars
<1>10. CASE FactoryReset
  BY <1>10 DEF ServiceInv, AllOn, FactoryReset
<1>11. CASE SomeoneLogs \/ StationMoves \/ HandleEvent \/ Knock
  BY <1>11 DEF HostInv, ServiceInv, AllOn, AllOff, SomeoneLogs, StationMoves,
        HandleEvent, Knock, pmVars, wifiVars, others
<1>12. CASE UNCHANGED vars
  BY <1>12 DEF HostInv, ServiceInv, AllOn, AllOff, vars, pmVars, wifiVars
<1> QED BY <1>1, <1>2, <1>3, <1>4, <1>5, <1>6, <1>7, <1>8, <1>9, <1>10, <1>11, <1>12, Steps

(* Flags stay flags.                                                       *)
LEMMA FlagsStep ==
  ASSUME HostInv, [Next]_vars
  PROVE  Flags'
<1>1. CASE Look
  <2>1. has_client' \in BOOLEAN
    BY <1>1 DEF HostInv, StationInv, Look
  <2> QED BY <1>1, <2>1 DEF HostInv, Flags, Look, wifiVars, streamVars, buttonVars
<1>2. CASE Judge
  BY <1>2 DEF HostInv, Flags, Judge, wifiVars, streamVars, buttonVars
<1>3. CASE Says \/ LedPowerSave \/ LogStream
  BY <1>3 DEF HostInv, Flags, Says, LedPowerSave, LogStream, pmVars, wifiVars,
        streamVars, buttonVars
<1>4. CASE Http \/ WifiStop \/ start_softap \/ IdleEnds
  BY <1>4 DEF HostInv, Flags, Http, WifiStop, start_softap, IdleEnds,
        wifiVars, streamVars, buttonVars
<1>5. CASE AcceptConnection
  BY <1>5 DEF HostInv, Flags, AcceptConnection, others, pmVars, wifiVars,
        buttonVars
<1>6. CASE Collect \/ Select \/ Scan \/ HandleRead \/ HandleWrite \/ Trim
  BY <1>6 DEF HostInv, Flags, Collect, Select, Scan, HandleRead, HandleWrite,
        Trim, others, pmVars, wifiVars, buttonVars
<1>7. CASE Press \/ Hold \/ Release
  BY <1>7 DEF HostInv, Flags, Press, Hold, Release, pmVars, wifiVars,
        streamVars
<1>8. CASE FactoryReset
  BY <1>8 DEF Flags, FactoryReset
<1>9. CASE SomeoneLogs \/ StationMoves \/ Knock
  BY <1>9 DEF HostInv, Flags, SomeoneLogs, StationMoves, Knock, pmVars,
        wifiVars, streamVars, buttonVars, others
<1>10. CASE HandleEvent
  <2> DEFINE waking == pm \in {Wakeup[i] : i \in DOMAIN Wakeup}
  <2>1. waking = TRUE \/ waking = FALSE
    OBVIOUS
  <2>2. ahead' = waking \/ ahead' = ahead
    BY <1>10 DEF HandleEvent
  <2> HIDE DEF waking
  <2>3. ahead' \in BOOLEAN
    BY <2>1, <2>2 DEF HostInv, Flags
  <2> QED BY <1>10, <2>3 DEF HostInv, Flags, HandleEvent, pmVars, streamVars, buttonVars
<1>11. CASE UNCHANGED vars
  BY <1>11 DEF HostInv, Flags, vars, pmVars, wifiVars, streamVars, buttonVars
<1> QED BY <1>1, <1>2, <1>3, <1>4, <1>5, <1>6, <1>7, <1>8, <1>9, <1>10, <1>11, Steps

(* Nothing reported is a report.                                           *)
LEMMA IdleIsReady == Idle \in [listen : BOOLEAN, read : BOOLEAN, write : BOOLEAN]
BY DEF Idle

(* Each task goes on to a point there is.                                  *)
LEMMA PlacesStep ==
  ASSUME HostInv, [Next]_vars
  PROVE  Places'
<1>1. CASE Look \/ Judge
  BY <1>1, PmPointsAre DEF HostInv, Places, Look, Judge, At, streamVars
<1>2. CASE Says \/ LedPowerSave \/ LogStream
  BY <1>2, PmPointsAre DEF HostInv, Places, Says, LedPowerSave, LogStream, At,
        streamVars
<1>3. CASE Http \/ WifiStop \/ start_softap \/ IdleEnds
  BY <1>3, PmPointsAre DEF HostInv, Places, Http, WifiStop, start_softap,
        IdleEnds, At, streamVars
<1>4. CASE Collect
  BY <1>4 DEF HostInv, Places, Flags, LtPoints, Collect, Goes, Takes, Gives,
        Idle, others, pmVars
<1>5. CASE AcceptConnection
  <2> USE <1>5 DEF HostInv, Places
  <2>1. pm' \in PmPoints /\ mutex' \in {"free", "log"} /\ conn' \in {"none", "waiting", "open"}
    BY DEF AcceptConnection, Takes, Gives, others, pmVars
  <2>2. lt' \in LtPoints
    BY DEF AcceptConnection, Goes, LtPoints
  <2>3. ready' \in [listen : BOOLEAN, read : BOOLEAN, write : BOOLEAN]
    BY IdleIsReady DEF AcceptConnection
  <2> QED BY <2>1, <2>2, <2>3
<1>6. CASE Scan
  BY <1>6 DEF HostInv, Places, Flags, LtPoints, Scan, Goes, Takes, Gives,
        Idle, others, pmVars
<1>7. CASE Select
  BY <1>7 DEF HostInv, Places, Flags, LtPoints, Select, Goes, Takes, Gives,
        Idle, others, pmVars
<1>8. CASE HandleRead
  BY <1>8 DEF HostInv, Places, Flags, LtPoints, HandleRead, Goes, Takes,
        Gives, Idle, others, pmVars
<1>9. CASE HandleWrite
  <2> USE <1>9 DEF HostInv, Places
  <2>1. pm' \in PmPoints /\ mutex' \in {"free", "log"} /\ conn' \in {"none", "waiting", "open"}
    BY DEF HandleWrite, others, pmVars
  <2>2. lt' \in LtPoints
    BY DEF HandleWrite, LtPoints
  <2>3. ready' \in [listen : BOOLEAN, read : BOOLEAN, write : BOOLEAN]
    BY IdleIsReady DEF HandleWrite
  <2> QED BY <2>1, <2>2, <2>3
<1>10. CASE Trim
  <2> USE <1>10 DEF HostInv, Places
  <2>1. pm' \in PmPoints /\ mutex' \in {"free", "log"} /\ conn' \in {"none", "waiting", "open"}
    BY DEF Trim, others, pmVars
  <2>2. lt' \in LtPoints
    BY DEF Trim, Goes, LtPoints
  <2>3. ready' \in [listen : BOOLEAN, read : BOOLEAN, write : BOOLEAN]
    BY IdleIsReady DEF Trim
  <2> QED BY <2>1, <2>2, <2>3
<1>11. CASE Press \/ Hold \/ Release
  BY <1>11 DEF HostInv, Places, Press, Hold, Release, pmVars, streamVars
<1>12. CASE FactoryReset
  BY <1>12, PmPointsAre DEF Places, LtPoints, Idle, FactoryReset
<1>13. CASE SomeoneLogs \/ StationMoves \/ HandleEvent \/ Knock
  BY <1>13 DEF HostInv, Places, SomeoneLogs, StationMoves, HandleEvent, Knock,
        pmVars, streamVars, others
<1>14. CASE UNCHANGED vars
  BY <1>14 DEF HostInv, Places, vars, pmVars, streamVars
<1> QED BY <1>1, <1>2, <1>3, <1>4, <1>5, <1>6, <1>7, <1>8, <1>9, <1>10, <1>11, <1>12, <1>13, <1>14, Steps

(* What send() took is there when it is cut off: the other tasks' lines    *)
(* only add to it.                                                         *)
LEMMA CountersStep ==
  ASSUME HostInv, [Next]_vars
  PROVE  Counters'
<1>1. CASE Look \/ Judge \/ LedPowerSave \/ LogStream
  BY <1>1, HostAssumption DEF HostInv, Counters, Look, Judge, Later,
        LedPowerSave, LogStream, streamVars, buttonVars
<1>2. CASE Http \/ WifiStop \/ start_softap \/ IdleEnds
  BY <1>2, HostAssumption DEF HostInv, Counters, Http, WifiStop, start_softap,
        IdleEnds, Later, streamVars, buttonVars
<1>3. CASE Says
  BY <1>3, LogsKeep DEF HostInv, Counters, Says, buttonVars
<1>4. CASE Press
  BY <1>4, LogsKeep, HostAssumption DEF HostInv, Counters, Press, pmVars
<1>5. CASE SomeoneLogs
  BY <1>5, LogsKeep DEF HostInv, Counters, SomeoneLogs, pmVars, buttonVars
<1>6. CASE Hold \/ Release
  BY <1>6, HostAssumption DEF HostInv, Counters, Hold, Release, pmVars,
        streamVars
<1>7. CASE FactoryReset
  BY <1>7, HostAssumption DEF Counters, FactoryReset
<1>8. CASE StationMoves \/ HandleEvent \/ Knock
  BY <1>8, HostAssumption DEF HostInv, Counters, StationMoves, HandleEvent,
        Knock, pmVars, streamVars, buttonVars, others
<1>9. CASE AcceptConnection
  BY <1>9, LogsKeep, HostAssumption DEF HostInv, Counters, AcceptConnection,
        Goes, others, pmVars, buttonVars
<1>10. CASE Collect \/ Select \/ Scan
  BY <1>10, HostAssumption DEF HostInv, Counters, Collect, Select, Scan, Goes,
        others, pmVars, buttonVars
<1>11. CASE HandleRead
  BY <1>11, HostAssumption DEF HostInv, Counters, HandleRead, Goes, others,
        pmVars, buttonVars
<1>12. CASE HandleWrite
  BY <1>12, HostAssumption DEF HostInv, Counters, HandleWrite, others, pmVars,
        buttonVars
<1>13. CASE Trim
  BY <1>13, HostAssumption DEF HostInv, Counters, Trim, Goes, others, pmVars,
        buttonVars
<1>14. CASE UNCHANGED vars
  BY <1>14 DEF HostInv, Counters, vars, pmVars, streamVars, buttonVars
<1> QED BY <1>1, <1>2, <1>3, <1>4, <1>5, <1>6, <1>7, <1>8, <1>9, <1>10, <1>11, <1>12, <1>13, <1>14, Steps

(* Posting the event that ends, or begins, what is.                        *)
LEMMA Posted ==
  ASSUME Flags, StationInv, Len(events) < EventCap,
         s_sta_count' = s_sta_count, station' = ~station,
         ~station => Len(events) + 1 < EventCap,
         events' = Append(events, IF station THEN "down" ELSE "up")
  PROVE  StationInv'
<1> USE HostAssumption DEF Flags, StationInv
<1> DEFINE e == IF station THEN "down" ELSE "up"
<1>0. EventCap \in Nat
  OBVIOUS
<1>1. /\ events' \in Seq({"up", "down"}) /\ Len(events') = Len(events) + 1 /\ Len(events) \in Nat
      /\ \A i \in 1..Len(events) : events'[i] = events[i]
      /\ events'[Len(events) + 1] = e /\ e \in {"up", "down"}
  OBVIOUS
<1>2. Len(events') <= EventCap /\ (station' => Len(events') < EventCap)
  <2>1. CASE station
    <3>1. ~station'
      BY <2>1
    <3> QED BY <1>0, <1>1, <3>1
  <2>2. CASE ~station
    BY <1>0, <1>1, <2>2
  <2> QED BY <2>1, <2>2
<1>3. Len(events) > 0 => events[Len(events)] # e
  OBVIOUS
<1>4. ASSUME NEW i \in 1..Len(events') - 1 PROVE events'[i] # events'[i + 1]
  <2>1. CASE i = Len(events)
    BY <1>1, <1>3, <1>4, <2>1
  <2>2. CASE i # Len(events)
    BY <1>1, <1>4, <2>2
  <2> QED BY <2>1, <2>2
<1>5. events'[1] = "up" <=> s_sta_count' = 0
  <2>1. CASE Len(events) = 0
    BY <1>1, <2>1
  <2>2. CASE Len(events) > 0
    BY <1>1, <1>3, <2>2
  <2> QED BY <2>1, <2>2
<1>6. Len(events') > 0 /\ (events'[Len(events')] = "up" <=> station')
  <2>1. events'[Len(events')] = e /\ Len(events') > 0
    BY <1>1
  <2>2. CASE station
    BY <2>1, <2>2
  <2>3. CASE ~station
    BY <2>1, <2>3
  <2> QED BY <2>1, <2>2, <2>3
<1> QED BY <1>1, <1>2, <1>4, <1>5, <1>6

(* Handling the first.                                                     *)
LEMMA Handled ==
  ASSUME Flags, StationInv, HandleEvent
  PROVE  StationInv'
<1> USE HostAssumption DEF Flags, StationInv, HandleEvent
<1>0. Len(events) \in Nat /\ Len(events) > 0
  BY EmptySeq, LenProperties
<1>1. events' \in Seq({"up", "down"}) /\ Len(events') = Len(events) - 1 /\ Len(events) \in Nat
       /\ \A i \in 1..Len(events') : events'[i] = events[i + 1]
       /\ Head(events) = events[1] /\ events[1] \in {"up", "down"}
  BY <1>0
<1>2. s_sta_count' \in 0..1 /\ (s_sta_count' = 1 <=> events[1] = "up") /\ station' = station
  BY <1>0, <1>1
<1>3. \A i \in 1..Len(events') - 1 : events'[i] # events'[i + 1]
  BY <1>1
<1>4. Len(events') > 0 => (events'[1] = "up" <=> s_sta_count' = 0)
  BY <1>1, <1>2
<1>5. Len(events') > 0 => (events'[Len(events')] = "up" <=> station')
  BY <1>0, <1>1, <1>2
<1>6. Len(events') = 0 => (station' <=> s_sta_count' = 1)
  <2> HAVE Len(events') = 0
  <2>1. station <=> events[1] = "up"
    BY <1>0, <1>1
  <2> QED BY <1>2, <2>1
<1> QED BY <1>1, <1>2, <1>3, <1>4, <1>5, <1>6

(* Events are posted at one end and handled at the other; each tells of    *)
(* the opposite of the one before it.                                      *)
LEMMA StationStep ==
  ASSUME HostInv, [Next]_vars
  PROVE  StationInv'
<1>1. CASE Look \/ Judge \/ Says \/ LedPowerSave \/ LogStream \/ Http \/ start_softap \/ IdleEnds
  BY <1>1 DEF HostInv, StationInv, Look, Judge, Says, LedPowerSave, LogStream,
        Http, start_softap, IdleEnds, wifiVars
<1>2. CASE Collect \/ Select \/ AcceptConnection \/ Scan \/ HandleRead \/ HandleWrite \/ Trim
  BY <1>2 DEF HostInv, StationInv, Collect, Select, AcceptConnection, Scan,
        HandleRead, HandleWrite, Trim, others, wifiVars
<1>3. CASE Press \/ Hold \/ Release
  BY <1>3 DEF HostInv, StationInv, Press, Hold, Release, wifiVars
<1>4. CASE FactoryReset
  BY <1>4, HostAssumption DEF StationInv, FactoryReset
<1>5. CASE SomeoneLogs \/ Knock
  BY <1>5 DEF HostInv, StationInv, SomeoneLogs, Knock, others, wifiVars
<1>6. CASE StationMoves
  <2>1. Len(events) \in Nat /\ EventCap \in Nat
    BY HostAssumption DEF HostInv, StationInv
  <2> QED BY <1>6, <2>1, Posted DEF HostInv, Flags, StationInv, StationMoves
<1>7. CASE WifiStop
  BY <1>7, Posted DEF HostInv, Flags, StationInv, WifiStop
<1>8. CASE HandleEvent
  BY <1>8, Handled DEF HostInv, HandleEvent
<1>9. CASE UNCHANGED vars
  BY <1>9 DEF HostInv, StationInv, vars, wifiVars
<1> QED BY <1>1, <1>2, <1>3, <1>4, <1>5, <1>6, <1>7, <1>8, <1>9, Steps

-----------------------------------------------------------------------------
(* HostInv is inductive.                                                   *)
LEMMA HostInvariant == Spec => []HostInv
<1>1. Init => HostInv
  BY HostInvInit
<1>2. HostInv /\ [Next]_vars => HostInv'
  BY LockStep, ServiceStep, FlagsStep, PlacesStep, CountersStep, StationStep DEF HostInv
<1> QED BY <1>1, <1>2, PTL DEF Spec

(* Types hold for every buffer and number of events, and handle_write never*)
(* moves a negative number of bytes (log_stream.c:242-248).                *)
THEOREM HostTypeCorrect == Spec => []TypeOK
BY HostInvariant, HostInvTypes, PTL

(* Between two decisions of the power manager everything is on or          *)
(* everything off (power_mgr.c:39-41, 49-52).                              *)
THEOREM ServicesAreTogether == Spec => []ServicesTogether
<1>1. HostInv => ServicesTogether
  BY DEF HostInv, ServiceInv, ServicesTogether
<1> QED BY <1>1, HostInvariant, PTL

(* Once the log task is suspended with the mutex of the log lines, it is   *)
(* for good: the power manager does not get past its own line that comes   *)
(* before the resume, and no other task gives the mutex back               *)
(* (log_stream.c:421, power_mgr.c:35-52).                                  *)
THEOREM SuspendedHolderIsStuck ==
  Spec => /\ [](HolderSuspended => pm \in {"webStop", "wifiStop", "wifiSays"})
          /\ [][HolderSuspended => HolderSuspended']_vars
<1>1. HostInv => (HolderSuspended => pm \in {"webStop", "wifiStop", "wifiSays"})
  BY DEF HostInv, LockInv
<1>2. HostInv /\ [Next]_vars => [HolderSuspended => HolderSuspended']_vars
  <2> SUFFICES ASSUME HostInv, Next, HolderSuspended PROVE HolderSuspended'
    OBVIOUS
  <2>1. suspended /\ mutex = "log" /\ pm \in {"webStop", "wifiStop", "wifiSays"}
    BY DEF HostInv, LockInv, HolderSuspended
  <2>2. CASE Look \/ Judge \/ Says \/ LedPowerSave \/ LogStream \/ Http \/ WifiStop
             \/ start_softap \/ IdleEnds
    BY <2>1, <2>2 DEF HolderSuspended, Look, Judge, Says, LedPowerSave, LogStream, Http,
        WifiStop, start_softap, IdleEnds, At, Logs
  <2>3. CASE Collect \/ Select \/ AcceptConnection \/ Scan \/ HandleRead \/ HandleWrite \/ Trim
    BY <2>1, <2>3 DEF Collect, Select, AcceptConnection, Scan, HandleRead, HandleWrite, Trim, Goes
  <2>4. CASE SomeoneLogs \/ StationMoves \/ HandleEvent \/ Knock \/ Press \/ Hold
             \/ FactoryReset \/ Release
    BY <2>1, <2>4 DEF HolderSuspended, SomeoneLogs, StationMoves, HandleEvent, Knock, Press,
        Hold, FactoryReset, Release, Logs, others
  <2> QED BY <2>2, <2>3, <2>4 DEF Next, PowerManager, LogTask, Button
<1> QED BY <1>1, <1>2, HostInvariant, PTL DEF Spec
=============================================================================
