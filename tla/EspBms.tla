--------------------------------- MODULE EspBms ---------------------------------
(***************************************************************************)
(* How the esp32 firmware gets the battery's data and hands them to the    *)
(* vehicle: the driver main.c installs, over RS485 (jk_bms.c, here) or BLE *)
(* (EspBle), and the Modbus slave that answers the vehicle from the        *)
(* driver's snapshot (jinjian_bms.c, modbus_rtu.c).                        *)
(*                                                                         *)
(* On the battery's bus two tasks take turns under s_bus_mutex: the polling*)
(* task and whoever serves an RPC call.  Modbus has no transaction number: *)
(* an answer is known by its length alone, and one that comes too late     *)
(* reaches whoever listens then.  A battery answers in order, and what it  *)
(* has not answered by the end of the next request it never answers.       *)
(*                                                                         *)
(* On the vehicle's bus a frame comes in two halves.  A frame cut short, or*)
(* the half that process_rx leaves of one, stays in the buffer as junk     *)
(* before the next.  Of the registers the charge time is kept, which the   *)
(* vehicle writes and the driver reads from the battery; the target SOC    *)
(* that only the vehicle writes, and the fast-charging state that every    *)
(* round sets anew, are answered like a reading.                           *)
(***************************************************************************)
EXTENDS EspBle

CONSTANTS
  RpcCounts,   (* how many registers an RPC call reads                     *)
  Refresh,     (* polls between two readings of the configuration (20)     *)
  RxCap,       (* s_rx_buf, in halves of a frame (128)                     *)
  MaxAsks,     (* bound: requests of the vehicle, for each transport       *)
  MaxRpcs      (* bound: RPC calls                                         *)

RoundBlocks == <<"cells", "cell_stats", "stats">>
InfoBlocks == <<"info", "cell_count", "capacity", "time">>
Blocks == Range(RoundBlocks) \cup Range(InfoBlocks)
Count == [cells |-> 32, cell_stats |-> 4, stats |-> 58, info |-> 20,
          cell_count |-> 2, capacity |-> 2, time |-> 1]
Acknowledged == 0       (* in place of a count: the answer to a write       *)
NoAnswer == [count |-> -1, by |-> "none", late |-> FALSE]

Own == {"time", "other"}             (* requests to this slave              *)
Requests == Own \cup {"foreign"}     (* and to another one on the bus       *)

ASSUME BmsAssumption ==
  /\ RpcCounts \subseteq 1 .. 64
  /\ Refresh \in Nat \ {0} /\ MaxRpcs \in Nat
  /\ MaxAsks \in [{"uart", "ble"} -> Nat]
  /\ RxCap \in Nat \ {0, 1}

VARIABLES
  transport,       (* the driver that was installed                        *)
  bus,             (* s_bus_mutex: free, jk or rpc                         *)
  owed,            (* external: the answers the battery has still to give  *)
  jk,              (* where the polling task is, what its round has so far *)
  s_poll_count,    (* modulo Refresh                                       *)
  s_charge_time_overridden, writes, raced,
  rpcs,
  told,            (* history: by whom the late answers were asked for     *)
                   (* that callers of the RPC were given for theirs        *)
  rx,              (* s_rx_buf: junk, halves of a frame, whose frame       *)
  wire,            (* external: halves still to come, and their request    *)
  ask,             (* external: the vehicle's unanswered request           *)
  asks

callVars == <<rpcs, told>>
busVars == <<bus, owed, callVars>>
pollVars == <<jk, s_poll_count>>
timeVars == <<s_charge_time_overridden, writes, raced>>
vehicleVars == <<rx, wire, ask, asks>>
vars == <<transport, busVars, pollVars, timeVars, vehicleVars,
          bleVars, s_snapshot, faults>>

Silence == [halves |-> 0, whole |-> TRUE, of |-> "foreign"]
Empty == [junk |-> 0, halves |-> 0, of |-> "foreign"]

Init ==
  /\ transport \in {"uart", "ble"}
  /\ bus = "free" /\ owed = <<>> /\ rpcs = 0 /\ told = {}
  /\ jk = [at |-> IF transport = "uart" THEN "info" ELSE "none",
           ok |-> {}, mixed |-> {}, back |-> "cells"]
  /\ s_poll_count = 0 /\ s_charge_time_overridden = FALSE
  /\ writes = FALSE /\ raced = FALSE
  /\ rx = Empty /\ wire = Silence /\ ask = "none" /\ asks = 0
  /\ s_snapshot = NoData /\ faults = 0 /\ InitBle

-----------------------------------------------------------------------------
(* The battery's bus                                                       *)

(* A transaction begins: what has arrived is flushed, the request is sent. *)
(* Of the answers of earlier ones only the last may still come.            *)
Begins(task, count) ==
  /\ bus = "free" /\ bus' = task
  /\ owed' = (IF owed = <<>> THEN <<>> ELSE <<[Last(owed) EXCEPT !.late = TRUE]>>)
                \o <<[count |-> count, by |-> task, late |-> FALSE]>>

(* Mutated form: whatever has a good checksum is taken for the answer.     *)
AcceptsAny(answer, count) == TRUE

(* The slave address and function code are every answer's; the length is   *)
(* all that tells one from another.                                        *)
Accepts(answer, count) == answer.count = count

(* It ends, with a negative count when no answer came in time: that may    *)
(* still come, or it is lost, and so may be the request that came while    *)
(* the battery was still answering the one before.                         *)
Ends(task, answer) ==
  /\ bus = task /\ bus' = "free"
  /\ \/ answer # NoAnswer /\ owed' = Tail(owed) /\ UNCHANGED faults
     \/ answer # NoAnswer /\ Len(owed) = 2 /\ owed' = <<>> /\ Fails
     \/ Fails /\ answer = NoAnswer /\ owed' \in {owed, <<>>}

Answer ==
  [count : {Acknowledged} \cup Range(Count) \cup RpcCounts, by : {"jk", "rpc"},
   late : BOOLEAN]
Outcomes == {NoAnswer} \cup {owed[i] : i \in DOMAIN owed \cap {1}}

(* Whose answer it is that comes late and is taken all the same.           *)
Mixed(answer, count) ==
  {who \in {"jk", "rpc"} : answer.late /\ Accepts(answer, count) /\ answer.by = who}

(* jk_bms_uart_read_regs, jk_bms_uart_write_regs; what they return goes to *)
(* the caller of the RPC.                                                  *)
RpcBegins ==
  /\ transport = "uart" /\ rpcs < MaxRpcs /\ rpcs' = rpcs + 1 /\ UNCHANGED told
  /\ \E count \in RpcCounts \cup {Acknowledged} : Begins("rpc", count)
  /\ UNCHANGED <<transport, pollVars, timeVars, vehicleVars, bleVars>>
  /\ Keeps

RpcEnds ==
  /\ \E answer \in Outcomes :
       Ends("rpc", answer) /\ told' = told \cup Mixed(answer, Last(owed).count)
  /\ UNCHANGED <<transport, rpcs, pollVars, timeVars, vehicleVars, bleVars, s_snapshot>>

-----------------------------------------------------------------------------
(* The polling task                                                        *)

(* Where the task goes from a block.  refresh_info follows every           *)
(* Refresh-th round before its data are applied.                           *)
After(block, polls) ==
  CASE block = "cells" -> "cell_stats"
    [] block = "cell_stats" -> "stats"
    [] block = "stats" -> IF polls = 0 THEN "info" ELSE "apply"
    [] block = "info" -> "cell_count"
    [] block = "cell_count" -> "capacity"
    [] block = "capacity" -> "check"

others == <<transport, callVars, timeVars, vehicleVars, bleVars>>

(* jk_read_regs, its request and its end.  A block that is not read leaves *)
(* its round incomplete; only the charge time goes into the snapshot.      *)
JkBegins ==
  /\ jk.at \in Blocks /\ Begins("jk", Count[jk.at])
  /\ UNCHANGED <<others, pollVars>> /\ Keeps

JkEnds ==
  \E answer \in Outcomes :
    LET good == Accepts(answer, Count[jk.at])
        round == jk.at \in Range(RoundBlocks)
        polls == IF jk.at = "stats" THEN (s_poll_count + 1) % Refresh ELSE s_poll_count
    IN /\ Ends("jk", answer)
       /\ s_poll_count' = polls
       /\ jk' = [jk EXCEPT
                   !.at = IF jk.at = "time" THEN jk.back ELSE After(jk.at, polls),
                   !.ok = IF good /\ round THEN @ \cup {jk.at} ELSE @,
                   !.mixed = IF round THEN @ \cup Mixed(answer, Count[jk.at]) ELSE @,
                   !.back = IF jk.at = "stats" THEN "apply" ELSE @]
       /\ s_snapshot' = IF jk.at = "time" /\ good
                          THEN [s_snapshot EXCEPT !.time = "battery"] ELSE s_snapshot
       /\ UNCHANGED others

(* Mutated form: the battery's charge time is always read again.           *)
ChecksNothing ==
  /\ jk.at = "check" /\ jk' = [jk EXCEPT !.at = "time"]
  /\ UNCHANGED <<others, bus, owed, s_poll_count>> /\ Keeps

(* The battery's charge time is read unless the vehicle has written one.   *)
Checks ==
  /\ jk.at = "check"
  /\ jk' = [jk EXCEPT !.at = IF s_charge_time_overridden THEN jk.back ELSE "time"]
  /\ UNCHANGED <<others, bus, owed, s_poll_count>> /\ Keeps

Complete == jk.ok = Range(RoundBlocks)

(* apply_stats after a complete round; otherwise the data count as stale.  *)
Applies ==
  /\ jk.at = "apply"
  /\ jk' = [jk EXCEPT !.at = "sleep", !.ok = {}, !.mixed = {}]
  /\ \/ /\ Complete
        /\ s_snapshot' = [s_snapshot EXCEPT !.fresh = TRUE, !.mixed = jk.mixed]
     \/ ~Complete /\ s_snapshot' = [s_snapshot EXCEPT !.fresh = FALSE]
  /\ UNCHANGED <<others, bus, owed, s_poll_count, faults>>

(* The pause between two rounds is longer than an answer can be late.      *)
Wakes ==
  /\ jk.at = "sleep" /\ jk' = [jk EXCEPT !.at = "cells"]
  /\ owed' = IF bus = "free" THEN <<>> ELSE owed
  /\ UNCHANGED <<others, bus, s_poll_count>> /\ Keeps

jk_task == JkBegins \/ JkEnds \/ Checks \/ Applies \/ Wakes

-----------------------------------------------------------------------------
(* The vehicle                                                             *)

rest == <<transport, busVars, pollVars, bleVars>>

(* The vehicle asks this slave or another one, and asks again when it gets *)
(* no answer: what it sends may be cut, and may be garbled so that the     *)
(* UART reports an error and the buffer is cleared.                        *)
Sends(request) ==
  /\ wire.halves = 0
  /\ \/ wire' = [halves |-> 2, whole |-> TRUE, of |-> request] /\ UNCHANGED faults
     \/ Fails /\ wire' = [halves |-> 1, whole |-> FALSE, of |-> request]

VehicleAsks ==
  /\ ask = "none" /\ MaxAsks[transport] > 0
  /\ \/ \E request \in Own :
           /\ asks < MaxAsks[transport] /\ asks' = asks + 1
           /\ ask' = request /\ Sends(request)
     \/ /\ wire.halves = 0 /\ wire' = [halves |-> 2, whole |-> TRUE, of |-> "foreign"]
        /\ UNCHANGED <<ask, asks, faults>>
  /\ UNCHANGED <<rest, timeVars, rx, s_snapshot>>

VehicleRepeats ==
  /\ ask # "none" /\ rx.halves # 2 /\ ~writes /\ Sends(ask)
  /\ UNCHANGED <<rest, timeVars, rx, ask, asks, s_snapshot>>

(* UART_DATA: one half or both are read into the buffer, which is emptied  *)
(* when they do not fit.  Only a half that follows its own makes a frame.  *)
Receives ==
  /\ wire.halves > 0 /\ rx.halves # 2 /\ ~writes
  /\ \E n \in 1 .. wire.halves :
       LET first == wire.halves = 2 \/ ~wire.whole
           kept == IF rx.junk + rx.halves + n > RxCap THEN Empty ELSE rx
       IN /\ wire' = IF wire.halves = n THEN Silence ELSE [wire EXCEPT !.halves = @ - n]
          /\ rx' = CASE first -> [junk |-> kept.junk + kept.halves, halves |-> n, of |-> wire.of]
                     [] ~first /\ kept.halves = 1 -> [kept EXCEPT !.halves = 2]
                     [] OTHER -> [kept EXCEPT !.junk = @ + 1]
  /\ UNCHANGED <<rest, timeVars, ask, asks>> /\ Keeps

(* FRAME_ERR, PARITY_ERR, FIFO_OVF, BUFFER_FULL.                           *)
UartError ==
  /\ wire.halves > 0 /\ rx.halves # 2 /\ ~writes /\ Fails
  /\ rx' = Empty /\ wire' = Silence
  /\ UNCHANGED <<rest, timeVars, ask, asks, s_snapshot>>

(* Mutated form: the frame is taken out only after looking whose it is.    *)
TakesOwnOnly ==
  IF rx.of = "foreign" THEN rx
  ELSE IF rx.junk >= 2 THEN [rx EXCEPT !.junk = @ - 2]
  ELSE [Empty EXCEPT !.junk = rx.junk]

(* modbus_scan_request returns the frame's length and not where it ends,   *)
(* so as much is taken from the front: with junk before it the frame, or   *)
(* its second half, stays.                                                 *)
Takes ==
  IF rx.junk >= 2 THEN [rx EXCEPT !.junk = @ - 2]
  ELSE [Empty EXCEPT !.junk = rx.junk]

(* One turn of process_rx with handle_request.                             *)
Handles ==
  /\ rx.halves = 2 /\ ~writes /\ rx' = Takes
  /\ ask' = IF rx.of = ask /\ rx.of # "time" THEN "none" ELSE ask
  /\ writes' = (rx.of = "time")
  /\ s_snapshot' =
       IF rx.of = "time" THEN [s_snapshot EXCEPT !.time = "vehicle"] ELSE s_snapshot
  /\ UNCHANGED <<rest, s_charge_time_overridden, raced, wire, asks, faults>>

(* jk_bms_uart_set_charge_time_min sets its flag after the value, without  *)
(* the mutex.  raced: a reading of the battery's time had then got past    *)
(* the flag, before or after writing.                                      *)
Overrides ==
  /\ writes /\ writes' = FALSE
  /\ s_charge_time_overridden' = (transport = "uart" \/ s_charge_time_overridden)
  /\ raced' = (raced \/ jk.at = "time" \/ s_snapshot.time # "vehicle")
  /\ ask' = IF ask = "time" THEN "none" ELSE ask
  /\ UNCHANGED <<rest, rx, wire, asks>> /\ Keeps

jinjian_task == Receives \/ Handles \/ Overrides

-----------------------------------------------------------------------------
Ble ==
  /\ transport = "ble" /\ NextBle
  /\ UNCHANGED <<transport, busVars, pollVars, timeVars, vehicleVars>>

Next ==
  \/ RpcBegins \/ RpcEnds \/ jk_task
  \/ VehicleAsks \/ VehicleRepeats \/ UartError \/ jinjian_task
  \/ Ble

(* The tasks run, the stack does what it is asked, and a transaction ends  *)
(* at the latest when its time is over: RPC calls are bounded, so the      *)
(* polling task is not kept from the bus.  The vehicle repeats what is not *)
(* answered.  A battery in reach is heard at last by a scan that is started*)
(* again and again, and an interval that is looked at again and again is   *)
(* at last found over.                                                     *)
Spec ==
  /\ Init /\ [][Next]_vars
  /\ WF_vars(jk_task \/ RpcEnds \/ (Ble /\ jk_ble_task))
  /\ WF_vars(jinjian_task \/ VehicleRepeats)
  /\ WF_vars(Ble /\ (StackWorks \/ WebAsks))
  /\ SF_vars(Ble /\ Advertises) /\ SF_vars(Ble /\ (Rescans \/ Polls))

-----------------------------------------------------------------------------
(* Properties                                                              *)

(* Every variable has its type; the vehicle's buffer is never overrun      *)
(* (jinjian_bms.c:273-279).                                                *)
TypeOK ==
  /\ transport \in {"uart", "ble"} /\ bus \in {"free", "jk", "rpc"}
  /\ Len(owed) <= 2 /\ Range(owed) \subseteq Answer
  /\ jk.at \in Blocks \cup {"none", "check", "apply", "sleep"} /\ jk.ok \subseteq Range(RoundBlocks)
  /\ s_poll_count \in 0 .. Refresh - 1
  /\ rpcs \in 0 .. MaxRpcs /\ told \subseteq {"jk", "rpc"}
  /\ {s_charge_time_overridden, writes, raced} \subseteq BOOLEAN
  /\ rx.junk \in Nat /\ rx.halves \in 0 .. 2 /\ rx.junk + rx.halves <= RxCap
  /\ wire.halves \in 0 .. 2 /\ ask \in {"none"} \cup Own /\ asks \in 0 .. MaxAsks[transport]
  /\ s_snapshot \in Snapshots /\ faults \in 0 .. MaxFaults
  /\ TypeOKBle

(* Of the data that count as fresh none is the late answer to another of   *)
(* the polling task's own requests, although answers are known by their    *)
(* length only and RPC calls of any length come between: the three blocks  *)
(* of a round follow the configuration and each other in an order in which *)
(* what is still owed is never as long (jk_bms.c:20-30, 156-158, 404-420). *)
(* A call's late answer may be: RoundIsOwn.                                *)
BlocksKeepApart == s_snapshot.fresh => "jk" \notin s_snapshot.mixed

(* What jk_bms.c:68 says, that the polling task and RPC exclude each other *)
(* on the bus, so that fresh means a round that was read                   *)
(* (bms_interface.h:11).  A call that reads as many registers as a block   *)
(* and is answered late has its answer taken for the block.                *)
RoundIsOwn == s_snapshot.fresh => s_snapshot.mixed = {}

(* What jk_bms.h:31-32 says: 0 is returned for a read that succeeded.  Not *)
(* if the polling task's late answer of that length came instead.          *)
CallIsOwn == told = {}

(* A charge time the vehicle has written is not read over by the battery's *)
(* unless that reading was under way when it was written                   *)
(* (jk_bms.c:235-241, 508-514).                                            *)
WrittenIsKept ==
  s_charge_time_overridden /\ ~raced => s_snapshot.time = "vehicle"

(* Every request of the vehicle is answered, whatever cut frames, other    *)
(* slaves' frames and UART errors came before it (jinjian_bms.c:232-257).  *)
RequestAnswered == ask # "none" ~> ask = "none"

(* The battery's own data become fresh again after every failure, over     *)
(* either transport: after lost and late answers, refused and broken       *)
(* connections, and scans of the web page, which end (jk_bms.c:400-453,    *)
(* jk_bms_ble.c:479-740).  Excepted are, over BLE, a page's scan that has  *)
(* crossed the driver's for good (ScanIsOver), and a link that was not set *)
(* up to the end and that the battery does not drop.                       *)
Recovers ==
  \/ <>[]Crossed
  \/ /\ []<>~s_web_scan_active
     /\ \/ []<>(s_snapshot.fresh /\ s_snapshot.mixed = {})
        \/ <>[](link = "stuck")

(* What esp32/README.md:189 says, that the page's scan takes five seconds, *)
(* and jk_bms_ble.h:31, that it is apart from the normal connection.  Not  *)
(* if the stack was about to start the driver's own.                       *)
ScanIsOver == s_web_scan_active ~> ~s_web_scan_active
=============================================================================
