--------------------------------- MODULE EspBle ---------------------------------
(***************************************************************************)
(* The BLE driver of the esp32 firmware (jk_bms_ble.c): a task that every  *)
(* 100 ms looks whether to scan, to stop scanning or to ask the battery;   *)
(* the callbacks of the BLE stack, which find the battery, connect, look   *)
(* up its characteristic and take its frames; and the scan the web page    *)
(* starts from the HTTP server's task.                                     *)
(*                                                                         *)
(* The flags they share have no lock.  What the three ask of the stack     *)
(* waits in a queue, and each callback comes when the stack gets to it.    *)
(* Times are not kept: an interval may be over whenever it is looked at.   *)
(* A frame is its beginning and its end; a cell-information frame is the   *)
(* only kind that is asked for.                                            *)
(***************************************************************************)
EXTENDS Integers, Sequences, SequencesExt

CONSTANTS
  GapCap,      (* bound: commands waiting for the stack                    *)
  MaxScans,    (* bound: scans of the web page                             *)
  MaxFaults    (* bound: failures, of this driver and of the other one     *)

ASSUME BleAssumption ==
  /\ GapCap \in Nat \ {0} /\ {MaxScans, MaxFaults} \subseteq Nat

VARIABLES
  s_gattc_if,         (* registered                                        *)
  s_scanning, s_target_found, s_connected, s_notify_enabled,
  s_web_scan_active,
  s_frame,            (* "empty", or "begun": less than a frame is there   *)
  gap,                (* external: commands waiting for the stack          *)
  radio,              (* external: off, plain (no end) or timed            *)
  link,               (* external: how far the connection is               *)
  asked,              (* the battery owes a frame: no, yes, or its end     *)
  ble_at, web_at,     (* where the driver's and the page's task are        *)
  scans,
  s_snapshot,         (* the active driver's                               *)
  faults

flagVars == <<s_gattc_if, s_scanning, s_target_found, s_connected,
              s_notify_enabled, s_web_scan_active>>
stackVars == <<gap, radio, link>>
bleVars == <<flagVars, stackVars, s_frame, asked, ble_at, web_at, scans>>

Links == {"none", "opening", "open", "found", "on", "stuck"}

(* time: where the charge time comes from, the one value that both the     *)
(* vehicle and a driver write for good.                                    *)
(* mixed (history): by whom the late answers were asked for that are among *)
(* the data.                                                               *)
Snapshots ==
  [fresh : BOOLEAN, mixed : SUBSET {"jk", "rpc"},
   time : {"default", "battery", "vehicle"}]
NoData == [fresh |-> FALSE, mixed |-> {}, time |-> "default"]

Fails == faults < MaxFaults /\ faults' = faults + 1
Keeps == UNCHANGED <<s_snapshot, faults>>

InitBle ==
  /\ s_gattc_if = FALSE /\ s_scanning = FALSE /\ s_target_found = FALSE
  /\ s_connected = FALSE /\ s_notify_enabled = FALSE /\ s_web_scan_active = FALSE
  /\ s_frame = "empty" /\ gap = <<>> /\ radio = "off" /\ link = "none"
  /\ asked = "no" /\ ble_at = "top" /\ web_at = "idle" /\ scans = 0

-----------------------------------------------------------------------------
(* Scanning                                                                *)

(* start_scan on the queue q.                                              *)
start_scan(q) ==
  IF s_scanning \/ s_target_found \/ s_web_scan_active THEN q ELSE Append(q, "params")

(* ESP_GATTC_REG_EVT.                                                      *)
Registered ==
  /\ ~s_gattc_if /\ s_gattc_if' = TRUE /\ gap' = start_scan(gap)
  /\ Len(gap) < GapCap
  /\ UNCHANGED <<s_scanning, s_target_found, s_connected, s_notify_enabled,
                 s_web_scan_active, radio, link, s_frame, asked, ble_at, web_at, scans>>
  /\ Keeps

Done == gap' = Tail(gap)
NextIs(commands) == gap # <<>> /\ Head(gap) \in commands

(* SCAN_PARAM_SET_COMPLETE: the scan of the page ends by itself.           *)
ParamSet ==
  /\ NextIs({"params"})
  /\ gap' = Append(Tail(gap), IF s_web_scan_active THEN "timed" ELSE "plain")
  /\ UNCHANGED <<flagVars, radio, link, s_frame, asked, ble_at, web_at, scans>>
  /\ Keeps

(* SCAN_START_COMPLETE: the stack refuses to start a scan twice.           *)
ScanStarts ==
  /\ NextIs({"plain", "timed"}) /\ Done
  /\ \/ radio = "off" /\ radio' = Head(gap) /\ s_scanning' = TRUE
     \/ radio # "off" /\ UNCHANGED <<radio, s_scanning>>
  /\ UNCHANGED <<s_gattc_if, s_target_found, s_connected, s_notify_enabled,
                 s_web_scan_active, link, s_frame, asked, ble_at, web_at, scans>>
  /\ Keeps

(* SCAN_STOP_COMPLETE, and INQ_CMPL of a scan that ended by itself.        *)
Over == radio' = "off" /\ s_scanning' = FALSE /\ s_web_scan_active' = FALSE

ScanEnds ==
  /\ \/ NextIs({"stop"}) /\ Done
     \/ radio = "timed" /\ UNCHANGED gap
  /\ Over
  /\ UNCHANGED <<s_gattc_if, s_target_found, s_connected, s_notify_enabled,
                 link, s_frame, asked, ble_at, web_at, scans>>
  /\ Keeps

(* INQ_RES of the battery the configuration names: during the page's scan  *)
(* it is only listed.                                                      *)
Advertises ==
  /\ radio # "off" /\ ~s_web_scan_active /\ ~s_target_found
  /\ Len(gap) < GapCap
  /\ s_target_found' = TRUE /\ gap' = Append(gap, "stop")
  /\ link' = IF s_gattc_if THEN "opening" ELSE link
  /\ UNCHANGED <<s_gattc_if, s_scanning, s_connected, s_notify_enabled,
                 s_web_scan_active, radio, s_frame, asked, ble_at, web_at, scans>>
  /\ Keeps

-----------------------------------------------------------------------------
(* The connection                                                          *)

(* ESP_GATTC_OPEN_EVT.                                                     *)
Opens ==
  /\ link = "opening"
  /\ \/ /\ link' = "open" /\ s_connected' = TRUE
        /\ UNCHANGED <<s_target_found, faults>>
     \/ /\ Fails
        /\ link' = "none" /\ s_connected' = FALSE /\ s_target_found' = FALSE
  /\ UNCHANGED <<s_gattc_if, s_scanning, s_notify_enabled, s_web_scan_active,
                 gap, radio, s_frame, asked, ble_at, web_at, scans, s_snapshot>>

(* SEARCH_CMPL registers for notifications; REG_FOR_NOTIFY, or WRITE_DESCR *)
(* when there is a descriptor to write, enables them.  Each may fail, and  *)
(* then the callback just returns.                                         *)
Discovers ==
  /\ \/ link = "open" /\ link' = "found" /\ UNCHANGED <<s_notify_enabled, faults>>
     \/ link = "found" /\ link' = "on" /\ s_notify_enabled' = TRUE /\ UNCHANGED faults
     \/ /\ link \in {"open", "found"} /\ Fails
        /\ link' = "stuck" /\ UNCHANGED s_notify_enabled
  /\ UNCHANGED <<s_gattc_if, s_scanning, s_target_found, s_connected, s_web_scan_active,
                 gap, radio, s_frame, asked, ble_at, web_at, scans, s_snapshot>>

(* Mutated form: the link is down but the battery still counts as found.   *)
reset_link_state_found ==
  /\ s_connected' = FALSE /\ s_notify_enabled' = FALSE /\ s_frame' = "empty"
  /\ UNCHANGED s_target_found

reset_link_state ==
  /\ s_connected' = FALSE /\ s_notify_enabled' = FALSE /\ s_frame' = "empty"
  /\ s_target_found' = FALSE

(* ESP_GATTC_DISCONNECT_EVT.  The code asks for no disconnection, also not *)
(* for one of a link that was not set up to the end.                       *)
Disconnects ==
  /\ link \notin {"none", "opening"}
  /\ IF link = "stuck" THEN UNCHANGED faults ELSE Fails
  /\ link' = "none" /\ asked' = "no"
  /\ s_snapshot' = [s_snapshot EXCEPT !.fresh = FALSE]
  /\ reset_link_state
  /\ UNCHANGED <<s_gattc_if, s_scanning, s_web_scan_active, gap, radio, ble_at, web_at, scans>>

(* assemble_notify: the beginning of a frame starts it afresh; its end, if *)
(* the sum over the whole is right, is decoded (decode_jk02_cell_info).    *)
Notified ==
  /\ \/ /\ asked = "yes" /\ asked' = "end" /\ s_frame' = "begun"
        /\ UNCHANGED <<s_snapshot, faults>>
     \/ /\ asked = "end" /\ asked' = "no" /\ s_frame' = "empty"
        /\ s_snapshot' = [s_snapshot EXCEPT !.fresh = TRUE, !.mixed = {}]
        /\ UNCHANGED faults
     \/ /\ asked # "no" /\ asked' = "no" /\ s_frame' \in {"begun", "empty"}
        /\ Fails /\ UNCHANGED s_snapshot
  /\ UNCHANGED <<flagVars, stackVars, ble_at, web_at, scans>>

-----------------------------------------------------------------------------
(* The driver's task and the page's                                        *)

(* An iteration begins unless the page's scan is on, and goes through its  *)
(* three questions.  To pass one is to find its interval not over.         *)
Passes ==
  /\ \/ ble_at = "top" /\ ~s_web_scan_active /\ ble_at' = "scan"
     \/ ble_at = "scan" /\ ble_at' = "stop"
     \/ ble_at = "stop" /\ ble_at' = "poll"
     \/ ble_at = "poll" /\ ble_at' = "top"
  /\ UNCHANGED <<flagVars, stackVars, s_frame, asked, web_at, scans>>
  /\ Keeps

Rescans ==
  /\ ble_at = "scan" /\ ~s_connected /\ ~s_scanning /\ s_gattc_if
  /\ Len(gap) < GapCap
  /\ ble_at' = "stop" /\ gap' = start_scan(gap)
  /\ UNCHANGED <<flagVars, radio, link, s_frame, asked, web_at, scans>>
  /\ Keeps

Stops ==
  /\ ble_at = "stop" /\ s_scanning /\ Len(gap) < GapCap
  /\ ble_at' = "poll" /\ gap' = Append(gap, "stop")
  /\ UNCHANGED <<flagVars, radio, link, s_frame, asked, web_at, scans>>
  /\ Keeps

(* ble_send_cmd(CMD_CELL_INFO).                                            *)
Polls ==
  /\ ble_at = "poll" /\ s_connected /\ s_notify_enabled
  /\ ble_at' = "top"
  /\ asked' = IF asked = "no" THEN "yes" ELSE asked
  /\ UNCHANGED <<flagVars, stackVars, s_frame, web_at, scans>>
  /\ Keeps

(* jk_bms_ble_web_scan_start: the flag, and then what the stack is asked.  *)
(* The stack may be about to start the driver's scan at that moment.       *)
WebScan ==
  /\ web_at = "idle" /\ scans < MaxScans
  /\ web_at' = "ask" /\ scans' = scans + 1 /\ s_web_scan_active' = TRUE
  /\ UNCHANGED <<s_gattc_if, s_scanning, s_target_found, s_connected, s_notify_enabled,
                 stackVars, s_frame, asked, ble_at>>
  /\ Keeps

WebAsks ==
  /\ web_at = "ask" /\ web_at' = "idle" /\ Len(gap) < GapCap - 1
  /\ gap' = gap \o (IF s_scanning THEN <<"stop", "params">> ELSE <<"params">>)
  /\ UNCHANGED <<flagVars, radio, link, s_frame, asked, ble_at, scans>>
  /\ Keeps

-----------------------------------------------------------------------------
gap_cb == ParamSet \/ ScanStarts \/ ScanEnds \/ Advertises
gattc_cb == Registered \/ Opens \/ Discovers \/ Disconnects \/ Notified
jk_ble_task == Passes \/ Rescans \/ Stops \/ Polls
NextBle == gap_cb \/ gattc_cb \/ jk_ble_task \/ WebScan \/ WebAsks

(* What the stack and the battery do when nothing fails: these steps are   *)
(* fair in a specification that composes the driver.  Nothing drops a stuck*)
(* link.                                                                   *)
StackWorks ==
  \/ ParamSet \/ ScanStarts \/ ScanEnds \/ Registered
  \/ Opens /\ link' = "open"
  \/ Discovers /\ link' # "stuck"
  \/ Notified /\ faults' = faults

(* The driver's scan, which does not end by itself, runs while the page's  *)
(* counts as active: nobody stops it then, and the page's cannot start.    *)
Crossed == s_web_scan_active /\ radio = "plain"

TypeOKBle ==
  /\ {s_gattc_if, s_scanning, s_target_found, s_connected, s_notify_enabled,
      s_web_scan_active} \subseteq BOOLEAN
  /\ s_frame \in {"empty", "begun"} /\ asked \in {"no", "yes", "end"}
  /\ gap \in Seq({"params", "plain", "timed", "stop"}) /\ Len(gap) <= GapCap
  /\ radio \in {"off", "plain", "timed"} /\ link \in Links
  /\ ble_at \in {"top", "scan", "stop", "poll"} /\ web_at \in {"idle", "ask"}
  /\ scans \in 0 .. MaxScans
=============================================================================
