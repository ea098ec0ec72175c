# TLA+ models of the Jinjian battery SOC module

The repository holds two firmwares for one device: `air780epm/`, the Lua firmware of the
Air780EPM module that is in use, and `esp32/`, a half-finished C firmware that the top-level
README keeps as a reference. Both read a battery management system (BMS), report what they read
over MQTT on 4G and are managed over a serial link and over MQTT. This directory holds TLA+
modules of the parts that keep state over time, TLC configurations that check them on small
instances, and TLAPS proofs of theorems about them for every instance. Modules named `Esp...`
are about the C firmware.

Run a check with `tlc -config X.cfg M` and the proofs with `tlapm M_proofs.tla`.

## The system

Lua code runs in coroutines on one thread: a function is interrupted only where it calls
`sys.wait`, `sys.waitUntil` or a callback that does. Callbacks of the libraries (UART, MQTT) run
in the message pump, between two coroutine steps. So a step of a model is what runs between two
yields. Nothing of the RAM survives a reboot; `fskv` (key-value flash) and the image that the
core library has staged do.

### air780epm

| component | state | operations | what is hard |
|---|---|---|---|
| sample cache `bms_cache.lua` | ring of slots with sequence numbers, counters | push, latest, since, history | the ring laps a reader |
| adapter `bms_data.lua` | last round | on `JK_ROUND`: normalize, push | events without a table |
| telemetry uplink `bms_uplink.lua` | MQTT client and flags, report cursor, loss count, subscriptions, downlink queue | connect, event callback, report task, subscribe, publish | the encoder yields inside a report; connection flags are stale |
| upgrade manager `fota_mgr.lua` | URL state, local stage, counters, CRC, flags | begin, write, abort, URL start, background tasks | tasks of earlier sessions are still alive; aborts during waits; reboots |
| configuration store `cfg_store.lua` | overrides, dirty, restart and factory flags, fskv | check, stage, save, reset, load | partial persistence, normalization across a reboot |
| management service `mgmt.lua` | deduplication table, snapshot cache | a method table, deduplication, events | retries, eviction, two masters, reboot as a command |
| its UART link `mgmt_uart.lua` | receive buffer, event queue | frame scanner, answer, events | resynchronization, bounded queue, start and stop |
| its MQTT link `mgmt_mqtt.lua` | registered topic | open, on_message, send | subscription against connection |
| Modbus collector `jk_modbus.lua` | receive buffer, request in flight, last round, cell count | poll round, timeouts, receive callback | a late answer taken for the next request's; blocks that are missing |
| other collectors `jk_display.lua`, `jk_pb485.lua`, chosen by `jk.lua` | receive buffer, last round, staleness | frame scanner, staleness task | synchronization on a broadcast |
| slave `jinjian_slave.lua` | register image, receive buffer | refresh, scan, answer | serves data that is stale |
| codec `bms_codec.lua` | none | column encoding of a batch | widths, deltas |
| board, watchdog `board.lua`, `air153C_wtd.lua`, `uart_pins.lua` | pins, ADC guard, feed timer | init, feed, read | re-entrant ADC |
| hashes `sha256.lua`, `hmac.lua`; start `main.lua`, `config.lua.tpl`, `ntp_sync.lua` | none, or set once | | 32-bit integers; load order |

### esp32

FreeRTOS tasks on two cores, and callbacks of the WiFi, HTTP and BLE stacks that run in tasks of
their own. A step of a model is what a task does between two accesses to what it shares, or under
one mutex. Only the settings in NVS and the two firmware slots survive a restart.

| component | state | operations | what is hard |
|---|---|---|---|
| power manager `power_mgr.c` | wake request, stations, time of the last activity | idle and wake sequences | a wake-up in the midst of going down; time read before it is written |
| button `factory_reset.c` | how long it is held | wake, factory reset | the reset while settings are being saved |
| log stream `log_stream.c` | one connection, transmit buffer, mutex | collect, accept, read, write; suspend and resume | part of it without the mutex; suspension of the holder |
| 4G modem `ml307_4g.c` | connection status, requests, AT engine | start-up, socket, loop on line | unsolicited lines read by whoever runs a command |
| uplink `bms_uplink.c`, `mqtt_client.c` | session, batch, ring and parser | connect, subscribe, publish, answer, ping | two tasks with one status; a payload in a buffer that moves |
| RPC `rpc_server.c`, web pages `web_server.c` | static request and answer buffers | methods, pages | two tasks in one buffer and in one copy of the settings |
| settings `app_config.c`, `main.c` | settings in RAM and in NVS | get, save, load, clamp | key by key; a handle that the reset closes |
| upgrade `ota_update.c` | the upload, the slot to boot | start, write, finish, abort | an upload after an upload; power failures |
| BMS over UART `jk_bms.c` | bus mutex, poll counter, snapshot | round, refresh, RPC access | answers known by length only; two users of the bus |
| BMS over BLE `jk_bms_ble.c` | flags, frame buffer, snapshot | scan, connect, discover, poll | flags shared by task, callbacks and web page |
| vehicle slave `jinjian_bms.c`, `modbus_rtu.c` | receive buffer | receive, scan, answer | junk before a frame |
| history batches `bms_hist.c` | the columns of the batch | add, encode | one stream of numbers for codes, runs, modes and layouts; a buffer that may be too small |
| JSON `json_util.c`, LEDs `led_ctrl.c` | none that is read elsewhere | | |

What makes each part correct is in `PROJECT.json` under "hazards", each at the line where it
would go wrong, with the properties that would catch it.

## The modules

| module | models | state and code |
|---|---|---|
| `SampleDelivery` | abstract: what the uplink promises | every collected sample waits until it is settled, once and for good, as sent or as counted lost; a report settles all up to a point |
| `BmsCache` | `bms_cache.lua` | `slots`, `slot_seq`, `pushed`, `count` as in the code, `overwritten` for its statistic; `Push` is an action other modules take, `Since` the read; `history` is the same loop |
| `BmsUplink` | `bms_data.lua`, the report side of `bms_uplink.lua` | extends `BmsCache`; a report is `ReportEmpty`, or `ReportStart` and later `ReportFinish` or `EncodeFails`, because the encoder yields in between; connection flags as in the callback; `collected` and `sent` are histories |
| `BmsUplink_proofs` | | theorems about `BmsCache` and `BmsUplink`, see below |
| `FotaMgr` | `fota_mgr.lua`, the fota methods of `mgmt.lua` | one action per request; one set of live tasks per kind of coroutine, each with the number of the session that started it, because the code gives them none and old ones meet new sessions; `flash`, `staged`, `running` are the core library's |
| `CfgStore` | `cfg_store.lua`, `config.set`'s batch | operators on the store's variables and `fskv`, called by `MgmtRpc` |
| `MqttBus` | the side of `bms_uplink.lua` that lends the connection, `mgmt_mqtt.lua`'s open | flags, the registered topic, what the broker knows of it, the bounded downlink queue |
| `MgmtRpc` | `mgmt.lua`'s request handling, `mgmt_uart.lua`'s and `mgmt_mqtt.lua`'s use of it | extends `CfgStore` and `MqttBus`; `Handle` is `handle()` with everything it calls, entered by `ServeUart` and `ServeMqtt`; the two masters are external and repeat requests |
| `MgmtUart` | `mgmt_uart.lua` | the format of a frame, `scan` with the code's offsets, the receive callback, the task between two pauses (`Turn`, `Dispatch`, `Resumes`), the event queue; `consumed` and `handled` are histories; master and line are external. It shares no state with `MgmtRpc`, which begins where a frame is dispatched |
| `JkModbus` | `jk_modbus.lua` | the polling task between two waits (`Ask`, `Resume`), the UART callback (`OnReceive`), the message pump (`Dispatch`), time (`Tick`); slave and line are external |
| `EspHost` | `power_mgr.c`, `factory_reset.c`, `log_stream.c`, start and stop in `web_server.c` | `pm` and `lt` say where the two tasks are; a log line is a step that needs the mutex (`Logs`); of the buffer the length |
| `EspLink` | `ml307_4g.c` | one action per state of `ml307_task`; `at_run` is a command with what it does to the unsolicited lines in `urc`; module, network and connection are external |
| `EspUplink` | `bms_uplink.c`, `mqtt_client.c`, the 4G page | extends `EspLink`; one action per branch of `uplink_task`'s loop; the broker is external |
| `EspRpc` | `rpc_server.c`, `app_config.c`, `ota_update.c`, `main.c`, the pages that change state | `job[t]` is what each of the two calling tasks is doing; one action per access to the request buffer, the settings, NVS, the battery or a slot |
| `EspBle` | `jk_bms_ble.c`, `bms_interface.c` | flags as in the code; one action per event of the stack's callbacks and per question of the task's loop; `gap` is the queue of what the stack was asked |
| `EspBms` | `jk_bms.c`, `jinjian_bms.c`, `modbus_rtu.c` | extends `EspBle`; the polling task between two transactions; `owed` holds the answers that may still come; the vehicle and its line are external |
| `EspHist` | `bms_hist.c`, its use in `bms_uplink.c` | operators from the length of a number to a whole batch, named as in the code; `Gather` and `Publish` are the two outcomes of a sample. A decoder written from the format is the reference |
| `FotaMgr_proofs`, `MgmtRpc_proofs`, `JkModbus_proofs`, `MgmtUart_proofs`, `EspHost_proofs`, `EspRpc_proofs`, `EspData_proofs` | | theorems, see below; `EspData_proofs` are those about `EspBms` and `EspHist` |
| `MC...` | | values of the constants for TLC |

`BmsUplink` and `MqttBus` model the same connection flags for different questions. The uplink
asks what is sent; there a `disconnect` event may come in any order with a new connection. The
bus asks what is subscribed.

Definitions whose comment starts with "Mutated form" are the code with a plausible bug in it.
No specification uses them; they show that the property they are paired with can fail.

## The runs

### `uplink` (MCBmsUplink.cfg)

Four samples through a ring of two, three kinds of samples (two cell counts after
normalization, times that step back and jump beyond the largest offset), one failed encoding,
and a connection that is created, acknowledged, half-lost and lost at any point. Two slots and
four samples are enough for the ring to lap a cursor twice, once while a batch is suspended in
the encoder. Checked:

- `RingHoldsNewest`: the ring holds exactly the newest samples under their own numbers;
- `WindowsOrdered`: no sample leaves twice, payloads leave in collection order;
- `PayloadFaithful`: what a payload says of a sample is what was collected;
- `NoSilentLoss`: samples behind the cursor are in a payload or in `stats.lost`. The count is
  exact until an encoding fails: a failed report has already counted the samples that do not fit,
  and the next one counts them again (`bms_uplink.lua:405-424`). The statistic is then too high,
  never too low, and the property says so;
- `ImplementsDelivery`: the uplink implements `SampleDelivery` under `FateOf`;
- `EventuallySettled`: once the clock is set each sample is settled, under weak fairness of the
  report coroutine alone (its timer fires again and the encoder resumes). Nothing is assumed of
  the network. Encodings may fail, but not forever.

### `fota` (MCFotaMgr.cfg)

Three sessions (local or URL) between two reboots, images of up to two bytes in blocks of one, a
block that is too long, contents that match the announced CRC and contents that do not, failures
of every call on the core library, idleness at any time, a reboot at any time. Three sessions are
needed for a task of the first to meet the third; two blocks for gaps, repetitions and a
session that is complete by length or by the library's word. Checked: `ChannelsExclude`,
`FlashIsUpload`, `StagedIsVerified`, `SessionIsGuarded`, and the liveness properties
`SessionEnds` and `DownloadEnds`, under weak fairness of each kind of coroutine, of time
(`Expire`) and of libfota2's callback (which has a timeout of its own). The master owes nothing.

Two assumptions. `Quiet`: the first thing a task does is to wait 1 ms, and a master has one request in
flight (MGMT_RPC.md:62), so the task runs on before the next request comes. And `AbortStages`
leaves `VERIFYING` out in this run, because of the next one.

### `fota_abort` (violation)

It lets the master abort while the session is being verified. The finalizing task is
waiting at that moment and does not look at the stage afterwards, so it commits the image that
the master was told is dropped (README.md:584 says the old version boots).

### `mgmt` (MCMgmtRpc.cfg)

Two requests of two masters, three arrivals (so that a request is repeated, by its master or
after a reboot), each with an answer that arrives or is lost; requests with ids and without;
`config.set` batches that are normalized, refused as a whole for one bad value, or given as
text; factory reset, reboot, one power loss; a deduplication table for one entry, pruned from the first
entry on, so that replacing, pruning and evicting all happen; a downlink queue for one message; a
stored configuration with an entry that the white list no longer accepts; an fskv that may fail at
any call. Checked:

- `OnceInWindow`: a boot executes a request again within the window only when at least
  `DEDUP_CAP` requests were executed since;
- `AnsweredByOwn`: the answer a master takes was made for its request;
- `StoredIsOverrides`: what a boot at this moment would load is what this boot has;
- `ChangesAreAnnounced`: a reboot does not change a setting without a pending flag saying so;
- `SubscriptionHolds`: the management topic is subscribed whenever the link is up.

Assumptions on the masters, from MGMT_RPC.md:62 and :68: one request in flight each, no id used
twice for one method. In this run the ids of the two masters differ. Time stands still
while the table is empty, since nothing then depends on it. `task_downlink` handles its queue in
one go; the model lets other steps in between, which only adds behaviours. `CHECK_DEADLOCK
FALSE`: with requests, arrivals and losses used up, the system stops.

### `mgmt_uart` (MCMgmtUart.cfg)

Three things on the line, each a request, a block or one of seven kinds of noise (a frame with a broken check sum, one that is
cut off, a header that promises the longest block and brings nothing, one that promises more than is allowed, another version,
a start without more, a byte and half a start), received in pieces of any length at any time at which no coroutine runs. A
payload of up to two bytes or a block of up to six, a buffer for one and a half of the longest frames, so that it
overflows between and within frames; a pause after each frame; room for one event and two events. Three things are a frame
before noise, one behind it, and noise that reaches into two of them. Checked:

- `PiecesDontMatter`: the frames that were cut out are those of the whole stream of bytes, as long as nothing overflowed;
- `IntactIsHandled`: what was handled is what was sent, in order and once each, and lacks only frames that an overflow cut or
  that noise may still claim: `pick` says which of the sent frames each handled one is. There is no time-out between bytes: a header that
  promises `LEN` bytes holds back what follows until so many have come, however long that takes. The property gives it the longest
  such promise. It rests on `LineAssumption`, which this run evaluates on all lines of three items: noise is no frame, alone or with its neighbours;
- `NothingWaits`: when the task waits and no message is under way, no frame and no event is left to it. A message that comes in a
  pause of `process_rx` reaches nobody; the loop looks again by itself.

The check sum is another 16-bit hash of the same bytes; none of the frames and noises here collide. A second message
under way is not told from the first: it would cause a further look at what was looked at already. `CHECK_DEADLOCK
FALSE`: with line and events used up, the task waits.

### `jk` (MCJkModbus.cfg)

Rounds of two blocks of different lengths, the second optional. Times are in
time-outs: a pause of one, a pause of two after a failure, data stale after one. The slave
answers, refuses, is silent or is late by any time, also as late as a request in flight that its answer
could be taken for (the same register's of the next round); halves of frames get lost or are destroyed,
noise and echoes come at any time; the buffer holds one frame, so it is cut when a
half is left in it. The count of cells goes up and down between zero and one, and two smaller
counts confirm a change. Checked:

- `OnlyLateIsTaken`: a round takes the answer to another request for one of its blocks only if that answer began to come in
  while the round waited for one that looks the same (`late`). Whatever else is left over, halves of answers, complete ones
  in the buffer, messages that were queued or reach the task in a pause, never becomes a block;
- `FreshIsRecent`: `is_fresh()` vouches for no data older than `JK_DATA_TIMEOUT_MS`, a pause and
  a round of time-outs. With the configured values these are 15 s + 2 s + 18 * 120 ms, because
  only a failed round looks at the age;
- `ShrinkIsConfirmed`: the cell count shrinks exactly when the last rounds all saw fewer;
- `RoundEnds`: each round ends, under weak fairness of the message pump, of the timers and of
  time. Nothing is assumed of slave, line or `uart.setup`.

The exception in the first property happens: `RoundIsOwn`, under *Divergences*.
A published message is queued and dispatched before the next callback or timer
(`bms_data.lua:151-152` describes it). The bytes of a frame are its two halves: a start that is
not followed by its own second half is taken for a wrong check sum, also where the code would
still wait for more bytes, which can only lose an answer.

### `esp_host` (MCEspHost.cfg)

An idle time of two polls, a button held for three, a transmit buffer of two lines, up to three
events not yet handled, one connection (the code allows no more). Stations come and go, the button is
pressed and a client connects and breaks off at every point of going down and coming up; the log task is suspended at any of
its points. Three polls make a short press, a long one and one in between; two lines make the buffer full with one
line sent and one appended. Checked:

- `TypeOK`: with it, that `handle_write` never moves a negative number of bytes;
- `ServicesTogether`: LED, stream, server and radio are all on or all off between two decisions;
- `WakeServedUnlessStuck`: a short press leads to all of them being on, or the log task was suspended with the mutex of
  the log lines in its hand (`HolderSuspended`);
- `LoggingGoesOn`: that mutex becomes free again and again, with the same exception and no other: no
  connection keeps it, however it breaks off.

Fairness: the two tasks run, strongly because a task that waits for the mutex gets it if it is
given back again and again (the log task blocks in `select()` between two rounds). Nothing is owed by
phones, clients and fingers. `CHECK_DEADLOCK FALSE`: once the holder is suspended, nothing moves any more.

### `esp_wake` (violation, MCEspWake.cfg)

The exception happens: `vTaskSuspend` stops the log task where it holds the mutex (`log_stream.c:421`). The next
log line of the power manager waits forever, before it could resume the task, so `WakeServed`
(esp32/README.md:174) does not hold. `SuspendedHolderIsStuck` proves that there is no way out.

### `esp_uplink` (MCEspUplink.cfg)

`ml307_task`, `uplink_task`, the AT console and the 4G page over a module and a network that fail once, at
any point: the module hangs or restarts by itself, lines are lost in a flush, the connection ends
with or without the network. One request of the broker and one of the page's four, a batch of two
samples, two publications that fail before a reconnect, two lines in the UART. One fault is enough to
meet every state of the two tasks, and what follows it has to come from the code.

The run looks at two sockets: the code's own, over which CONNACK is not understood (see *Divergences*) so that the
uplink asks for a reconnect after each attempt, and the transparent one that ml307_4g.h:10-11 promises
(`transparent`), over which sessions, samples and requests of the broker are. Checked:

- `ReconnectsUnlessBlind`: the broker is reached again and again, and over a transparent socket there is a session with it,
  unless `online_loop` is blind: it has taken the modem for one without a socket, because another task consumed the line about
  the connection's end before the loop looked first. That happens (see *Divergences*); whichever task consumes
  that line at any other moment does no harm;
- `RequestServed`: a request to reconnect, of the uplink or directly of the page, ends the socket that it was about,
  whatever the modem's task is doing when it comes.

Fairness: both tasks run; a network that is there is found; an interval that has passed again and
again is at last noticed; not every CONNECT meets a socket that closes in that instant.

### `esp_rpc` (MCEspRpc.cfg)

Three requests from the web page and over MQTT in any interleaving, one loss (power failure or factory reset) at any
step, an upload in one part. A request names one setting, in its range or not, or two, one of them out of range; a
parameter list names one bit or two. Three requests are two that collide and one that follows. Checked:

- `AppliedIsWritten`: bits that a request was answered as having applied are the battery's;
- `SavedIsBooted`: settings that were answered as saved are what the next start runs with;
- `ResetBootsDefaults`: the start after a factory reset runs with the defaults, although a save may be under
  way when the flash is erased (its handle is closed by the erasure, so it writes nothing);
- `UploadIsBooted`: an image answered as installed is what the next start runs.

The first two make their promise for requests that had the dispatcher, or the settings, to themselves
(`clean`). For others the code gives none: it has no lock, and without `clean` TLC shows a save
that writes the other task's older copy and a dispatcher that reads the other task's request.
`CHECK_DEADLOCK FALSE`: with requests and losses used up, the device has nothing to do. No
liveness: each request is a straight line.

### `esp_bms` (MCEspBms.cfg)

Either driver, two failures among lost and late answers, lost requests, frames cut or garbled, refused and broken
BLE connections; one RPC call on the battery's bus, of two registers or as many as a block, or a write; one scan of the web page at any moment; one request
of the vehicle with any number to other slaves; configuration read every second round; a
receive buffer for a frame and a half, so that junk before a frame and a full buffer both happen. Two failures
are one that leaves a trace and one that meets it. Checked:

- `BlocksKeepApart`: of fresh data none is the polling task's late answer to another of its own requests. Answers are known by
  their length alone; the order of the blocks sees to it, also with RPC calls between them. Lengths matter only by being equal, so
  two stand for all; the theorem has them all;
- `WrittenIsKept`: a charge time the vehicle wrote is not read over by the battery's. `raced` leaves out a reading that was under
  way when the vehicle wrote: the flag is set after the value and without the mutex (`jk_bms.c:235-241`), so that reading may win;
- `RequestAnswered`: each request of the vehicle is answered, if it repeats it;
- `Recovers`: the battery's own data become fresh again after each failure, and the page's scan ends. Excepted are a page's scan
  that has crossed the driver's for good (see *Divergences*), and a link that stays open without having been set up
  (`link = "stuck"`): after a failed discovery `s_connected` stays, no code asks for a disconnect
  (`jk_bms_ble.c:622-687`), and it is left to the battery, which owes nothing here.

Fairness: tasks run, the BLE stack does what it is asked and a battery in reach is heard at last,
the vehicle repeats, an interval that passes again and again is noticed. `CHECK_DEADLOCK FALSE`: when the two scans have
crossed, the BLE driver has nothing more to do. The vehicle asks only with the UART driver in this run (`MCMaxAsks`): it meets
the slave through the snapshot alone. Cell count and capacity are read with one length, so a late answer to the first can
become the second; they are not part of a round.

### `esp_hist` (MCEspHist.cfg)

All batches of up to five snapshots out of five, published when full or asked for; batches of one (from a setting of zero) and
of five (from a setting that is too large). The columns stand still, rise steadily, rise faster and faster,
fall and jump, by differences of one byte and of two; snapshots have none, one, two, three and four cells
with room for three; a capacity is negative. The buffers hold 27 bytes, so that some batches fit in
one layout only and some in none; each mode, both layouts and both forms of a run occur in what is published. Checked:

- `MessageIsBatch`: a message decodes, without a rest, to what the snapshots said;
- `NoPlainIsShorter`: a message fits its buffer and is never longer than either layout without modes, and a batch is given up
  only if neither would fit.

The number of cells of a batch is that of the first snapshot that has any (`bms_hist.c:376-378`); cells beyond it are not
sent and missing ones are sent as zero. The property says so; a batch in which the count changes is not refused.

## Divergences

Where the code differs from what the repository says of it, or from what one would want, shown by TLC. Two have runs of their
own, `fota_abort` and `esp_wake`. Each other one is stated in a module, and TLC finds it violated under a configuration
that is here, or is another one changed as said:

| what happens | property | configuration |
|---|---|---|
| the idempotent retry of MGMT_RPC.md:208 cannot happen: `mgmt` derives the offset of a block from the bytes received (`mgmt.lua:558`), which is never the offset of the block before | `FotaMgr!RetryIsAcknowledged` | MCFotaMgr.cfg with this invariant |
| a reboot command whose answer was lost reaches the next boot, whose table is empty, and reboots it again; MGMT_RPC.md:64-65 says that the table prevents this | `MgmtRpc!RebootOnce` | MCMgmtRpc.cfg with `Kinds <- RebootKinds`, `DEDUP_CAP = 3`, `MaxPowerLoss = 0` |
| masters on both links number their requests from 1 (MGMT_RPC.md:51, :258); the second gets the first one's answer and its request is not executed | `MgmtRpc!AnsweredByOwn` | MCMgmtRpc.cfg with `UartIds = {1}`, `MqttIds = {1}`, `Kinds <- SharedKinds`, `DEDUP_CAP = 3`, `MaxPowerLoss = 0` |
| a round whose alarm block is missing says that its alarm bits are valid, and none is set | `JkModbus!AlarmIsRead` | MCJkModbus.cfg with this invariant |
| `jk_modbus.lua:253-255` wants no late answer to be given to the next request, but one that begins to come in after its time-out, while a request for as many registers is in flight, becomes that request's block (`jk_modbus.lua:262-316, 356-369`) | `JkModbus!RoundIsOwn` | MCJkLate.cfg |
| data received over the socket is copied like a string, up to the first zero byte, quote or 159 characters (`ml307_4g.c:504-523`); CONNACK has a zero as its third byte, so that without any fault there is never a session over what ml307_4g.h:10-11 calls a transparent channel | `EspUplink!Reconnects` | MCEspText.cfg |
| a line about the end of the connection that another task's command consumes between the end of `socket_open` and the first look of `online_loop` (`ml307_4g.c:1187`, after the pause of `:1318`) is noted in the status; the loop then takes the modem for one without a socket and opens none, against esp32/README.md:220 and :233 | `EspUplink!Reopened` | MCEspBlind.cfg |
| an RPC call reads as many registers as a block, and its late answer becomes the block: data that `bms_interface.h:11` calls fresh were not read by the round, and `jk_bms.c:68` keeps the two apart on the bus only until the time-out | `EspBms!RoundIsOwn` | MCEspMixed.cfg |
| the other way round, the late answer to the polling task becomes that of an RPC call, which succeeds (`jk_bms.h:31-32`) with other registers than it asked for | `EspBms!CallIsOwn` | MCEspCall.cfg |
| the page starts its scan while the driver's is about to start: the stack refuses the page's, the driver's has no end, and with `s_web_scan_active` set the driver does nothing more (`jk_bms_ble.c:718-721, 821-851`); esp32/README.md:189 says that the scan takes five seconds | `EspBms!ScanIsOver` | MCEspCross.cfg |
| with two packets in the parser's buffer the first one is handled with the second one's bytes (`mqtt_client.c:279`) | `EspUplink!HandledIsSent` | MCEspUplink.cfg with `CALLS = {"c1", "c2"}` and this invariant |
| results of the dispatcher lack their last brace, and an error met midway is appended to the result it has begun (`rpc_server.c:169-279`) | `EspRpc!AnswersAreJson` | MCEspRpc.cfg with `MaxAsks = 2`, `MaxLosses = 0` and this invariant |

Without a run or a property: an answer longer than `MGMT_MAX_PAYLOAD` is executed and remembered but never sent
(`mgmt_uart.lua:245`); `mcu.ticks() * 1000` wraps every 71.6 minutes in the firmware's integers, after which entries of
the deduplication table do not age (`mgmt.lua:86`); `info()` prefers a finished URL session over a later local one
(`fota_mgr.lua:626`); a remaining length of four bytes makes the parser of `mqtt_client.c:216` wait forever;
a BLE link whose set-up failed is kept until the battery drops it (`jk_bms_ble.c:622-687`); `bms_hist_reset` is said to keep the cell count (`bms_hist.h:43`), and
it clears it, in the code (`bms_hist.c:425-429`) and in the model; the races that `esp_rpc` and `esp_bms` leave out of `AppliedIsWritten`, `SavedIsBooted` and
`WrittenIsKept` are described there.

## What is proved

The theorems of `BmsUplink_proofs` hold for every ring capacity, cell limit, largest
offset, set of snapshots and bound, from the assumptions `CapacityAssumption` and
`UplinkAssumption` (the constants are natural numbers, the capacity is not zero, a sample is a
cell count in range with a time) and nothing else.

The properties alone are not inductive: `WindowsOrdered`, for example, survives a report only because all that was
sent lies behind the cursor and the suspended batch lies ahead of it. `UplinkInv` adds what is missing:

- `CacheInv`: where each of the newest samples is, and that other slots are empty or older. The slot of a
  number is `(seq - 1) % CAPACITY + 1`; `IdxDistinct` and `IdxPeriodic` say that numbers
  less than a capacity apart do not collide and those one capacity apart do;
- `RingIsHistory`: the ring agrees with the history `collected`;
- `Covers`: a suspended batch was cut out of the history between the cursor and its end, and
  what it does not hold is already in the loss count;
- `SentInv`, `LossInv`: payloads are faithful, ordered and behind the cursor; the sum of sent and
  lost bounds the cursor.

`UplinkInvInit` and `UplinkInvStep` show it inductive, one lemma per action
that can disturb it. From it follow `TypeCorrect`, `RingCorrect`, `WindowsAreOrdered`,
`PayloadsAreFaithful`, `NothingLostSilently` and, with one lemma for the step that collects and one for the step
that settles, `UplinkImplementsDelivery`. `SinceIsExact` and `PushKeepsCacheInv` are the two
facts about the cache that any other reader can use.

The other modules of theorems hold for all values of the constants too, from the named assumption of
each model (`FotaAssumption`, `MgmtAssumption`, `StoreAssumption`, `QueueAssumption`, `PollAssumption`, `HostAssumption`,
`RpcAssumption`, `BmsAssumption`, `UartAssumption`, `LineAssumption`, `HistAssumption`) and from what is said here.

- `FotaMgr_proofs`, if `"VERIFYING"` is not in `AbortStages` (`fota_abort` shows why). `FotaInv` adds to the four properties what
  tasks of old sessions may still do: a task that has not reached `fota.init` is of the newest session (`StartInv`), an active
  session has what will end it (`GuardInv`), and the flash is what was counted and summed so far
  (`FlashInv`). It gives `StagedIsVerified`, `FlashIsUpload`, `ChannelsExclude` and `SessionIsGuarded`.
- `MgmtRpc_proofs`. `AnsweredByOwn`, if the ids of the masters are apart (see Divergences): each entry of the table is for a request with its
  id and method, and there is one such request. `SubscriptionHolds`, from `BusInv`: a connection that stands has seen its
  CONNACK. `StoredIsOverrides` and `ChangesAreAnnounced`, from `StoreInv`, which rests on `ValidateStays`: what the validation made of a
  value it takes again and leaves as it is, for each type of the white list. That needs
  enumerations without texts that are numbers (`StoreAssumption`); the code's have none. `OnceInWindow`, if the ids are apart, from
  `OnceInv`: an execution of this boot in its window is in the table, or was followed by a newer request of its link, or by
  `DEDUP_CAP` others (`RememberedInv`). The second case is harmless because a queue holds the requests of its link in the order they were
  made in, behind all that were executed (`OrderInv`); the third one comes from an entry that had to go, as each of those
  that stay is of an execution of its own, no older (`TableInv`, counted by the injection of `AsManyAs`).
- `JkModbus_proofs`. `ShrinkIsConfirmed`, from `CellInv`: the streak is the last rounds that saw fewer cells, and the one
  before it did not. `FreshIsRecent`, from `AgeInv`: age and remaining time-out together stay within the budget of the blocks that are
  still to come. `OnlyLateIsTaken`, for any lateness, from `LateInv`: as long as no look-alike came late in this round, `OwnInv` holds, that is, there is one
  answer to the request in flight, and it is in one place, still to be made, on the wire, in the buffer or queued (`SingleInv`); a piece in the buffer that
  begins a frame is of that answer (`StartsOwn`).
- `MgmtUart_proofs`. The scanner and the check sum are recursive functions; the library's induction takes an operator for a parameter, so induction
  is done here on sets of positions, from the well-foundedness of the natural numbers (`Upwards`, `Downwards`). `ScanIs` shows that
  `scan_from` satisfies its equation, `ScanType` what it returns. `Shift` says that a scan of the later bytes finds what the scan
  of all finds from there on, `ScanOn` that it may be interrupted: together `ScanAgain`, the fact about `M.scan` that the receive path relies on.
  `PiecesDontMatter` is not inductive: that the frames of the bytes so far were found says nothing of a frame
  that they begin. `Resumable` says it of all bytes that may follow, and that is kept by the callback (more bytes), a turn (`ScanAgain`) and a
  dispatch. `NothingWaits`, from `WaitInv` and from `RestIs`: what a scan leaves holds no frame and fits into `MAXFRAME`, so
  that the cut of `mgmt_uart.lua:321-325` never happens; that needs `MAXFRAME` to hold the longest frame of either kind less one byte
  (`UartAssumption`: 1200 against 1024 and 242 in the firmware).
  `IntactIsHandled`, for any frames and noise that `LineAssumption` admits. `BuiltIs` shows that a frame which was built is judged to be
  itself. `LineInv`: buffer and line hold the bytes of what was put on the line at the places that `got` gives them, and each sent frame stands where `sent` says.
  `PickInv`: what was handled and what is cut out are sent frames in order, among them all between the last dropped byte and the buffer.
  A turn keeps it by `Scanned` (a scan finds the sent frames in the bytes it goes over, and nothing else), and at a wait
  `NoneIsKept` says that no resolved frame is left in the buffer.
  `LineAssumption` asks of the line that nothing on it but a sent frame is a frame. So it leaves out
  noise that hits the check sum, and payloads that hold a whole frame: an overflow that cuts into one of those shows the scanner the inner
  frame, and the code would handle it.
- `EspHost_proofs`. `TypeOK` and `ServicesTogether`, from `HostInv`: what is on at each point of the power manager (`ServiceInv`), what
  the waiting events say of stations (`StationInv`), who has the mutex (`LockInv`). `SuspendedHolderIsStuck`: once the log task is suspended with
  the mutex it stays so, and the power manager stays where it goes down, before it would resume it. So what the two liveness properties of
  `esp_host` except is for good.
- `EspRpc_proofs`. `SavedIsBooted` and `ResetBootsDefaults`, from `SaveInv`: what was promised is in memory, in flash, and in
  every copy that is about to be saved by a request that does not name it (`PromisedInv`), and requests that
  met another one promise nothing (`AloneInv`). `UploadIsBooted`, from `UploadInv`. `AppliedIsWritten`, from `BitInv`: the word a
  request is about to write has every bit that was answered as applied, and what it has written so far is in the battery unless the other
  task's request came between.
- `EspData_proofs`, of the snapshot. `BlocksKeepApart`, for RPC calls of all lengths: at most two answers are owed, and one of the polling task's that is
  owed before its own next one is not as long (`OwedInv`). `WrittenIsKept`, from `TimeInv`.
- `EspData_proofs`, of the history. `HistInv` (`BatchesAreKept`) says what a batch holds: a row for each snapshot taken, with as many cells as
  the first snapshot that has any; it is kept because rows made before there were cells hold none. The rest is about the codec, for
  all numbers. Codes: `CodesRead` follows the receiver through what `encode_delta_sequence` made of any differences. Wherever it stands
  (`Before` the codes of a run, or `Within` one that is sent singly), it has the first differences and is
  behind their codes. Columns: `ColumnRead`, in each mode that can hold the column, for `Delta2` by two layers of sums. Messages: `ColumnsRead`, each
  column beginning where the one before ends, and `CellRead` for both layouts. Together `MessageIsBatch`. `NoPlainIsShorter` follows from
  `LayoutTaken` (the modes are used only if they pay for their table) and `ShortestTaken`. The functions are recursive; `Upwards` and `Downwards` are the induction
  here too, and for each function a lemma (`ReadExists`, ...) shows that its recursion has a solution. The numbers are those of mathematics: the
  firmware's are of 64 bits, which its columns cannot exceed.

Only model-checked: liveness (`EventuallySettled`, `SessionEnds`, `DownloadEnds`, `RoundEnds`, `WakeServedUnlessStuck`, `LoggingGoesOn`,
`ReconnectsUnlessBlind`, `RequestServed`, `RequestAnswered`, `Recovers`), which is out of the prover's reach, and the properties that the code violates. Each
safety property of a passing run has a theorem. `TypeOK` of `FotaMgr` and of
`BmsUplink` is proved and no longer in a run; those of
`EspBms`, `MgmtRpc` and `JkModbus` hold in the configurations of their runs, where other invariants say more.

## What is left out

- `flush()` of the uplink is a debug entry that no module calls (it could run a second report
  over the window of a suspended one); `feed()` and `stop()` of `jk_modbus.lua` are for its self test. Statistics that no property reads are left out everywhere.
- The columns of a sample other than cell count and time, and the bytes of its encoding.
- `fota` progress numbers and the snapshot `info()`, which only read.
- A CRC32 is taken for its content: collisions are not modelled.
- The status snapshot of `mgmt` and the sizes of answers: planned. Of an event `MgmtUart` keeps that there is one.
- `stop()`, `feed()` and `handle_frame()` of `mgmt_uart`, which only its self test calls, and its echo diagnosis.
- Time in `MgmtRpc` is a natural number; in the firmware it wraps (hazard at `mgmt.lua:86`): planned.
- Out of reach or not worth a model: hashes (pure, tested by vectors), pin and ADC I/O, LEDs and their patterns.
- esp32: pages and readings that only report (status, signal, IMEI, voltage), `json_util.c`, the register and frame decoding into the
  fields of a snapshot, log lines of `EspHost` at which nothing can block or be decided, the overflow of the modem's byte ring and of the parser's buffer. A packet is whole or not
  there, so the four bytes of a remaining length are not modelled.

## Plan

What could come next, in this order.

1. The other serial links, `jinjian_slave.lua` and `jk_display.lua`: scanners like those of `MgmtUart` and `EspBms`, with
   data that go stale.
2. The byte ring and the parser of `mqtt_client.c` as separate actors with positions, so that overflow and the length
   field can be asked about.
3. `bms_codec.lua`, whose columns are those of `EspHist` with another header and a base time.
4. A wrapping millisecond clock for `MgmtRpc` and `FotaMgr`.
