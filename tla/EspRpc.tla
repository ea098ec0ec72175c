--------------------------------- MODULE EspRpc ---------------------------------
(***************************************************************************)
(* How the esp32 firmware is configured and upgraded while it runs: the    *)
(* HTTP handlers of web_server.c, the JSON-RPC dispatcher of rpc_server.c  *)
(* with what main.c hands it, the settings of app_config.c in NVS, the     *)
(* upload of ota_update.c and the factory reset.                           *)
(*                                                                         *)
(* Two tasks call the dispatcher, the HTTP server's (one request at a time)*)
(* and the uplink's (one MQTT message at a time), and no lock keeps them   *)
(* apart: the request buffer with its node pool, the settings in memory    *)
(* and a register of the battery that is read, changed and written are     *)
(* shared, so a request is one step per access to them.  Power may fail    *)
(* before every step.                                                      *)
(*                                                                         *)
(* Of the 23 settings three are kept, one of each kind: uart_poll, which   *)
(* the web page may set to anything, RPC only within its range and booting *)
(* takes as it is; mq_smpl, refused everywhere when out of range and reset *)
(* by booting; log_level, which has a page of its own and needs no restart.*)
(* Of the battery's registers the control word is kept, whose bits setParam*)
(* changes one at a time.  Of an answer its open braces are kept.          *)
(***************************************************************************)
EXTENDS Integers, SequencesExt

CONSTANTS
  Bits,        (* the named bits of the control register                   *)
  Changes,     (* the settings a request may name: functions from some of  *)
               (* Keys to Values                                           *)
  ParamLists,  (* the values of bms.setParam: sequences of [bit, to]       *)
  Chunks,      (* an upload, in reads of the HTTP server                   *)
  MaxAsks,     (* bound: requests                                          *)
  MaxLosses    (* bound: power failures and factory resets                 *)

Order == <<"uart_poll", "mq_smpl", "log_level">>  (* as they are written    *)
Keys == Range(Order)
Values == {"default", "other", "bad"}             (* bad: out of range      *)
Tasks == {"httpd", "uplink"}
Slots == 0 .. 1
Images == {"shipped", "upgrade", "broken"}

ASSUME RpcAssumption ==
  /\ \A c \in Changes : DOMAIN c \subseteq Keys /\ Range(c) \subseteq Values
  /\ \A l \in ParamLists : l \in Seq([bit : Bits, to : BOOLEAN]) /\ l # <<>>
  /\ Chunks \in Nat \ {0}
  /\ {MaxAsks, MaxLosses} \subseteq Nat

VARIABLES
  s_cfg,      (* the settings in memory                                    *)
  flash,      (* external: the settings in NVS, "none" when never written  *)
  nvs,        (* nvs_open succeeds                                         *)
  job,        (* per task: what it is doing                                *)
  buf,        (* the dispatcher's request, parsed in place                 *)
  reply,      (* the last answer                                           *)
  rebooting,  (* a reboot task, or the reset's delay, is running           *)
  slots, boot, running, s_active,  (* the two images and the upload        *)
  register,   (* external: the battery's control word                      *)
  asks, losses,
  clean,      (* history: per task, no other request shared its section    *)
  promised,   (* history: the settings answered as saved                   *)
  applied,    (* history: the bits answered as applied                     *)
  uploaded,   (* history: the image answered as installed                  *)
  erased      (* history: a factory reset awaits its restart               *)

settings == <<s_cfg, flash, nvs>>
ota == <<slots, boot, running, s_active, uploaded>>
bounds == <<asks, losses>>
vars == <<settings, job, buf, reply, rebooting, ota, register, bounds,
          clean, promised, applied, erased>>

-----------------------------------------------------------------------------
(* The requests.                                                           *)

Calls ==
  [method : {"agent.setConfig"}, change : Changes]
    \cup [method : {"bms.setParam"}, values : ParamLists]
    \cup [method : {"bms.writeRegisters"}, word : [Bits -> BOOLEAN]]
    \cup [method : {"agent.reboot", "bms.getParam", "bms.listParams", "query",
                    "notification", "junk"}]
Junk == [method |-> "junk"]

(* What rpc_set_config_json refuses, and what it takes over.               *)
Refused(change) == \E k \in DOMAIN change \ {"uart_poll"} : change[k] = "bad"
Accepted(change) ==
  Restrict(change, {k \in DOMAIN change : change[k] # "bad"})

Merge(cfg, change) ==
  [k \in Keys |-> IF k \in DOMAIN change THEN change[k] ELSE cfg[k]]

NoJob == [at |-> "idle"]
NoReply == [what |-> "none", open |-> 0]

(* Braces left open: put_result_open opens one that only getParam closes;  *)
(* an error it meets midway is appended to the result it has begun.        *)
Results(method) ==
  CASE method = "bms.getParam" -> {[what |-> "result", open |-> 0], [what |-> "error", open |-> 3]}
    [] method = "query" -> {[what |-> "result", open |-> 1], [what |-> "error", open |-> 0]}
    [] method = "junk" -> {[what |-> "error", open |-> 0]}
    [] OTHER -> {[what |-> "result", open |-> 1]}
Error == [what |-> "error", open |-> 0]
Done == [what |-> "result", open |-> 0] (* the page's own answers           *)

(* The answer of the whole parameter list is longer than the transmit      *)
(* buffer of mqtt_client.h, so the uplink builds no packet for it.         *)
Delivered(t, method, r) ==
  IF method = "notification" \/ (t = "uplink" /\ method = "bms.listParams")
    THEN NoReply ELSE r

-----------------------------------------------------------------------------
(* Which requests share a section: two in the dispatcher, or two between   *)
(* reading the settings and having written them.                           *)
InDispatch(j) == j.at # "idle" /\ j.how = "rpc"
InSave(j) == j.at \in {"save", "keys", "saved"}
Together(j1, j2) ==
  \/ InDispatch(j1) /\ InDispatch(j2)
  \/ InSave(j1) /\ InSave(j2)
Crowded(js) == Together(js["httpd"], js["uplink"])

(* Task t goes on as j, with the request in the dispatcher as it is (what  *)
(* is left there when nobody uses it is not kept).                         *)
Continues(t, j, call) ==
  /\ job' = [job EXCEPT ![t] = j]
  /\ buf' = IF \E u \in Tasks : InDispatch(job'[u]) THEN call ELSE Junk
  /\ clean' = [u \in Tasks |-> (clean[u] \/ job[u].at = "idle") /\ ~Crowded(job')]

Goes(t, j) == Continues(t, j, buf)

Answers(t, r) == Goes(t, NoJob) /\ reply' = r

-----------------------------------------------------------------------------
(* rpc_server_handle: the request is copied and parsed where the other     *)
(* task's may still be in use.  Over MQTT a request of 160 bytes or more   *)
(* is cut, and what follows it on the stack parsed.                        *)
rpc_server_handle(t, call) ==
  /\ Continues(t, [at |-> "dispatch", how |-> "rpc"], call)
  /\ UNCHANGED <<settings, reply, rebooting, ota, register, promised, applied, erased>>

Asks(t) ==
  /\ job[t].at = "idle"
  /\ asks < MaxAsks
  /\ asks' = asks + 1
  /\ UNCHANGED losses

handle_rpc_post ==
  /\ Asks("httpd")
  /\ \E call \in Calls : rpc_server_handle("httpd", call)

handle_downlink ==
  /\ Asks("uplink")
  /\ \E call \in Calls, long \in BOOLEAN :
       rpc_server_handle("uplink", IF long THEN Junk ELSE call)

(* The methods that end at once.                                           *)
Dispatch(t) ==
  /\ job[t].at = "dispatch"
  /\ buf.method \notin {"agent.setConfig", "bms.setParam", "bms.writeRegisters"}
  /\ \E r \in Results(buf.method) : Answers(t, Delivered(t, buf.method, r))
  /\ rebooting' = (rebooting \/ buf.method = "agent.reboot")
  /\ UNCHANGED <<settings, ota, register, bounds, promised, applied, erased>>

(* agent.setConfig up to app_config_get.                                   *)
rpc_set_config_json(t) ==
  /\ job[t].at = "dispatch"
  /\ buf.method = "agent.setConfig"
  /\ IF Refused(buf.change)
       THEN Answers(t, Error)
       ELSE /\ Goes(t, [at |-> "save", how |-> "rpc", change |-> Accepted(buf.change),
                        cfg |-> Merge(s_cfg, Accepted(buf.change)), reboots |-> FALSE])
            /\ UNCHANGED reply
  /\ UNCHANGED <<settings, rebooting, ota, register, bounds, promised, applied, erased>>

(* POST /api/config and POST /api/log/level.                               *)
handle_config_post ==
  /\ Asks("httpd")
  /\ \E change \in Changes :
       IF Refused(change)
         THEN Answers("httpd", Error)
         ELSE /\ Goes("httpd", [at |-> "save", how |-> "page", change |-> change,
                                cfg |-> Merge(s_cfg, change), reboots |-> TRUE])
              /\ UNCHANGED reply
  /\ UNCHANGED <<settings, rebooting, ota, register, promised, applied, erased>>

handle_log_level_post ==
  /\ Asks("httpd")
  /\ \E level \in Values :
       IF level = "bad"
         THEN Answers("httpd", Error)
         ELSE LET change == [k \in {"log_level"} |-> level] IN
              /\ Goes("httpd", [at |-> "save", how |-> "page", change |-> change,
                                cfg |-> Merge(s_cfg, change), reboots |-> FALSE])
              /\ UNCHANGED reply
  /\ UNCHANGED <<settings, rebooting, ota, register, promised, applied, erased>>

handle_reboot ==
  /\ Asks("httpd")
  /\ Answers("httpd", Done)
  /\ rebooting' = TRUE
  /\ UNCHANGED <<settings, ota, register, promised, applied, erased>>

-----------------------------------------------------------------------------
(* app_config_save: memory first, then one key after another, each from    *)
(* memory as it is by then; when NVS does not open nothing is written and  *)
(* nobody is told.                                                         *)
At(at, i, j) ==
  [at |-> at, how |-> j.how, change |-> j.change, reboots |-> j.reboots, i |-> i]

app_config_save(t) ==
  /\ job[t].at = "save"
  /\ s_cfg' = job[t].cfg
  /\ Goes(t, At(IF nvs THEN "keys" ELSE "saved", 1, job[t]))
  /\ promised' = [k \in Keys |-> IF k \in DOMAIN job[t].change THEN "none" ELSE promised[k]]
  /\ UNCHANGED <<flash, nvs, reply, rebooting, ota, register, bounds, applied, erased>>

(* Mutated form: the last setting is forgotten.                            *)
nvs_set_short(t) ==
  /\ job[t].at = "keys"
  /\ flash' = IF nvs THEN [flash EXCEPT ![Order[job[t].i]] = s_cfg[Order[job[t].i]]]
                     ELSE flash
  /\ Goes(t, IF job[t].i = Len(Order) - 1 THEN At("saved", 1, job[t])
                                          ELSE At("keys", job[t].i + 1, job[t]))
  /\ UNCHANGED <<s_cfg, nvs, reply, rebooting, ota, register, bounds,
                 promised, applied, erased>>

(* A handle opened before the flash was erased writes nothing.             *)
nvs_set(t) ==
  /\ job[t].at = "keys"
  /\ flash' = IF nvs THEN [flash EXCEPT ![Order[job[t].i]] = s_cfg[Order[job[t].i]]]
                     ELSE flash
  /\ Goes(t, IF job[t].i = Len(Order) THEN At("saved", 1, job[t])
                                      ELSE At("keys", job[t].i + 1, job[t]))
  /\ UNCHANGED <<s_cfg, nvs, reply, rebooting, ota, register, bounds,
                 promised, applied, erased>>

(* The level is applied, the answer sent, the reboot scheduled.            *)
Saved(t) ==
  /\ job[t].at = "saved"
  /\ Answers(t, IF job[t].how = "rpc" THEN [what |-> "result", open |-> 1] ELSE Done)
  /\ rebooting' = (rebooting \/ job[t].reboots)
  /\ promised' = IF clean[t] /\ nvs THEN Merge(promised, job[t].change) ELSE promised
  /\ UNCHANGED <<settings, ota, register, bounds, applied, erased>>

-----------------------------------------------------------------------------
(* bms.setParam: each value in turn, read, changed and written in two      *)
(* transactions of the bus; an error ends it and lists nothing of what was *)
(* written before.                                                         *)
Position(t) == IF job[t].at = "dispatch" THEN 1 ELSE job[t].i

Forget(bits) == applied' = {v \in applied : v.bit \notin bits}

ReadBit(t) ==
  /\ job[t].at \in {"dispatch", "params"}
  /\ buf.method = "bms.setParam"
  /\ Position(t) \in DOMAIN buf.values
  /\ \/ Goes(t, [at |-> "modify", how |-> "rpc", i |-> Position(t),
                 value |-> buf.values[Position(t)], word |-> register])
        /\ UNCHANGED reply
     \/ Answers(t, Error)              (* an unknown name, or no answer     *)
  /\ UNCHANGED <<settings, rebooting, ota, register, bounds, promised, applied, erased>>

(* Mutated form: the word is not read back before one of its bits is set.  *)
encode_value_blind(word, value) == [b \in Bits |-> b = value.bit /\ value.to]

encode_value(word, value) == [word EXCEPT ![value.bit] = value.to]

WriteBit(t) ==
  /\ job[t].at = "modify"
  /\ Forget({job[t].value.bit})
  /\ LET word == encode_value(job[t].word, job[t].value) IN
     \/ /\ register' = word
        /\ Goes(t, [at |-> "params", how |-> "rpc", i |-> job[t].i + 1])
        /\ UNCHANGED reply
     \/ /\ register' \in {register, word}
        /\ Answers(t, Error)           (* no answer of the battery          *)
  /\ UNCHANGED <<settings, rebooting, ota, bounds, promised, erased>>

(* History: the last value of each bit that is named counts.              *)
Told(values) ==
  {values[i] : i \in {j \in DOMAIN values :
                       \A k \in DOMAIN values : k > j => values[k].bit # values[j].bit}}

AllApplied(t) ==
  /\ job[t].at = "params"
  /\ buf.method = "bms.setParam"
  /\ job[t].i \notin DOMAIN buf.values
  /\ Answers(t, [what |-> "result", open |-> 1])
  /\ applied' = IF clean[t]
                  THEN {v \in applied : \A w \in Range(buf.values) : w.bit # v.bit}
                         \cup Told(buf.values)
                  ELSE applied
  /\ UNCHANGED <<settings, rebooting, ota, register, bounds, promised, erased>>

(* The other task's request has taken the buffer in between: the list the  *)
(* loop walks is gone, and it ends with what it finds there.               *)
ListGone(t) ==
  /\ job[t].at = "params"
  /\ buf.method # "bms.setParam"
  /\ \E r \in {Error, [what |-> "result", open |-> 1]} : Answers(t, r)
  /\ UNCHANGED <<settings, rebooting, ota, register, bounds, promised, applied, erased>>

m_bms_write_registers(t) ==
  /\ job[t].at = "dispatch"
  /\ buf.method = "bms.writeRegisters"
  /\ \/ /\ register' = buf.word
        /\ Answers(t, [what |-> "result", open |-> 1])
        /\ applied' = {v \in [bit : Bits, to : BOOLEAN] : clean[t] /\ v.to = buf.word[v.bit]}
     \/ /\ register' \in {register, buf.word}
        /\ Answers(t, Error)
        /\ Forget(Bits)
  /\ UNCHANGED <<settings, rebooting, ota, bounds, promised, erased>>

-----------------------------------------------------------------------------
(* POST /api/ota.  The target is the slot that is not running, which the   *)
(* upload before may have made the one to boot.                            *)
handle_ota_post ==
  /\ Asks("httpd")
  /\ IF s_active
       THEN Answers("httpd", Error) /\ UNCHANGED ota
       ELSE /\ \E image \in Images :
                 /\ slots' = [slots EXCEPT ![1 - running] = [image |-> image, whole |-> FALSE]]
                 /\ Goes("httpd", [at |-> "upload", how |-> "page", left |-> Chunks])
            /\ s_active' = TRUE
            /\ uploaded' = "none"
            /\ UNCHANGED <<reply, boot, running>>
  /\ UNCHANGED <<settings, rebooting, register, promised, applied, erased>>

(* The next part arrives and is written, or ends the upload.               *)
ota_update_write ==
  /\ job["httpd"].at = "upload"
  /\ job["httpd"].left > 0
  /\ \/ /\ Goes("httpd", [at |-> "upload", how |-> "page", left |-> job["httpd"].left - 1])
        /\ UNCHANGED <<reply, s_active>>
     \/ Answers("httpd", Error) /\ s_active' = FALSE
  /\ UNCHANGED <<settings, rebooting, slots, boot, running, uploaded, register,
                 bounds, promised, applied, erased>>

(* Mutated form: the verdict of esp_ota_end is not looked at.              *)
ota_update_finish_unchecked ==
  /\ job["httpd"].at = "upload"
  /\ job["httpd"].left = 0
  /\ s_active' = FALSE
  /\ slots' = [slots EXCEPT ![1 - running].whole = slots[1 - running].image # "broken"]
  /\ boot' = 1 - running
  /\ uploaded' = slots[1 - running].image
  /\ rebooting' = TRUE
  /\ Answers("httpd", Done)
  /\ UNCHANGED <<settings, running, register, bounds, promised, applied, erased>>

(* esp_ota_end checks the image before it may be booted.                   *)
ota_update_finish ==
  /\ job["httpd"].at = "upload"
  /\ job["httpd"].left = 0
  /\ s_active' = FALSE
  /\ IF slots[1 - running].image = "broken"
       THEN Answers("httpd", Error) /\ UNCHANGED <<slots, boot, uploaded, rebooting>>
       ELSE /\ slots' = [slots EXCEPT ![1 - running].whole = TRUE]
            /\ boot' = 1 - running
            /\ uploaded' = slots[1 - running].image
            /\ rebooting' = TRUE
            /\ Answers("httpd", Done)
  /\ UNCHANGED <<settings, running, register, bounds, promised, applied, erased>>

-----------------------------------------------------------------------------
(* Mutated form: NVS is opened again at once.                              *)
factory_reset_reopening ==
  /\ ~erased
  /\ losses < MaxLosses
  /\ losses' = losses + 1
  /\ flash' = [k \in Keys |-> "none"]
  /\ nvs' = nvs
  /\ rebooting' = TRUE
  /\ promised' = [k \in Keys |-> "none"]
  /\ erased' = TRUE
  /\ UNCHANGED <<s_cfg, job, buf, reply, ota, register, asks, clean, applied>>

(* The button held: NVS is erased, which also closes it, and half a second *)
(* later the device restarts.                                              *)
factory_reset ==
  /\ ~erased
  /\ losses < MaxLosses
  /\ losses' = losses + 1
  /\ flash' = [k \in Keys |-> "none"]
  /\ nvs' = FALSE
  /\ rebooting' = TRUE
  /\ promised' = [k \in Keys |-> "none"]
  /\ erased' = TRUE
  /\ UNCHANGED <<s_cfg, job, buf, reply, ota, register, asks, clean, applied>>

(* app_config_init: the defaults, what NVS has, and of that what is out of *)
(* range back to the default.                                              *)
app_config_init(stored) ==
  [k \in Keys |->
     IF stored[k] = "none" \/ (stored[k] = "bad" /\ k # "uart_poll")
       THEN "default" ELSE stored[k]]

(* external: the bootloader takes the other image when the one to boot is  *)
(* not whole.                                                              *)
Bootloader == IF slots[boot].whole THEN boot ELSE 1 - boot

Boot ==
  /\ s_cfg' = app_config_init(flash)
  /\ nvs' = TRUE
  /\ job' = [t \in Tasks |-> NoJob]
  /\ buf' = Junk
  /\ reply' = NoReply
  /\ rebooting' = FALSE
  /\ running' = Bootloader
  /\ s_active' = FALSE
  /\ clean' = [t \in Tasks |-> TRUE]
  /\ erased' = FALSE
  /\ UNCHANGED <<flash, slots, boot, uploaded, register, asks, promised, applied>>

esp_restart == rebooting /\ Boot /\ UNCHANGED losses

PowerFails ==
  /\ losses < MaxLosses
  /\ losses' = losses + 1
  /\ Boot

-----------------------------------------------------------------------------
Init ==
  /\ s_cfg = [k \in Keys |-> "default"]
  /\ flash = [k \in Keys |-> "none"]
  /\ nvs = TRUE
  /\ job = [t \in Tasks |-> NoJob]
  /\ buf = Junk
  /\ reply = NoReply
  /\ rebooting = FALSE
  /\ slots = [s \in Slots |-> [image |-> IF s = 0 THEN "shipped" ELSE "broken",
                               whole |-> s = 0]]
  /\ boot = 0 /\ running = 0
  /\ s_active = FALSE
  /\ register = [b \in Bits |-> FALSE]
  /\ asks = 0 /\ losses = 0
  /\ clean = [t \in Tasks |-> TRUE]
  /\ promised = [k \in Keys |-> "none"]
  /\ applied = {}
  /\ uploaded = "none"
  /\ erased = FALSE

Next ==
  \/ handle_rpc_post \/ handle_downlink
  \/ handle_config_post \/ handle_log_level_post \/ handle_reboot
  \/ handle_ota_post \/ ota_update_write \/ ota_update_finish
  \/ \E t \in Tasks :
       \/ Dispatch(t) \/ rpc_set_config_json(t)
       \/ app_config_save(t) \/ nvs_set(t) \/ Saved(t)
       \/ ReadBit(t) \/ WriteBit(t) \/ AllApplied(t) \/ ListGone(t)
       \/ m_bms_write_registers(t)
  \/ factory_reset \/ esp_restart \/ PowerFails

Spec == Init /\ [][Next]_vars

-----------------------------------------------------------------------------
(* What was answered as saved is what the next start runs with, whatever   *)
(* the two tasks were doing when power failed, unless a later request named*)
(* the same setting or a factory reset came: provided the request that was *)
(* answered had the settings to itself from reading to writing them        *)
(* (app_config.c has no lock).                                             *)
SavedIsBooted ==
  [][Boot => \A k \in Keys : promised[k] = "none" \/ s_cfg'[k] = promised[k]]_vars

(* The restart after a factory reset runs with the defaults, also when a   *)
(* save was under way as the flash was erased, or came in the half second  *)
(* after (factory_reset.c:47-50).                                          *)
ResetBootsDefaults ==
  [][Boot /\ erased => \A k \in Keys : s_cfg'[k] = "default"]_vars

(* An upload answered as installed is what the next start runs, unless     *)
(* another upload was begun since: nothing that arrives broken or partly,  *)
(* and no restart asked for by the other task in its midst, is booted      *)
(* (web_server.c:920-957).                                                 *)
UploadIsBooted ==
  [][Boot => uploaded = "none" \/ slots[running'].image = uploaded]_vars

(* The bits a request was answered as having applied are the battery's, as *)
(* long as no later request names them: a request that had the dispatcher  *)
(* to itself changes the bits it names and no others (rpc_server.c:281-337)*)
AppliedIsWritten ==
  \A v \in applied : register[v.bit] = v.to

(* What the dispatcher answers is one JSON object ("JSON-RPC 2.0").        *)
AnswersAreJson == reply.open = 0
=============================================================================
