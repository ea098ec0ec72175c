----------------------------- MODULE EspRpc_proofs -----------------------------
(***************************************************************************)
(* What restarts keep on the esp32, for every set of requests, number of   *)
(* requests and of losses: settings that were answered as saved, the       *)
(* defaults after a factory reset, and an image answered as installed; and *)
(* that bits of the battery answered as set are set.                       *)
(***************************************************************************)
EXTENDS EspRpc, SequenceTheorems, TLAPS

(* What a request may store: a value out of range only where the page does *)
(* not look.                                                               *)
Legal(change) ==
  /\ DOMAIN change \subseteq Keys
  /\ \A k \in DOMAIN change :
       change[k] \in Values /\ (change[k] = "bad" => k = "uart_poll")

(* The parts of the state the arguments are about.                         *)
SettingsType ==
  /\ s_cfg \in [Keys -> Values]
  /\ flash \in [Keys -> Values \cup {"none"}]
  /\ promised \in [Keys -> Values \cup {"none"}]
  /\ nvs \in BOOLEAN /\ erased \in BOOLEAN
  /\ job = [t \in Tasks |-> job[t]]
  /\ clean \in [Tasks -> BOOLEAN]

(* What is in the dispatcher is a request that can be asked for.           *)
Askable(call) ==
  /\ call.method = "agent.setConfig" => call.change \in Changes
  /\ call.method = "bms.setParam" => call.values \in ParamLists
  /\ call.method = "bms.writeRegisters" => call.word \in [Bits -> BOOLEAN]

RequestInv == Askable(buf)

(* Nothing survives an erasure, and nothing is written after it.           *)
ErasedInv ==
  erased => /\ ~nvs
            /\ \A k \in Keys : flash[k] = "none" /\ promised[k] = "none"

(* Two tasks between reading and having written: neither is promised.      *)
AloneInv == Crowded(job) => \A t \in Tasks : ~clean[t]

(* What was promised is in memory, in flash, and in every copy that a task *)
(* is about to save without naming it.                                     *)
PromisedInv ==
  \A k \in Keys :
    promised[k] # "none" =>
      /\ promised[k] = "bad" => k = "uart_poll"
      /\ s_cfg[k] = promised[k] /\ flash[k] = promised[k]
      /\ \A t \in Tasks : job[t].at = "save" /\ k \notin DOMAIN job[t].change
                            => job[t].cfg[k] = promised[k]

(* How far task t has come with what it saves, if it had the settings to   *)
(* itself.                                                                 *)
Progress(t) ==
  /\ InSave(job[t]) => Legal(job[t].change)
  /\ job[t].at = "save" =>
       /\ job[t].cfg \in [Keys -> Values]
       /\ \A k \in DOMAIN job[t].change : job[t].cfg[k] = job[t].change[k]
  /\ job[t].at = "keys" => job[t].i \in DOMAIN Order
  /\ job[t].at \in {"keys", "saved"} /\ clean[t] =>
       \A k \in DOMAIN job[t].change : s_cfg[k] = job[t].change[k]
  /\ job[t].at = "keys" /\ clean[t] /\ nvs =>
       \A i \in 1 .. job[t].i - 1 :
         Order[i] \in DOMAIN job[t].change => flash[Order[i]] = s_cfg[Order[i]]
  /\ job[t].at = "saved" /\ clean[t] /\ nvs =>
       \A k \in DOMAIN job[t].change : flash[k] = s_cfg[k]

SaveInv ==
  /\ SettingsType /\ RequestInv /\ ErasedInv /\ AloneInv /\ PromisedInv
  /\ \A t \in Tasks : Progress(t)

-----------------------------------------------------------------------------
(* The order of the keys, one by one.                                      *)
LEMMA OrderIs ==
  /\ DOMAIN Order = 1 .. 3 /\ Len(Order) = 3
  /\ Order[1] = "uart_poll" /\ Order[2] = "mq_smpl" /\ Order[3] = "log_level"
BY DEF Order

LEMMA KeysAre == Keys = {"uart_poll", "mq_smpl", "log_level"}
BY OrderIs DEF Keys, Range

(* A merged configuration has what was named and keeps the rest.           *)
LEMMA Merged ==
  ASSUME NEW cfg \in [Keys -> Values], NEW change, Legal(change)
  PROVE  /\ Merge(cfg, change) \in [Keys -> Values]
         /\ \A k \in DOMAIN change : Merge(cfg, change)[k] = change[k]
         /\ \A k \in Keys \ DOMAIN change : Merge(cfg, change)[k] = cfg[k]
BY DEF Merge, Legal

(* What rpc_set_config_json and the pages let through is legal.            *)
LEMMA AcceptedIsLegal ==
  ASSUME NEW change \in Changes, ~Refused(change)
  PROVE  Legal(change) /\ Legal(Accepted(change))
<1>1. DOMAIN change \subseteq Keys /\ \A k \in DOMAIN change : change[k] \in Values
  BY RpcAssumption DEF Range
<1>2. Legal(change)
  BY <1>1 DEF Refused, Legal
<1> QED BY <1>1, <1>2 DEF Legal, Accepted, Restrict

(* What goes on with one task leaves the other where it is.                *)
LEMMA Continued ==
  ASSUME SettingsType, NEW t \in Tasks, NEW j, NEW call, Continues(t, j, call)
  PROVE  /\ job' = [u \in Tasks |-> job'[u]]
         /\ job'[t] = j /\ \A u \in Tasks \ {t} : job'[u] = job[u]
         /\ clean' \in [Tasks -> BOOLEAN]
         /\ Crowded(job') => \A u \in Tasks : ~clean'[u]
         /\ \A u \in Tasks : clean'[u] => clean[u] \/ job[u].at = "idle"
BY DEF SettingsType, Continues

-----------------------------------------------------------------------------
(* The kinds of steps, as far as settings are concerned.                   *)

(* Some task does something else than begin to save.                       *)
Elsewhere ==
  /\ UNCHANGED <<settings, promised, erased>>
  /\ \E t \in Tasks : \E j, call :
       j.at \notin {"save", "keys", "saved"} /\ Continues(t, j, call)

(* A task has read the settings and will save them with a change.          *)
BeginsToSave ==
  /\ UNCHANGED <<settings, promised, erased>>
  /\ \E t \in Tasks : \E change, how, reboots, call :
       /\ Legal(change)
       /\ Continues(t, [at |-> "save", how |-> how, change |-> change,
                        cfg |-> Merge(s_cfg, change), reboots |-> reboots], call)

(* Requests that end at once, or go on outside the settings.               *)
LEMMA ElsewhereSteps ==
  ASSUME \/ handle_rpc_post \/ handle_downlink \/ handle_reboot \/ handle_ota_post
         \/ ota_update_write \/ ota_update_finish
         \/ \E t \in Tasks : \/ Dispatch(t) \/ ReadBit(t) \/ WriteBit(t) \/ AllApplied(t)
                             \/ ListGone(t) \/ m_bms_write_registers(t)
  PROVE  Elsewhere
<1> USE DEF Elsewhere, Goes, Answers, NoJob, Tasks
<1>1. CASE handle_rpc_post
  BY <1>1 DEF handle_rpc_post, rpc_server_handle
<1>2. CASE handle_downlink
  BY <1>2 DEF handle_downlink, rpc_server_handle
<1>3. CASE handle_reboot
  BY <1>3 DEF handle_reboot
<1>4. CASE handle_ota_post
  BY <1>4 DEF handle_ota_post
<1>5. CASE ota_update_write
  BY <1>5 DEF ota_update_write
<1>6. CASE ota_update_finish
  BY <1>6 DEF ota_update_finish
<1>7. ASSUME NEW t \in Tasks, Dispatch(t) PROVE Elsewhere
  BY <1>7 DEF Dispatch
<1>8. ASSUME NEW t \in Tasks, ReadBit(t) PROVE Elsewhere
  BY <1>8 DEF ReadBit
<1>9. ASSUME NEW t \in Tasks, WriteBit(t) PROVE Elsewhere
  BY <1>9 DEF WriteBit
<1>10. ASSUME NEW t \in Tasks, AllApplied(t) PROVE Elsewhere
  BY <1>10 DEF AllApplied
<1>11. ASSUME NEW t \in Tasks, ListGone(t) PROVE Elsewhere
  BY <1>11 DEF ListGone
<1>12. ASSUME NEW t \in Tasks, m_bms_write_registers(t) PROVE Elsewhere
  BY <1>12 DEF m_bms_write_registers
<1> QED BY <1>1, <1>2, <1>3, <1>4, <1>5, <1>6, <1>7, <1>8, <1>9, <1>10, <1>11, <1>12

(* Requests that read the settings are refused, or begin to save them.     *)
LEMMA SavingSteps ==
  ASSUME RequestInv,
         \/ handle_config_post \/ handle_log_level_post
         \/ \E t \in Tasks : rpc_set_config_json(t)
  PROVE  Elsewhere \/ BeginsToSave
<1>1. CASE handle_config_post
  <2>1. PICK change \in Changes :
          IF Refused(change) THEN Answers("httpd", Error)
          ELSE Goes("httpd", [at |-> "save", how |-> "page", change |-> change,
                              cfg |-> Merge(s_cfg, change), reboots |-> TRUE])
    BY <1>1 DEF handle_config_post
  <2>2. UNCHANGED <<settings, promised, erased>>
    BY <1>1 DEF handle_config_post
  <2>3. CASE Refused(change)
    BY <2>1, <2>2, <2>3 DEF Elsewhere, Answers, Goes, NoJob, Tasks
  <2>4. CASE ~Refused(change)
    BY <2>1, <2>2, <2>4, AcceptedIsLegal DEF BeginsToSave, Goes, Tasks
  <2> QED BY <2>3, <2>4
<1>2. CASE handle_log_level_post
  <2>1. PICK level \in Values :
          IF level = "bad" THEN Answers("httpd", Error)
          ELSE Goes("httpd", [at |-> "save", how |-> "page",
                              change |-> [k \in {"log_level"} |-> level],
                              cfg |-> Merge(s_cfg, [k \in {"log_level"} |-> level]),
                              reboots |-> FALSE])
    BY <1>2 DEF handle_log_level_post
  <2>2. UNCHANGED <<settings, promised, erased>>
    BY <1>2 DEF handle_log_level_post
  <2>3. CASE level = "bad"
    BY <2>1, <2>2, <2>3 DEF Elsewhere, Answers, Goes, NoJob, Tasks
  <2>4. CASE level # "bad"
    <3>1. Legal([k \in {"log_level"} |-> level])
      BY <2>4, KeysAre DEF Legal
    <3> QED BY <2>1, <2>2, <2>4, <3>1 DEF BeginsToSave, Goes, Tasks
  <2> QED BY <2>3, <2>4
<1>3. ASSUME NEW t \in Tasks, rpc_set_config_json(t) PROVE Elsewhere \/ BeginsToSave
  <2>1. UNCHANGED <<settings, promised, erased>> /\ buf.change \in Changes
    BY <1>3 DEF rpc_set_config_json, RequestInv, Askable
  <2>2. CASE Refused(buf.change)
    BY <1>3, <2>1, <2>2 DEF rpc_set_config_json, Elsewhere, Answers, Goes, NoJob
  <2>3. CASE ~Refused(buf.change)
    BY <1>3, <2>1, <2>3, AcceptedIsLegal DEF rpc_set_config_json, BeginsToSave, Goes
  <2> QED BY <2>2, <2>3
<1> QED BY <1>1, <1>2, <1>3

-----------------------------------------------------------------------------
(* SaveInv is inductive, kind by kind.                                     *)
LEMMA SaveInvInit == ASSUME Init PROVE SaveInv
<1> USE DEF Init
<1>1. SettingsType
  BY KeysAre DEF SettingsType, Values, Tasks
<1>2. RequestInv /\ ErasedInv /\ PromisedInv
  BY DEF RequestInv, Askable, ErasedInv, PromisedInv, Junk
<1>3. AloneInv /\ \A t \in Tasks : Progress(t)
  BY DEF AloneInv, Progress, NoJob, Tasks, Crowded, Together, InDispatch, InSave
<1> QED BY <1>1, <1>2, <1>3 DEF SaveInv

(* What a task does outside the settings leaves all promises as they are.  *)
LEMMA ElsewhereKeeps ==
  ASSUME SaveInv, Elsewhere
  PROVE  SettingsType' /\ ErasedInv' /\ AloneInv' /\ PromisedInv' /\ \A t \in Tasks : Progress(t)'
<1>1. PICK t, j, call :
      /\ t \in Tasks
      /\ j.at \notin {"save", "keys", "saved"} /\ Continues(t, j, call)
  BY DEF Elsewhere
<1>2. UNCHANGED <<s_cfg, flash, nvs, promised, erased>>
  BY DEF Elsewhere, settings
<1>3. /\ job' = [u \in Tasks |-> job'[u]]
      /\ job'[t] = j /\ \A u \in Tasks \ {t} : job'[u] = job[u]
      /\ clean' \in [Tasks -> BOOLEAN]
      /\ Crowded(job') => \A u \in Tasks : ~clean'[u]
      /\ \A u \in Tasks : clean'[u] => clean[u] \/ job[u].at = "idle"
  BY <1>1, Continued DEF SaveInv
<1>4. SettingsType' /\ ErasedInv' /\ AloneInv'
  BY <1>2, <1>3 DEF SaveInv, SettingsType, ErasedInv, AloneInv, Crowded
<1>5. PromisedInv'
  BY <1>1, <1>2, <1>3 DEF SaveInv, PromisedInv
<1>6. ASSUME NEW u \in Tasks PROVE Progress(u)'
  <2>1. CASE u = t
    BY <1>1, <1>3, <2>1 DEF Progress, InSave
  <2>2. CASE u # t
    BY <1>2, <1>3, <2>2 DEF SaveInv, Progress, InSave
  <2> QED BY <2>1, <2>2
<1> QED BY <1>4, <1>5, <1>6

(* A copy of the settings has what is promised and what was asked for.     *)
LEMMA BeginsToSaveKeeps ==
  ASSUME SaveInv, BeginsToSave
  PROVE  SettingsType' /\ ErasedInv' /\ AloneInv' /\ PromisedInv' /\ \A t \in Tasks : Progress(t)'
<1>1. PICK t, change, how, reboots, call :
      /\ t \in Tasks
      /\ Legal(change)
      /\ Continues(t, [at |-> "save", how |-> how, change |-> change,
                       cfg |-> Merge(s_cfg, change), reboots |-> reboots], call)
  BY DEF BeginsToSave
<1> DEFINE j == [at |-> "save", how |-> how, change |-> change,
                 cfg |-> Merge(s_cfg, change), reboots |-> reboots]
<1>2. UNCHANGED <<s_cfg, flash, nvs, promised, erased>>
  BY DEF BeginsToSave, settings
<1>3. /\ job' = [u \in Tasks |-> job'[u]]
      /\ job'[t] = j /\ \A u \in Tasks \ {t} : job'[u] = job[u]
      /\ clean' \in [Tasks -> BOOLEAN]
      /\ Crowded(job') => \A u \in Tasks : ~clean'[u]
      /\ \A u \in Tasks : clean'[u] => clean[u] \/ job[u].at = "idle"
  BY <1>1, Continued DEF SaveInv
<1>4. SettingsType' /\ ErasedInv' /\ AloneInv'
  BY <1>2, <1>3 DEF SaveInv, SettingsType, ErasedInv, AloneInv, Crowded
<1>5. /\ j.at = "save" /\ j.change = change /\ j.cfg \in [Keys -> Values]
      /\ \A k \in DOMAIN change : j.cfg[k] = change[k]
      /\ \A k \in Keys \ DOMAIN change : j.cfg[k] = s_cfg[k]
  BY <1>1, Merged DEF SaveInv, SettingsType
<1> HIDE DEF j
<1>6. PromisedInv'
  BY <1>2, <1>3, <1>5 DEF SaveInv, PromisedInv
<1>7. ASSUME NEW u \in Tasks PROVE Progress(u)'
  <2>1. CASE u = t
    BY <1>1, <1>3, <1>5, <2>1 DEF Progress, InSave
  <2>2. CASE u # t
    BY <1>2, <1>3, <2>2 DEF SaveInv, Progress, InSave
  <2> QED BY <2>1, <2>2
<1> QED BY <1>4, <1>6, <1>7

(* A request carries what can be asked for with it.                        *)
LEMMA CallsCarry ==
  /\ \A call \in Calls : Askable(call)
  /\ Askable(Junk)
BY DEF Calls, Junk, Askable

(* The dispatcher has a request that was asked for, or what is left there  *)
(* of one.                                                                 *)
LEMMA RequestStep ==
  ASSUME RequestInv, [Next]_vars
  PROVE  RequestInv'
<1>1. ASSUME NEW t, NEW j, NEW call, Continues(t, j, call),
             Askable(call)
      PROVE  RequestInv'
  <2>1. Askable(buf')
    BY <1>1, CallsCarry DEF Continues
  <2> QED BY <2>1 DEF RequestInv, Askable
<1>2. ASSUME NEW t, NEW j, Goes(t, j) PROVE RequestInv'
  BY <1>1, <1>2 DEF Goes, RequestInv
<1>3. ASSUME NEW t, NEW r, Answers(t, r) PROVE RequestInv'
  BY <1>2, <1>3 DEF Answers
<1>4. CASE handle_rpc_post
  BY <1>1, <1>4, CallsCarry DEF handle_rpc_post, rpc_server_handle
<1>5. CASE handle_downlink
  <2>1. PICK call \in Calls, long \in BOOLEAN :
          rpc_server_handle("uplink", IF long THEN Junk ELSE call)
    BY <1>5 DEF handle_downlink
  <2> QED BY <1>1, <2>1, CallsCarry DEF rpc_server_handle
<1>6. CASE handle_config_post \/ handle_log_level_post \/ handle_reboot
  <2>1. CASE handle_config_post
    BY <1>2, <1>3, <2>1 DEF handle_config_post
  <2>2. CASE handle_log_level_post
    BY <1>2, <1>3, <2>2 DEF handle_log_level_post
  <2>3. CASE handle_reboot
    BY <1>3, <2>3 DEF handle_reboot
  <2> QED BY <1>6, <2>1, <2>2, <2>3
<1>7. CASE handle_ota_post \/ ota_update_write \/ ota_update_finish
  <2>1. CASE handle_ota_post
    BY <1>2, <1>3, <2>1 DEF handle_ota_post
  <2>2. CASE ota_update_write
    BY <1>2, <1>3, <2>2 DEF ota_update_write
  <2>3. CASE ota_update_finish
    BY <1>3, <2>3 DEF ota_update_finish
  <2> QED BY <1>7, <2>1, <2>2, <2>3
<1>8. ASSUME NEW t \in Tasks,
             Dispatch(t) \/ rpc_set_config_json(t) \/ m_bms_write_registers(t) \/ ListGone(t)
      PROVE  RequestInv'
  <2>1. CASE Dispatch(t)
    BY <1>3, <2>1 DEF Dispatch
  <2>2. CASE rpc_set_config_json(t)
    BY <1>2, <1>3, <2>2 DEF rpc_set_config_json
  <2>3. CASE m_bms_write_registers(t)
    BY <1>3, <2>3 DEF m_bms_write_registers
  <2>4. CASE ListGone(t)
    BY <1>3, <2>4 DEF ListGone
  <2> QED BY <1>8, <2>1, <2>2, <2>3, <2>4
<1>9. ASSUME NEW t \in Tasks, app_config_save(t) \/ nvs_set(t) \/ Saved(t)
      PROVE  RequestInv'
  <2>1. CASE app_config_save(t)
    BY <1>2, <2>1 DEF app_config_save
  <2>2. CASE nvs_set(t)
    BY <1>2, <2>2 DEF nvs_set
  <2>3. CASE Saved(t)
    BY <1>3, <2>3 DEF Saved
  <2> QED BY <1>9, <2>1, <2>2, <2>3
<1>10. ASSUME NEW t \in Tasks, ReadBit(t) \/ WriteBit(t) \/ AllApplied(t)
       PROVE  RequestInv'
  <2>1. CASE ReadBit(t)
    BY <1>2, <1>3, <2>1 DEF ReadBit
  <2>2. CASE WriteBit(t)
    BY <1>2, <1>3, <2>2 DEF WriteBit
  <2>3. CASE AllApplied(t)
    BY <1>3, <2>3 DEF AllApplied
  <2> QED BY <1>10, <2>1, <2>2, <2>3
<1>11. CASE factory_reset \/ UNCHANGED vars
  BY <1>11 DEF factory_reset, vars, RequestInv
<1>12. CASE esp_restart \/ PowerFails
  BY <1>12, CallsCarry DEF esp_restart, PowerFails, Boot, RequestInv
<1> QED BY <1>4, <1>5, <1>6, <1>7, <1>8, <1>9, <1>10, <1>11, <1>12 DEF Next

(* A task writes the settings it has copied to memory, where they differ   *)
(* from what is promised only in what it names.                            *)
LEMMA AppConfigSaveKeeps ==
  ASSUME SaveInv, NEW t \in Tasks, app_config_save(t)
  PROVE  SettingsType' /\ ErasedInv' /\ AloneInv' /\ PromisedInv' /\ \A u \in Tasks : Progress(u)'
<1> DEFINE j == At(IF nvs THEN "keys" ELSE "saved", 1, job[t])
<1>1. /\ job' = [u \in Tasks |-> job'[u]]
      /\ job'[t] = j /\ \A u \in Tasks \ {t} : job'[u] = job[u]
      /\ clean' \in [Tasks -> BOOLEAN]
      /\ Crowded(job') => \A u \in Tasks : ~clean'[u]
      /\ \A u \in Tasks : clean'[u] => clean[u] \/ job[u].at = "idle"
  BY Continued DEF SaveInv, app_config_save, Goes
<1>2. /\ job[t].at = "save" /\ s_cfg' = job[t].cfg
      /\ UNCHANGED <<flash, nvs, erased>>
      /\ promised' = [k \in Keys |-> IF k \in DOMAIN job[t].change THEN "none" ELSE promised[k]]
  BY DEF app_config_save
<1>3. /\ j.at = (IF nvs THEN "keys" ELSE "saved") /\ j.i = 1 /\ j.change = job[t].change
  BY DEF At
<1> HIDE DEF j
<1>4. /\ Legal(job[t].change) /\ job[t].cfg \in [Keys -> Values]
      /\ \A k \in DOMAIN job[t].change : job[t].cfg[k] = job[t].change[k]
  BY <1>2 DEF SaveInv, Progress, InSave
<1>5. SettingsType' /\ AloneInv'
  BY <1>1, <1>2, <1>4 DEF SaveInv, SettingsType, AloneInv, Crowded
<1>6. ErasedInv'
  BY <1>2 DEF SaveInv, ErasedInv
<1>7. PromisedInv'
  BY <1>1, <1>2, <1>3, <1>4 DEF SaveInv, PromisedInv
<1>8. ASSUME NEW u \in Tasks, u # t, clean'[u] PROVE ~InSave(job[u])
  BY <1>1, <1>2, <1>3, <1>8 DEF Crowded, Together, InSave, Tasks
<1>9. ASSUME NEW u \in Tasks PROVE Progress(u)'
  <2>1. CASE u = t
    BY <1>1, <1>2, <1>3, <1>4, <2>1, OrderIs DEF Progress, InSave
  <2>2. CASE u # t
    BY <1>1, <1>2, <1>8, <2>2 DEF SaveInv, Progress, InSave
  <2> QED BY <2>1, <2>2
<1> QED BY <1>5, <1>6, <1>7, <1>9

(* A task writes the next key from memory: what is promised is there       *)
(* already, and what it saves itself gets one key further.                 *)
LEMMA NvsSetKeeps ==
  ASSUME SaveInv, NEW t \in Tasks, nvs_set(t)
  PROVE  SettingsType' /\ ErasedInv' /\ AloneInv' /\ PromisedInv' /\ \A u \in Tasks : Progress(u)'
<1> DEFINE i == job[t].i
           last == i = Len(Order)
           j == IF last THEN At("saved", 1, job[t]) ELSE At("keys", i + 1, job[t])
<1>1. /\ job' = [u \in Tasks |-> job'[u]]
      /\ job'[t] = j /\ \A u \in Tasks \ {t} : job'[u] = job[u]
      /\ clean' \in [Tasks -> BOOLEAN]
      /\ Crowded(job') => \A u \in Tasks : ~clean'[u]
      /\ \A u \in Tasks : clean'[u] => clean[u] \/ job[u].at = "idle"
  BY Continued DEF SaveInv, nvs_set, Goes
<1>2. /\ job[t].at = "keys"
      /\ flash' = IF nvs THEN [flash EXCEPT ![Order[i]] = s_cfg[Order[i]]] ELSE flash
      /\ UNCHANGED <<s_cfg, nvs, promised, erased>>
  BY DEF nvs_set
<1>3. i \in 1 .. 3 /\ Order[i] \in Keys
  BY <1>2, OrderIs, KeysAre DEF SaveInv, Progress
<1>4. /\ j.change = job[t].change
      /\ last => j.at = "saved"
      /\ ~last => j.at = "keys" /\ j.i = i + 1 /\ i + 1 \in 1 .. 3
  BY <1>3, OrderIs DEF At
<1> HIDE DEF j
<1>5. SettingsType' /\ AloneInv'
  BY <1>1, <1>2, <1>3 DEF SaveInv, SettingsType, AloneInv, Crowded
<1>6. ErasedInv'
  BY <1>2 DEF SaveInv, ErasedInv
<1>7. flash' \in [Keys -> Values \cup {"none"}]
  BY <1>5 DEF SettingsType
<1>8. \A k \in Keys : flash'[k] = IF nvs /\ k = Order[i] THEN s_cfg[k] ELSE flash[k]
  BY <1>2, <1>3 DEF SaveInv, SettingsType
<1>9. PromisedInv'
  BY <1>1, <1>2, <1>4, <1>8 DEF SaveInv, PromisedInv
<1>10. ASSUME NEW u \in Tasks, u # t, clean'[u] PROVE ~InSave(job[u])
  BY <1>1, <1>2, <1>4, <1>10 DEF Crowded, Together, InSave, Tasks
<1>11. Legal(job[t].change) /\ (clean'[t] => clean[t])
  BY <1>1, <1>2 DEF SaveInv, Progress, InSave
<1>12. ASSUME clean'[t], nvs, NEW m \in 1 .. i, Order[m] \in DOMAIN job[t].change
       PROVE  flash'[Order[m]] = s_cfg[Order[m]]
  <2>1. Order[m] \in Keys
    BY <1>11, <1>12 DEF Legal
  <2>2. CASE m = i
    BY <1>8, <1>12, <2>1, <2>2
  <2>3. CASE m < i
    <3>1. flash[Order[m]] = s_cfg[Order[m]]
      BY <1>2, <1>3, <1>11, <1>12, <2>3 DEF SaveInv, Progress
    <3> QED BY <1>8, <1>12, <2>1, <3>1
  <2> QED BY <1>3, <2>2, <2>3
<1>13. ASSUME NEW u \in Tasks PROVE Progress(u)'
  <2>1. CASE u # t
    <3>1. CASE InSave(job[u])
      BY <1>1, <1>2, <1>10, <2>1, <3>1 DEF SaveInv, Progress, InSave
    <3>2. CASE ~InSave(job[u])
      BY <1>1, <1>2, <2>1, <3>2 DEF SaveInv, Progress, InSave
    <3> QED BY <3>1, <3>2
  <2>2. CASE u = t /\ last
    <3>1. ASSUME clean'[t], nvs, NEW k \in DOMAIN job[t].change PROVE flash'[k] = s_cfg[k]
      <4>1. PICK m \in 1 .. 3 : k = Order[m]
        BY <1>11, <3>1, OrderIs, KeysAre DEF Legal
      <4> QED BY <1>12, <2>2, <3>1, <4>1, OrderIs
    <3> QED BY <1>1, <1>2, <1>4, <1>11, <2>2, <3>1 DEF SaveInv, Progress, InSave
  <2>3. CASE u = t /\ ~last
    BY <1>1, <1>2, <1>3, <1>4, <1>11, <1>12, <2>3, OrderIs DEF SaveInv, Progress, InSave
  <2> QED BY <2>1, <2>2, <2>3
<1> QED BY <1>5, <1>6, <1>9, <1>13

(* A task answers: what it promises now is in memory and in flash.         *)
LEMMA SavedKeeps ==
  ASSUME SaveInv, NEW t \in Tasks, Saved(t)
  PROVE  SettingsType' /\ ErasedInv' /\ AloneInv' /\ PromisedInv' /\ \A u \in Tasks : Progress(u)'
<1> DEFINE c == job[t].change
<1>1. /\ job' = [u \in Tasks |-> job'[u]]
      /\ job'[t] = NoJob /\ \A u \in Tasks \ {t} : job'[u] = job[u]
      /\ clean' \in [Tasks -> BOOLEAN]
      /\ Crowded(job') => \A u \in Tasks : ~clean'[u]
      /\ \A u \in Tasks : clean'[u] => clean[u] \/ job[u].at = "idle"
  BY Continued DEF SaveInv, Saved, Answers, Goes
<1>2. /\ job[t].at = "saved" /\ UNCHANGED <<s_cfg, flash, nvs, erased>>
      /\ promised' = IF clean[t] /\ nvs THEN Merge(promised, c) ELSE promised
  BY DEF Saved, settings
<1>3. /\ Legal(c)
      /\ clean[t] => \A k \in DOMAIN c : s_cfg[k] = c[k]
      /\ clean[t] /\ nvs => \A k \in DOMAIN c : flash[k] = s_cfg[k]
  BY <1>2 DEF SaveInv, Progress, InSave
<1>4. promised' \in [Keys -> Values \cup {"none"}]
  BY <1>2, <1>3 DEF SaveInv, SettingsType, Merge, Legal
<1>5. SettingsType' /\ AloneInv'
  BY <1>1, <1>2, <1>4 DEF SaveInv, SettingsType, AloneInv, Crowded
<1>6. ErasedInv'
  BY <1>2 DEF SaveInv, ErasedInv
<1>7. ASSUME clean[t], NEW u \in Tasks, u # t PROVE job[u].at # "save"
  BY <1>2, <1>7 DEF SaveInv, AloneInv, Crowded, Together, InSave, Tasks
<1>8. PromisedInv'
  <2>1. CASE clean[t] /\ nvs
    <3>1. \A u \in Tasks : job'[u].at # "save"
      BY <1>1, <1>7, <2>1 DEF NoJob
    <3>2. \A k \in Keys : promised'[k] = IF k \in DOMAIN c THEN c[k] ELSE promised[k]
      BY <1>2, <2>1 DEF Merge
    <3> QED BY <1>2, <1>3, <2>1, <3>1, <3>2 DEF SaveInv, PromisedInv, Legal
  <2>2. CASE ~(clean[t] /\ nvs)
    BY <1>1, <1>2, <2>2 DEF SaveInv, PromisedInv, NoJob
  <2> QED BY <2>1, <2>2
<1>9. ASSUME NEW u \in Tasks PROVE Progress(u)'
  <2>1. CASE u = t
    BY <1>1, <2>1 DEF Progress, InSave, NoJob
  <2>2. CASE u # t
    BY <1>1, <1>2, <2>2 DEF SaveInv, Progress, InSave
  <2> QED BY <2>1, <2>2
<1> QED BY <1>5, <1>6, <1>8, <1>9

(* A factory reset takes every promise back.                               *)
LEMMA FactoryResetKeeps ==
  ASSUME SaveInv, factory_reset
  PROVE  SettingsType' /\ ErasedInv' /\ AloneInv' /\ PromisedInv' /\ \A u \in Tasks : Progress(u)'
<1> USE DEF factory_reset
<1>1. SettingsType' /\ ErasedInv' /\ AloneInv' /\ PromisedInv'
  BY DEF SaveInv, SettingsType, ErasedInv, AloneInv, PromisedInv, Crowded
<1>2. ASSUME NEW u \in Tasks PROVE Progress(u)'
  BY DEF SaveInv, Progress, InSave
<1> QED BY <1>1, <1>2

(* What is loaded is what is promised, and a default where nothing is      *)
(* stored.                                                                 *)
LEMMA Loaded ==
  ASSUME SaveInv
  PROVE  /\ app_config_init(flash) \in [Keys -> Values]
         /\ \A k \in Keys : promised[k] # "none" => app_config_init(flash)[k] = promised[k]
         /\ erased => \A k \in Keys : app_config_init(flash)[k] = "default"
BY DEF SaveInv, SettingsType, PromisedInv, ErasedInv, app_config_init, Values

(* A start knows of no request under way.                                  *)
LEMMA BootKeeps ==
  ASSUME SaveInv, Boot
  PROVE  SettingsType' /\ ErasedInv' /\ AloneInv' /\ PromisedInv' /\ \A u \in Tasks : Progress(u)'
<1> USE DEF Boot
<1>1. SettingsType' /\ ErasedInv'
  BY Loaded DEF SaveInv, SettingsType, ErasedInv
<1>2. PromisedInv'
  BY Loaded DEF SaveInv, PromisedInv, NoJob
<1>3. AloneInv' /\ \A u \in Tasks : Progress(u)'
  BY DEF AloneInv, Progress, NoJob, Tasks, Crowded, Together, InDispatch, InSave
<1> QED BY <1>1, <1>2, <1>3

LEMMA SaveInvStep == ASSUME SaveInv, [Next]_vars PROVE SaveInv'
<1>1. RequestInv'
  BY RequestStep DEF SaveInv
<1>2. CASE Elsewhere
  BY <1>1, <1>2, ElsewhereKeeps DEF SaveInv
<1>3. CASE BeginsToSave
  BY <1>1, <1>3, BeginsToSaveKeeps DEF SaveInv
<1>4. ASSUME NEW t \in Tasks, app_config_save(t) PROVE SaveInv'
  BY <1>1, <1>4, AppConfigSaveKeeps DEF SaveInv
<1>5. ASSUME NEW t \in Tasks, nvs_set(t) PROVE SaveInv'
  BY <1>1, <1>5, NvsSetKeeps DEF SaveInv
<1>6. ASSUME NEW t \in Tasks, Saved(t) PROVE SaveInv'
  BY <1>1, <1>6, SavedKeeps DEF SaveInv
<1>7. CASE factory_reset
  BY <1>1, <1>7, FactoryResetKeeps DEF SaveInv
<1>8. CASE esp_restart \/ PowerFails
  BY <1>1, <1>8, BootKeeps DEF SaveInv, esp_restart, PowerFails
<1>9. CASE UNCHANGED vars
  <2>1. SettingsType' /\ ErasedInv' /\ AloneInv' /\ PromisedInv'
    BY <1>9 DEF SaveInv, SettingsType, ErasedInv, AloneInv, PromisedInv, Crowded, vars, settings
  <2>2. ASSUME NEW u \in Tasks PROVE Progress(u)'
    BY <1>9 DEF SaveInv, Progress, vars, settings
  <2> QED BY <1>1, <2>1, <2>2 DEF SaveInv
<1>10. Elsewhere \/ BeginsToSave \/ factory_reset \/ esp_restart \/ PowerFails \/ UNCHANGED vars
         \/ \E t \in Tasks : app_config_save(t) \/ nvs_set(t) \/ Saved(t)
  BY ElsewhereSteps, SavingSteps DEF SaveInv, Next
<1> QED BY <1>2, <1>3, <1>4, <1>5, <1>6, <1>7, <1>8, <1>9, <1>10

LEMMA SaveInvariant == Spec => []SaveInv
<1>1. Init => SaveInv
  BY SaveInvInit
<1>2. SaveInv /\ [Next]_vars => SaveInv'
  BY SaveInvStep
<1> QED BY <1>1, <1>2, PTL DEF Spec

(* What a request was answered as having saved is what the next start runs *)
(* with, wherever the two tasks were when power failed, if the request had *)
(* the settings to itself from reading to writing them: app_config_save    *)
(* writes each key from memory, and app_config_init takes it back unless   *)
(* it is out of range, which rpc_set_config_json and the pages refused.    *)
THEOREM SavedSurvives == Spec => SavedIsBooted
<1>1. SaveInv /\ [Next]_vars =>
        [Boot => \A k \in Keys : promised[k] = "none" \/ s_cfg'[k] = promised[k]]_vars
  BY Loaded DEF Boot
<1> QED BY <1>1, SaveInvariant, PTL DEF Spec, SavedIsBooted

(* The restart after factory_reset runs with the defaults, whatever saves  *)
(* were under way: nvs_flash_erase closed NVS and nothing opens it before  *)
(* the restart.                                                            *)
THEOREM ResetLeavesDefaults == Spec => ResetBootsDefaults
<1>1. SaveInv /\ [Next]_vars =>
        [Boot /\ erased => \A k \in Keys : s_cfg'[k] = "default"]_vars
  BY Loaded DEF Boot
<1> QED BY <1>1, SaveInvariant, PTL DEF Spec, ResetBootsDefaults

-----------------------------------------------------------------------------
(* The image to boot is whole, and the one answered as installed, as long  *)
(* as no later upload was begun.                                           *)
UploadInv ==
  /\ slots \in [Slots -> [image : Images, whole : BOOLEAN]]
  /\ boot \in Slots /\ running \in Slots
  /\ uploaded # "none" => slots[boot].whole /\ slots[boot].image = uploaded

(* Only the upload and a start touch the images.                           *)
LEMMA ImagesAreAlone ==
  ASSUME [Next]_vars
  PROVE  \/ UNCHANGED <<slots, boot, running, uploaded>>
         \/ handle_ota_post \/ ota_update_finish \/ Boot
<1> USE DEF ota
<1>1. CASE handle_rpc_post \/ handle_downlink
  BY <1>1 DEF handle_rpc_post, handle_downlink, rpc_server_handle
<1>2. CASE handle_config_post \/ handle_log_level_post \/ handle_reboot
  BY <1>2 DEF handle_config_post, handle_log_level_post, handle_reboot
<1>3. CASE ota_update_write
  BY <1>3 DEF ota_update_write
<1>4. ASSUME NEW t \in Tasks,
             Dispatch(t) \/ rpc_set_config_json(t) \/ app_config_save(t) \/ nvs_set(t) \/ Saved(t)
      PROVE  UNCHANGED ota
  BY <1>4 DEF Dispatch, rpc_set_config_json, app_config_save, nvs_set, Saved
<1>5. ASSUME NEW t \in Tasks,
             ReadBit(t) \/ WriteBit(t) \/ AllApplied(t) \/ ListGone(t) \/ m_bms_write_registers(t)
      PROVE  UNCHANGED ota
  BY <1>5 DEF ReadBit, WriteBit, AllApplied, ListGone, m_bms_write_registers
<1>6. CASE factory_reset
  BY <1>6 DEF factory_reset
<1>7. CASE esp_restart \/ PowerFails
  BY <1>7 DEF esp_restart, PowerFails
<1>8. CASE UNCHANGED vars
  BY <1>8 DEF vars
<1> QED BY <1>1, <1>2, <1>3, <1>4, <1>5, <1>6, <1>7, <1>8 DEF Next

LEMMA UploadInvStep == ASSUME UploadInv, [Next]_vars PROVE UploadInv'
<1> USE DEF UploadInv
<1>1. running \in {0, 1} /\ 1 - running \in Slots /\ boot \in Slots
  BY DEF Slots
<1>2. CASE UNCHANGED <<slots, boot, running, uploaded>>
  BY <1>2
<1>3. CASE handle_ota_post
  <2>1. CASE s_active
    BY <1>3, <2>1 DEF handle_ota_post, ota
  <2>2. CASE ~s_active
    <3>1. PICK image \in Images :
            slots' = [slots EXCEPT ![1 - running] = [image |-> image, whole |-> FALSE]]
      BY <1>3, <2>2 DEF handle_ota_post
    <3>2. uploaded' = "none" /\ UNCHANGED <<boot, running>>
      BY <1>3, <2>2 DEF handle_ota_post
    <3>3. slots' \in [Slots -> [image : Images, whole : BOOLEAN]]
      BY <1>1, <3>1
    <3> QED BY <3>2, <3>3
  <2> QED BY <2>1, <2>2
<1>4. CASE ota_update_finish
  <2>1. CASE slots[1 - running].image = "broken"
    BY <1>4, <2>1 DEF ota_update_finish
  <2>2. CASE slots[1 - running].image # "broken"
    <3> DEFINE target == 1 - running
               slot == [slots[target] EXCEPT !.whole = TRUE]
    <3>1. /\ slots' = [slots EXCEPT ![target] = slot]
          /\ boot' = target /\ uploaded' = slots[target].image /\ UNCHANGED running
      BY <1>4, <2>2 DEF ota_update_finish
    <3>2. target \in Slots /\ slots[target] \in [image : Images, whole : BOOLEAN]
      BY <1>1
    <3>3. slot \in [image : Images, whole : BOOLEAN] /\ slot.whole /\ slot.image = slots[target].image
      <4> HIDE DEF target
      <4> QED BY <3>2
    <3> HIDE DEF target, slot
    <3> QED BY <3>1, <3>2, <3>3
  <2> QED BY <2>1, <2>2
<1>5. CASE Boot
  BY <1>5 DEF Boot, Bootloader, Slots
<1> QED BY <1>2, <1>3, <1>4, <1>5, ImagesAreAlone

(* An upload answered as installed is what the next start runs, for any    *)
(* number of parts, whatever broke off before it or was asked for in its   *)
(* midst: ota_update_begin writes the slot that is not running, and only   *)
(* esp_ota_end's verdict lets ota_update_finish name it the one to boot.   *)
THEOREM UploadSurvives == Spec => UploadIsBooted
<1>1. Init => UploadInv
  BY DEF Init, UploadInv, Slots, Images
<1>2. UploadInv /\ [Next]_vars => UploadInv'
  BY UploadInvStep
<1>3. UploadInv /\ [Next]_vars =>
        [Boot => uploaded = "none" \/ slots[running'].image = uploaded]_vars
  BY DEF UploadInv, Boot, Bootloader
<1> QED BY <1>1, <1>2, <1>3, PTL DEF Spec, UploadIsBooted

-----------------------------------------------------------------------------
(* The register of the battery: what was answered as applied is in it, and *)
(* in every copy that a setParam is about to write back; and one that had  *)
(* the dispatcher to itself has written the values before its own.         *)
Value == [bit : Bits, to : BOOLEAN]
Setting(j) == j.at \in {"modify", "params"}

BitsType ==
  /\ register \in [Bits -> BOOLEAN]
  /\ applied \subseteq Value

(* Of the first n values each bit's last is written.                       *)
Written(values, n) ==
  \A m \in DOMAIN values :
    m <= n /\ (\A k \in DOMAIN values : m < k /\ k <= n => values[k].bit # values[m].bit)
      => register[values[m].bit] = values[m].to

BitProgress(t) ==
  /\ job[t].at \in {"dispatch", "modify", "params"} => job[t].how = "rpc"
  /\ Setting(job[t]) =>
       /\ job[t].i \in Nat \ {0}
       /\ clean[t] => /\ buf.method = "bms.setParam"
                      /\ Written(buf.values, job[t].i - 1)
  /\ job[t].at = "modify" =>
       /\ job[t].value \in Value /\ job[t].word \in [Bits -> BOOLEAN]
       /\ \A v \in applied : job[t].word[v.bit] = v.to
       /\ clean[t] => /\ job[t].i \in DOMAIN buf.values
                      /\ job[t].value = buf.values[job[t].i]
                      /\ job[t].word = register

BitInv == BitsType /\ AppliedIsWritten /\ \A t \in Tasks : BitProgress(t)

(* Some task does something else than setting bits.                        *)
Quiet ==
  /\ UNCHANGED <<register, applied>>
  /\ \E t \in Tasks : \E j, call :
       /\ ~Setting(j)
       /\ j.at = "dispatch" => j.how = "rpc"
       /\ call = buf \/ j.at = "dispatch"
       /\ Continues(t, j, call)

LEMMA QuietSteps ==
  ASSUME \/ handle_rpc_post \/ handle_downlink
         \/ handle_config_post \/ handle_log_level_post \/ handle_reboot
         \/ handle_ota_post \/ ota_update_write \/ ota_update_finish
         \/ \E t \in Tasks : \/ Dispatch(t) \/ rpc_set_config_json(t)
                             \/ app_config_save(t) \/ nvs_set(t) \/ Saved(t) \/ ListGone(t)
  PROVE  Quiet
<1>1. ASSUME UNCHANGED <<register, applied>>, NEW t \in Tasks, NEW j, Goes(t, j),
             j.at \notin {"dispatch", "modify", "params"}
      PROVE  Quiet
  BY <1>1 DEF Quiet, Goes, Setting
<1>2. ASSUME UNCHANGED <<register, applied>>, NEW t \in Tasks, NEW r, Answers(t, r) PROVE Quiet
  BY <1>1, <1>2 DEF Answers, NoJob
<1>3. "httpd" \in Tasks /\ "uplink" \in Tasks
  BY DEF Tasks
<1>4. ASSUME NEW t \in Tasks, NEW call, rpc_server_handle(t, call) PROVE Quiet
  BY <1>4 DEF rpc_server_handle, Quiet, Setting
<1>5. CASE handle_rpc_post \/ handle_downlink
  <2>1. CASE handle_rpc_post
    BY <1>3, <1>4, <2>1 DEF handle_rpc_post
  <2>2. CASE handle_downlink
    BY <1>3, <1>4, <2>2 DEF handle_downlink
  <2> QED BY <1>5, <2>1, <2>2
<1>6. CASE handle_config_post
  <2>1. UNCHANGED <<register, applied>>
    BY <1>6 DEF handle_config_post
  <2>2. PICK change \in Changes :
          IF Refused(change) THEN Answers("httpd", Error)
          ELSE Goes("httpd", [at |-> "save", how |-> "page", change |-> change,
                              cfg |-> Merge(s_cfg, change), reboots |-> TRUE])
    BY <1>6 DEF handle_config_post
  <2> QED BY <1>1, <1>2, <1>3, <2>1, <2>2
<1>7. CASE handle_log_level_post
  <2>1. UNCHANGED <<register, applied>>
    BY <1>7 DEF handle_log_level_post
  <2>2. PICK level \in Values :
          IF level = "bad" THEN Answers("httpd", Error)
          ELSE Goes("httpd", [at |-> "save", how |-> "page",
                              change |-> [k \in {"log_level"} |-> level],
                              cfg |-> Merge(s_cfg, [k \in {"log_level"} |-> level]),
                              reboots |-> FALSE])
    BY <1>7 DEF handle_log_level_post
  <2> QED BY <1>1, <1>2, <1>3, <2>1, <2>2
<1>8. CASE handle_reboot
  BY <1>2, <1>3, <1>8 DEF handle_reboot
<1>9. CASE handle_ota_post
  <2>1. UNCHANGED <<register, applied>>
    BY <1>9 DEF handle_ota_post
  <2>2. Answers("httpd", Error) \/ Goes("httpd", [at |-> "upload", how |-> "page", left |-> Chunks])
    BY <1>9 DEF handle_ota_post
  <2> QED BY <1>1, <1>2, <1>3, <2>1, <2>2
<1>10. CASE ota_update_write
  BY <1>1, <1>2, <1>3, <1>10 DEF ota_update_write
<1>11. CASE ota_update_finish
  <2>1. UNCHANGED <<register, applied>> /\ \E r : Answers("httpd", r)
    BY <1>11 DEF ota_update_finish
  <2> QED BY <1>2, <1>3, <2>1
<1>12. ASSUME NEW t \in Tasks, Dispatch(t) \/ ListGone(t) PROVE Quiet
  BY <1>2, <1>12 DEF Dispatch, ListGone
<1>13. ASSUME NEW t \in Tasks, rpc_set_config_json(t) PROVE Quiet
  <2>1. UNCHANGED <<register, applied>>
    BY <1>13 DEF rpc_set_config_json
  <2>2. \/ Answers(t, Error)
        \/ Goes(t, [at |-> "save", how |-> "rpc", change |-> Accepted(buf.change),
                    cfg |-> Merge(s_cfg, Accepted(buf.change)), reboots |-> FALSE])
    BY <1>13 DEF rpc_set_config_json
  <2> QED BY <1>1, <1>2, <2>1, <2>2
<1>14. ASSUME NEW t \in Tasks, app_config_save(t) \/ nvs_set(t) PROVE Quiet
  <2>1. UNCHANGED <<register, applied>>
    BY <1>14 DEF app_config_save, nvs_set
  <2>2. \E i : \E at \in {"keys", "saved"} : Goes(t, At(at, i, job[t]))
    BY <1>14 DEF app_config_save, nvs_set
  <2>3. PICK i : \E at \in {"keys", "saved"} : Goes(t, At(at, i, job[t]))
    BY <2>2
  <2>4. PICK at \in {"keys", "saved"} : Goes(t, At(at, i, job[t]))
    BY <2>3
  <2>5. At(at, i, job[t]).at = at
    BY DEF At
  <2> QED BY <1>1, <2>1, <2>4, <2>5
<1>15. ASSUME NEW t \in Tasks, Saved(t) PROVE Quiet
  BY <1>2, <1>15 DEF Saved
<1> QED BY <1>5, <1>6, <1>7, <1>8, <1>9, <1>10, <1>11, <1>12, <1>13, <1>14, <1>15

(* Two tasks in the dispatcher: neither has it to itself.                  *)
LEMMA OthersShare ==
  ASSUME SaveInv, BitInv, NEW t \in Tasks, job[t].at \in {"dispatch", "modify", "params"},
         NEW j, NEW call, Continues(t, j, call), NEW u \in Tasks, u # t, Setting(job[u])
  PROVE  ~clean'[u] /\ ~clean[t]
<1>1. InDispatch(job[t]) /\ InDispatch(job[u]) /\ job[u].at # "idle"
  BY DEF BitInv, BitProgress, Setting, InDispatch
<1>2. Crowded(job)
  BY <1>1 DEF Crowded, Together, Tasks
<1>3. ~clean[t] /\ ~clean[u]
  BY <1>2 DEF SaveInv, AloneInv
<1> QED BY <1>1, <1>3, Continued DEF SaveInv

LEMMA QuietKeeps == ASSUME SaveInv, BitInv, Quiet PROVE BitInv'
<1>1. PICK t \in Tasks : \E j, call :
        ~Setting(j) /\ (j.at = "dispatch" => j.how = "rpc")
        /\ (call = buf \/ j.at = "dispatch") /\ Continues(t, j, call)
  BY DEF Quiet
<1>2. PICK j, call :
        ~Setting(j) /\ (j.at = "dispatch" => j.how = "rpc")
        /\ (call = buf \/ j.at = "dispatch") /\ Continues(t, j, call)
  BY <1>1
<1>3. /\ job'[t] = j /\ \A u \in Tasks \ {t} : job'[u] = job[u]
      /\ Crowded(job') => \A u \in Tasks : ~clean'[u]
      /\ \A u \in Tasks : clean'[u] => clean[u] \/ job[u].at = "idle"
  BY <1>2, Continued DEF SaveInv
<1>4. UNCHANGED <<register, applied>>
  BY DEF Quiet
<1>5. BitProgress(t)'
  BY <1>2, <1>3 DEF BitProgress, Setting
<1>6. ASSUME NEW u \in Tasks, u # t PROVE BitProgress(u)'
  <2>1. job'[u] = job[u] /\ BitProgress(u)
    BY <1>3, <1>6 DEF BitInv
  <2>2. ASSUME Setting(job[u]), clean'[u] PROVE clean[u] /\ buf' = buf
    <3>1. clean[u] /\ InDispatch(job'[u])
      BY <1>3, <2>1, <2>2 DEF BitProgress, Setting, InDispatch
    <3>2. ~InDispatch(j)
      BY <1>3, <1>6, <2>2, <3>1 DEF Crowded, Together, Tasks
    <3>3. call = buf
      BY <1>2, <3>2 DEF InDispatch
    <3> QED BY <1>2, <3>1, <3>3 DEF Continues
  <2>3. CASE Setting(job[u])
    <3>1. clean'[u] => clean[u] /\ buf' = buf
      BY <2>2, <2>3
    <3> QED BY <1>4, <2>1, <3>1 DEF BitProgress, Setting, Written
  <2>4. CASE ~Setting(job[u])
    BY <2>1, <2>4 DEF BitProgress, Setting
  <2> QED BY <2>3, <2>4
<1>7. BitsType' /\ AppliedIsWritten'
  BY <1>4 DEF BitInv, BitsType, AppliedIsWritten
<1> QED BY <1>5, <1>6, <1>7 DEF BitInv

(* The values that are set.                                                *)
LEMMA ValuesAre ==
  ASSUME RequestInv, buf.method = "bms.setParam"
  PROVE  /\ buf.values \in Seq(Value) /\ DOMAIN buf.values = 1 .. Len(buf.values)
         /\ Len(buf.values) \in Nat
         /\ \A i \in DOMAIN buf.values : buf.values[i] \in Value
<1>1. buf.values \in Seq(Value)
  BY RpcAssumption DEF RequestInv, Askable, Value
<1> QED BY <1>1, LenProperties, ElementOfSeq

LEMMA ReadBitKeeps == ASSUME SaveInv, BitInv, NEW t \in Tasks, ReadBit(t) PROVE BitInv'
<1>1. /\ job[t].at \in {"dispatch", "params"} /\ buf.method = "bms.setParam"
      /\ Position(t) \in DOMAIN buf.values
      /\ UNCHANGED <<register, applied>>
  BY DEF ReadBit
<1>2. CASE Answers(t, Error)
  <2>1. Quiet
    BY <1>1, <1>2 DEF Quiet, Answers, Goes, NoJob, Setting
  <2> QED BY <2>1, QuietKeeps
<1>3. CASE Goes(t, [at |-> "modify", how |-> "rpc", i |-> Position(t),
                    value |-> buf.values[Position(t)], word |-> register])
  <2> DEFINE j == [at |-> "modify", how |-> "rpc", i |-> Position(t),
                   value |-> buf.values[Position(t)], word |-> register]
  <2>1. /\ job'[t] = j /\ \A u \in Tasks \ {t} : job'[u] = job[u]
        /\ \A u \in Tasks : clean'[u] => clean[u] \/ job[u].at = "idle"
    BY <1>3, Continued DEF SaveInv, Goes
  <2>2. /\ j.at = "modify" /\ j.how = "rpc" /\ j.i = Position(t)
        /\ j.value = buf.values[Position(t)] /\ j.word = register
    OBVIOUS
  <2> HIDE DEF j
  <2>3. buf' = buf
    BY <1>3, <2>1, <2>2 DEF Goes, Continues, InDispatch
  <2>4. Position(t) \in Nat \ {0} /\ buf.values[Position(t)] \in Value
    BY <1>1, ValuesAre DEF SaveInv
  <2>5. BitProgress(t)'
    <3>1. register \in [Bits -> BOOLEAN] /\ \A v \in applied : register[v.bit] = v.to
      BY DEF BitInv, BitsType, AppliedIsWritten
    <3>2. clean[t] => Written(buf.values, Position(t) - 1)
      <4>1. CASE job[t].at = "params"
        BY <4>1 DEF BitInv, BitProgress, Setting, Position
      <4>2. CASE job[t].at = "dispatch"
        <5>1. Position(t) - 1 = 0 /\ \A m \in DOMAIN buf.values : ~(m <= 0)
          BY <1>1, <4>2, ValuesAre DEF SaveInv, Position
        <5> QED BY <5>1 DEF Written
      <4> QED BY <1>1, <4>1, <4>2
    <3>3. clean'[t] => clean[t]
      BY <1>1, <2>1
    <3> QED BY <1>1, <2>1, <2>2, <2>3, <2>4, <3>1, <3>2, <3>3 DEF BitProgress, Setting, Written
  <2>6. ASSUME NEW u \in Tasks, u # t PROVE BitProgress(u)'
    <3>1. job'[u] = job[u] /\ BitProgress(u)
      BY <2>1, <2>6 DEF BitInv
    <3>2. Setting(job[u]) => ~clean'[u]
      BY <1>1, <1>3, <2>6, OthersShare DEF Goes
    <3> QED BY <1>1, <3>1, <3>2 DEF BitProgress, Setting
  <2>7. BitsType' /\ AppliedIsWritten'
    BY <1>1 DEF BitInv, BitsType, AppliedIsWritten
  <2> QED BY <2>5, <2>6, <2>7 DEF BitInv
<1> QED BY <1>2, <1>3 DEF ReadBit

LEMMA WriteBitKeeps == ASSUME SaveInv, BitInv, NEW t \in Tasks, WriteBit(t) PROVE BitInv'
<1> DEFINE value == job[t].value
           word == encode_value(job[t].word, value)
           i == job[t].i
           next == [at |-> "params", how |-> "rpc", i |-> i + 1]
<1>1. /\ job[t].at = "modify"
      /\ applied' = {v \in applied : v.bit \notin {value.bit}}
      /\ \/ register' = word /\ Goes(t, next)
         \/ register' \in {register, word} /\ Answers(t, Error)
  BY DEF WriteBit, Forget
<1>2. /\ i \in Nat \ {0} /\ value \in Value /\ job[t].word \in [Bits -> BOOLEAN]
      /\ \A v \in applied : job[t].word[v.bit] = v.to /\ register[v.bit] = v.to
      /\ clean[t] => /\ buf.method = "bms.setParam" /\ i \in DOMAIN buf.values
                     /\ Written(buf.values, i - 1)
                     /\ value = buf.values[i] /\ job[t].word = register
      /\ register \in [Bits -> BOOLEAN] /\ applied \subseteq Value
  BY <1>1 DEF BitInv, BitProgress, Setting, BitsType, AppliedIsWritten
<1>3. /\ word \in [Bits -> BOOLEAN] /\ word[value.bit] = value.to
      /\ \A b \in Bits : b # value.bit => word[b] = job[t].word[b]
  BY <1>2 DEF encode_value, Value
<1> HIDE DEF word
<1>4. BitsType' /\ AppliedIsWritten'
  <2>1. register' \in {register, word}
    BY <1>1
  <2>2. ASSUME NEW v \in applied' PROVE register'[v.bit] = v.to
    <3>1. v \in applied /\ v.bit \in Bits /\ v.bit # value.bit
      BY <1>1, <1>2 DEF Value
    <3> QED BY <1>2, <1>3, <2>1, <3>1
  <2> QED BY <1>1, <1>2, <1>3, <2>1, <2>2 DEF BitsType, AppliedIsWritten
<1>5. PICK j : /\ Goes(t, j)
               /\ \/ register' = word /\ j = next
                  \/ j = NoJob
  BY <1>1 DEF Answers
<1>6. /\ job'[t] = j /\ \A u \in Tasks \ {t} : job'[u] = job[u]
      /\ \A u \in Tasks : clean'[u] => clean[u] \/ job[u].at = "idle"
  BY <1>5, Continued DEF SaveInv, Goes
<1>7. ASSUME NEW u \in Tasks, u # t PROVE BitProgress(u)'
  <2>1. job'[u] = job[u] /\ BitProgress(u)
    BY <1>6, <1>7 DEF BitInv
  <2>2. Setting(job[u]) => ~clean'[u]
    BY <1>1, <1>5, <1>7, OthersShare DEF Goes
  <2>3. applied' \subseteq applied
    BY <1>1
  <2> QED BY <2>1, <2>2, <2>3 DEF BitProgress, Setting
<1>8. BitProgress(t)'
  <2>1. CASE j = NoJob
    BY <1>6, <2>1 DEF BitProgress, NoJob, Setting
  <2>2. CASE register' = word /\ j = next
    <3>1. /\ job'[t].at = "params" /\ job'[t].how = "rpc" /\ job'[t].i = i + 1
          /\ i + 1 \in Nat \ {0} /\ (i + 1) - 1 = i
      BY <1>2, <1>6, <2>2
    <3>2. ASSUME clean'[t]
          PROVE  /\ buf' = buf /\ buf.method = "bms.setParam"
                 /\ \A m \in DOMAIN buf.values :
                      m <= i /\ (\A k \in DOMAIN buf.values : m < k /\ k <= i => buf.values[k].bit # buf.values[m].bit)
                        => register'[buf.values[m].bit] = buf.values[m].to
      <4>1. clean[t]
        BY <1>1, <1>6, <3>2
      <4>2. buf' = buf
        BY <1>5, <3>1 DEF Goes, Continues, InDispatch
      <4>3. buf.method = "bms.setParam" /\ DOMAIN buf.values \subseteq Nat
            /\ \A m \in DOMAIN buf.values : buf.values[m].bit \in Bits
        BY <1>2, <4>1, ValuesAre DEF SaveInv, Value
      <4>4. ASSUME NEW m \in DOMAIN buf.values, m <= i,
                   \A k \in DOMAIN buf.values : m < k /\ k <= i => buf.values[k].bit # buf.values[m].bit
            PROVE  register'[buf.values[m].bit] = buf.values[m].to
        <5>1. CASE m = i
          BY <1>2, <1>3, <2>2, <4>1, <5>1
        <5>2. CASE m # i
          <6>1. m < i /\ m <= i - 1 /\ m \in Nat
            BY <1>2, <4>3, <4>4, <5>2
          <6>2. buf.values[i].bit # buf.values[m].bit
            BY <1>2, <4>1, <4>4, <6>1
          <6>3. \A k \in DOMAIN buf.values : m < k /\ k <= i - 1 => m < k /\ k <= i
            BY <1>2, <4>3
          <6>4. register[buf.values[m].bit] = buf.values[m].to
            BY <1>2, <4>1, <4>4, <6>1, <6>3 DEF Written
          <6> QED BY <1>2, <1>3, <2>2, <4>1, <4>3, <6>2, <6>4
        <5> QED BY <5>1, <5>2
      <4> QED BY <4>2, <4>3, <4>4
    <3>3. clean'[t] => (buf'.method = "bms.setParam" /\ Written(buf.values, job[t].i - 1)')
      BY <3>1, <3>2 DEF Written
    <3> QED BY <3>1, <3>3 DEF BitProgress, Setting
  <2> QED BY <1>5, <2>1, <2>2
<1> QED BY <1>4, <1>7, <1>8 DEF BitInv

(* The last of the values that name a bit was written after all others.    *)
LEMMA AllAppliedKeeps == ASSUME SaveInv, BitInv, NEW t \in Tasks, AllApplied(t) PROVE BitInv'
<1>1. /\ job[t].at = "params" /\ buf.method = "bms.setParam" /\ job[t].i \notin DOMAIN buf.values
      /\ Goes(t, NoJob) /\ register' = register
      /\ applied' = IF clean[t]
                      THEN {v \in applied : \A w \in Range(buf.values) : w.bit # v.bit}
                             \cup Told(buf.values)
                      ELSE applied
  BY DEF AllApplied, Answers
<1>2. /\ job'[t] = NoJob /\ \A u \in Tasks \ {t} : job'[u] = job[u]
      /\ \A u \in Tasks : clean'[u] => clean[u] \/ job[u].at = "idle"
  BY <1>1, Continued DEF SaveInv, Goes
<1>3. /\ buf.values \in Seq(Value) /\ DOMAIN buf.values = 1 .. Len(buf.values)
      /\ Len(buf.values) \in Nat
      /\ \A i \in DOMAIN buf.values : buf.values[i] \in Value
  BY <1>1, ValuesAre DEF SaveInv
<1>4. /\ register \in [Bits -> BOOLEAN] /\ applied \subseteq Value
      /\ \A v \in applied : register[v.bit] = v.to
      /\ job[t].i \in Nat \ {0} /\ (clean[t] => Written(buf.values, job[t].i - 1))
  BY <1>1 DEF BitInv, BitsType, AppliedIsWritten, BitProgress, Setting
<1>5. ASSUME clean[t], NEW v \in Told(buf.values) PROVE v \in Value /\ register[v.bit] = v.to
  <2>1. PICK m \in DOMAIN buf.values :
          /\ v = buf.values[m]
          /\ \A k \in DOMAIN buf.values : k > m => buf.values[k].bit # buf.values[m].bit
    BY <1>5 DEF Told
  <2>2. m <= job[t].i - 1
    BY <1>1, <1>3, <1>4
  <2>3. \A k \in DOMAIN buf.values : m < k /\ k <= job[t].i - 1 => buf.values[k].bit # buf.values[m].bit
    BY <1>3, <2>1
  <2> QED BY <1>3, <1>4, <1>5, <2>1, <2>2, <2>3 DEF Written
<1>6. BitsType' /\ AppliedIsWritten'
  <2>1. \A v \in applied' : v \in Value /\ register[v.bit] = v.to
    BY <1>1, <1>4, <1>5
  <2> QED BY <1>1, <1>4, <2>1 DEF BitsType, AppliedIsWritten
<1>7. BitProgress(t)'
  BY <1>2 DEF BitProgress, NoJob, Setting
<1>8. ASSUME NEW u \in Tasks, u # t PROVE BitProgress(u)'
  <2>1. job'[u] = job[u] /\ BitProgress(u)
    BY <1>2, <1>8 DEF BitInv
  <2>2. Setting(job[u]) => ~clean'[u] /\ ~clean[t]
    BY <1>1, <1>8, OthersShare DEF Goes
  <2> QED BY <1>1, <2>1, <2>2 DEF BitProgress, Setting
<1> QED BY <1>6, <1>7, <1>8 DEF BitInv

(* bms.writeRegisters writes all bits at once.                             *)
LEMMA WriteRegistersKeeps ==
  ASSUME SaveInv, BitInv, NEW t \in Tasks, m_bms_write_registers(t)
  PROVE  BitInv'
<1>1. /\ job[t].at = "dispatch" /\ buf.word \in [Bits -> BOOLEAN]
      /\ Goes(t, NoJob)
      /\ \/ /\ register' = buf.word
            /\ applied' = {v \in [bit : Bits, to : BOOLEAN] : clean[t] /\ v.to = buf.word[v.bit]}
         \/ register' \in {register, buf.word} /\ applied' = {v \in applied : v.bit \notin Bits}
  BY DEF m_bms_write_registers, Answers, Forget, SaveInv, RequestInv, Askable
<1>2. /\ job'[t] = NoJob /\ \A u \in Tasks \ {t} : job'[u] = job[u]
      /\ \A u \in Tasks : clean'[u] => clean[u] \/ job[u].at = "idle"
  BY <1>1, Continued DEF SaveInv, Goes
<1>3. register \in [Bits -> BOOLEAN] /\ applied \subseteq Value
  BY DEF BitInv, BitsType
<1>4. /\ applied' \subseteq Value /\ (~clean[t] => applied' = {})
      /\ \A v \in applied' : register' = buf.word /\ v.to = buf.word[v.bit]
  <2>1. \A v \in applied : v.bit \in Bits
    BY <1>3 DEF Value
  <2> QED BY <1>1, <2>1 DEF Value
<1>5. BitsType' /\ AppliedIsWritten'
  BY <1>1, <1>3, <1>4 DEF BitsType, AppliedIsWritten
<1>6. BitProgress(t)'
  BY <1>2 DEF BitProgress, NoJob, Setting
<1>7. ASSUME NEW u \in Tasks, u # t PROVE BitProgress(u)'
  <2>1. job'[u] = job[u] /\ BitProgress(u)
    BY <1>2, <1>7 DEF BitInv
  <2>2. Setting(job[u]) => ~clean'[u] /\ ~clean[t]
    BY <1>1, <1>7, OthersShare DEF Goes
  <2> QED BY <1>4, <2>1, <2>2 DEF BitProgress, Setting
<1> QED BY <1>5, <1>6, <1>7 DEF BitInv

LEMMA BitInvStep == ASSUME SaveInv, BitInv, [Next]_vars PROVE BitInv'
<1>1. CASE Quiet
  BY <1>1, QuietKeeps
<1>2. ASSUME NEW t \in Tasks, ReadBit(t) PROVE BitInv'
  BY <1>2, ReadBitKeeps
<1>3. ASSUME NEW t \in Tasks, WriteBit(t) PROVE BitInv'
  BY <1>3, WriteBitKeeps
<1>4. ASSUME NEW t \in Tasks, AllApplied(t) PROVE BitInv'
  BY <1>4, AllAppliedKeeps
<1>5. ASSUME NEW t \in Tasks, m_bms_write_registers(t) PROVE BitInv'
  BY <1>5, WriteRegistersKeeps
<1>6. ASSUME UNCHANGED <<job, buf, register, clean, applied>> PROVE BitInv'
  <2>1. BitsType' /\ AppliedIsWritten'
    BY <1>6 DEF BitInv, BitsType, AppliedIsWritten
  <2>2. ASSUME NEW u \in Tasks PROVE BitProgress(u)'
    BY <1>6 DEF BitInv, BitProgress, Setting, Written
  <2> QED BY <2>1, <2>2 DEF BitInv
<1>7. CASE factory_reset \/ UNCHANGED vars
  BY <1>6, <1>7 DEF factory_reset, vars
<1>8. CASE esp_restart \/ PowerFails
  <2>1. UNCHANGED <<register, applied>> /\ \A u \in Tasks : job'[u] = NoJob
    BY <1>8 DEF esp_restart, PowerFails, Boot
  <2>2. BitsType' /\ AppliedIsWritten'
    BY <2>1 DEF BitInv, BitsType, AppliedIsWritten
  <2>3. ASSUME NEW u \in Tasks PROVE BitProgress(u)'
    BY <2>1 DEF BitProgress, NoJob, Setting
  <2> QED BY <2>2, <2>3 DEF BitInv
<1>9. Quiet \/ factory_reset \/ esp_restart \/ PowerFails \/ UNCHANGED vars
        \/ \E t \in Tasks : ReadBit(t) \/ WriteBit(t) \/ AllApplied(t) \/ m_bms_write_registers(t)
  BY QuietSteps DEF Next
<1> QED BY <1>1, <1>2, <1>3, <1>4, <1>5, <1>7, <1>8, <1>9

(* The bits a request was answered as having applied are the battery's as  *)
(* long as no later request names them, for any number of bits and values, *)
(* if the request had the dispatcher to itself: m_bms_set_param reads the  *)
(* register, changes one bit and writes it back, and stops at an error.    *)
THEOREM AppliedStays == Spec => []AppliedIsWritten
<1>1. Init => BitInv
  <2> SUFFICES ASSUME Init PROVE BitInv
    OBVIOUS
  <2>1. BitsType /\ AppliedIsWritten
    BY DEF Init, BitsType, AppliedIsWritten
  <2>2. ASSUME NEW u \in Tasks PROVE BitProgress(u)
    BY DEF Init, BitProgress, NoJob, Setting
  <2> QED BY <2>1, <2>2 DEF BitInv
<1>2. SaveInv /\ BitInv /\ [Next]_vars => BitInv'
  BY BitInvStep
<1>3. BitInv => AppliedIsWritten
  BY DEF BitInv
<1> QED BY <1>1, <1>2, <1>3, SaveInvariant, PTL DEF Spec
=============================================================================
