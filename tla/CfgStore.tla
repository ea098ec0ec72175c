------------------------------ MODULE CfgStore ------------------------------
(***************************************************************************)
(* Run-time configuration of the air780epm firmware (cfg_store.lua): the   *)
(* defaults of config.lua, the overrides written by the management links,  *)
(* and their copy in fskv, which the next boot loads.                      *)
(*                                                                         *)
(* No operation yields, so each is one step; MgmtRpc calls them.  fskv is  *)
(* external: a call on it may raise, answer false or not exist at all, and *)
(* JSON gives back what it was given.                                      *)
(***************************************************************************)
EXTENDS Integers, FiniteSets

CONSTANTS
  SPEC,             (* white list: key -> [type, min, max, values]         *)
  RESTART_KEYS,     (* keys whose value is read at boot only               *)
  Default,          (* key -> value of config.lua                          *)
  CFG_STORE_ENABLE

ASSUME StoreAssumption ==
  /\ RESTART_KEYS \subseteq DOMAIN SPEC
  /\ DOMAIN Default = DOMAIN SPEC
  /\ CFG_STORE_ENABLE \in BOOLEAN
  /\ \A k \in DOMAIN SPEC :
       /\ SPEC[k].type \in {"bool", "int", "float", "enum", "string"}
       /\ SPEC[k].type = "enum" =>
            \A v \in SPEC[k].values : ~(v.kind = "string" /\ v.numeric)

VARIABLES
  cfg,              (* key -> value the running code sees                  *)
  overrides,        (* key -> value written over the defaults              *)
  dirty,
  needs_restart,
  factory_pending,
  available,        (* no fskv call has failed since boot                  *)
  fskv,             (* external, survives a reboot: key -> value           *)
  booted            (* history: the configuration this boot started with   *)

storeVars == <<cfg, overrides, dirty, needs_restart, factory_pending, available, fskv, booted>>

-----------------------------------------------------------------------------
(* Values and their validation                                             *)

(* num is what tonumber gives, in halves so that fractions exist; a string *)
(* that is no number is told apart by its length, num.                     *)
Value == [kind : {"boolean", "number", "string"}, numeric : BOOLEAN, num : Int]
Boolean(b) == [kind |-> "boolean", numeric |-> FALSE, num |-> IF b THEN 1 ELSE 0]
Number(n) == [kind |-> "number", numeric |-> TRUE, num |-> n]
NumberText(n) == [kind |-> "string", numeric |-> TRUE, num |-> n]
Text(n) == [kind |-> "string", numeric |-> FALSE, num |-> n]

Length(v) == IF v.numeric THEN 1 ELSE v.num

InRange(spec, n) == spec.min <= n /\ n <= spec.max

Floor(n) == 2 * (n \div 2)

(* validate makes w of v.                                                  *)
Normal(spec, v, w) ==
  \/ spec.type = "bool" /\ v.kind # "string" /\ w = Boolean(v.num # 0)
  \/ spec.type = "int" /\ v.numeric /\ w = Number(Floor(v.num)) /\ InRange(spec, w.num)
  \/ spec.type = "float" /\ v.numeric /\ w = Number(v.num) /\ InRange(spec, w.num)
  \/ /\ spec.type = "enum" /\ w \in spec.values
     /\ w = v \/ (v.kind = "string" /\ v.numeric /\ w = Number(v.num))
  \/ spec.type = "string" /\ v.kind = "string" /\ w = v /\ Length(v) <= spec.max

(* The normalized value, as a set of at most one.                          *)
Validate(spec, v) ==
  {w \in {v, Boolean(v.num # 0), Number(v.num), Number(Floor(v.num))} : Normal(spec, v, w)}

Accepts(k, v) == k \in DOMAIN SPEC /\ Validate(SPEC[k], v) # {}

(* What of a table of values passes, normalized.                           *)
Accepted(vals) ==
  [k \in {k \in DOMAIN vals : Accepts(k, vals[k])} |-> CHOOSE w \in Validate(SPEC[k], vals[k]) : TRUE]

-----------------------------------------------------------------------------
(* Operations                                                              *)

NoOverrides == [k \in {} |-> Number(0)]

(* f, and g where f has no value.                                          *)
Over(f, g) == [k \in DOMAIN f \cup DOMAIN g |-> IF k \in DOMAIN f THEN f[k] ELSE g[k]]

(* save() with new overrides: written, or the first failing call of fskv   *)
(* or json gives persistence up for this boot.                             *)
Save(new) ==
  \/ ~CFG_STORE_ENABLE /\ dirty' = TRUE /\ UNCHANGED <<available, fskv>>
  \/ CFG_STORE_ENABLE /\ dirty' = FALSE /\ fskv' = new /\ UNCHANGED available
  \/ CFG_STORE_ENABLE /\ dirty' = FALSE /\ available' = FALSE /\ UNCHANGED fskv

(* Mutated form: a new value of a restart key is not announced.            *)
StageQuietly(vals) ==
  /\ cfg' = Over(vals, cfg)
  /\ overrides' = Over(vals, overrides)
  /\ Save(overrides')
  /\ UNCHANGED <<needs_restart, factory_pending, booted>>

(* stage() for each value of a validated batch, then one save().           *)
StageAndSave(vals) ==
  /\ cfg' = Over(vals, cfg)
  /\ overrides' = Over(vals, overrides)
  /\ needs_restart' = (needs_restart \/ DOMAIN vals \cap RESTART_KEYS # {})
  /\ Save(overrides')
  /\ UNCHANGED <<factory_pending, booted>>

(* Mutated form: the overrides are kept in RAM.                            *)
ResetStored ==
  /\ factory_pending' = TRUE
  /\ \/ dirty' = FALSE /\ fskv' = NoOverrides /\ UNCHANGED available
     \/ Save(NoOverrides)
  /\ UNCHANGED <<cfg, overrides, needs_restart, booted>>

(* reset(): the key is deleted or, when that fails, written empty.  The    *)
(* running configuration stays as it is.                                   *)
Reset ==
  /\ overrides' = NoOverrides
  /\ factory_pending' = TRUE
  /\ \/ dirty' = FALSE /\ fskv' = NoOverrides /\ UNCHANGED available
     \/ Save(NoOverrides)
  /\ UNCHANGED <<cfg, needs_restart, booted>>

(* What load() takes from fskv.                                            *)
Loaded == IF CFG_STORE_ENABLE THEN Accepted(fskv) ELSE NoOverrides

(* A boot: RAM as declared, then load(), whose fskv.get may fail.          *)
Load ==
  /\ \E readable \in {TRUE, ~CFG_STORE_ENABLE} :
        /\ overrides' = IF readable THEN Loaded ELSE NoOverrides
        /\ available' = readable
  /\ cfg' = Over(overrides', Default) /\ booted' = cfg'
  /\ dirty' = FALSE /\ needs_restart' = FALSE /\ factory_pending' = FALSE
  /\ UNCHANGED fskv

(* The first boot, with what an earlier firmware left in fskv.             *)
StoreInit(stored) ==
  /\ fskv = stored
  /\ overrides = Loaded /\ available = TRUE
  /\ cfg = Over(overrides, Default) /\ booted = cfg
  /\ dirty = FALSE /\ needs_restart = FALSE /\ factory_pending = FALSE

-----------------------------------------------------------------------------

StoreTypeOK ==
  /\ \A t \in {cfg, booted} : DOMAIN t = DOMAIN SPEC
  /\ DOMAIN overrides \subseteq DOMAIN SPEC
  /\ {dirty, needs_restart, factory_pending, available} \subseteq BOOLEAN

(* As long as the store claims to be available, a boot at this moment      *)
(* would load exactly the overrides of this run: normalized values survive *)
(* the validation at load, and what load skipped does not come back        *)
(* (cfg_store.lua:14, "written through").                                  *)
StoredIsOverrides ==
  CFG_STORE_ENABLE /\ available => Loaded = overrides

(* A reboot never changes the device without notice: where the next boot   *)
(* would run with another value than now (than since boot, for the keys    *)
(* read at boot), the status says that a restart or a factory reset is     *)
(* pending (cfg_store.lua:14-16, 28-29).                                   *)
ChangesAreAnnounced ==
  CFG_STORE_ENABLE /\ available =>
    \A k \in DOMAIN SPEC :
      LET next == Over(Loaded, Default)[k] IN
      /\ k \in RESTART_KEYS /\ next # booted[k] => needs_restart \/ factory_pending
      /\ k \notin RESTART_KEYS /\ next # cfg[k] => factory_pending
=============================================================================
