----------------------------- MODULE MCMgmtRpc -----------------------------
(* Values of the constants of MgmtRpc for TLC: one key that takes effect   *)
(* at once and one that needs a restart, batches that are normalized,      *)
(* refused or partly refused, and an fskv with a value the white list no   *)
(* longer takes.  All numbers are in halves.                               *)
EXTENDS MgmtRpc

MCSpec == [poll  |-> [type |-> "int", min |-> 2, max |-> 20, values |-> {}],
           proto |-> [type |-> "enum", min |-> 0, max |-> 0, values |-> {Number(0), Number(2)}]]
MCDefault == [poll |-> Number(4), proto |-> Number(0)]
Ask(l, i, m, p) == [link |-> l, id |-> i, method |-> m, params |-> p]
Good == [poll |-> Number(7), proto |-> Number(2)]
One == [proto |-> NumberText(2)]
Refused == [poll |-> Number(99), proto |-> Number(2)]
MCKinds == {Ask("uart", 1, "set", Good), Ask("uart", 1, "reset", NoOverrides),
            Ask("mqtt", 2, "set", Refused), Ask("mqtt", 2, "reboot", NoOverrides),
            Ask("mqtt", NoId, "set", One), Ask("mqtt", NoId, "get", NoOverrides)}
RebootKinds == {Ask("uart", 1, "reboot", NoOverrides), Ask("uart", 1, "get", NoOverrides)}
SharedKinds == {Ask("uart", 1, "set", Good), Ask("mqtt", 1, "set", One)}
MCStored == {[poll |-> Number(8), proto |-> Text(5)]}

(* Every normalized value passes validation again, as itself.              *)
AllTypes == {[type |-> t, min |-> 2, max |-> 5, values |-> {Number(2), Text(4)}] :
               t \in {"bool", "int", "float", "enum", "string"}}
AllValues == {Boolean(TRUE), Boolean(FALSE)} \cup
             UNION {{Number(n), NumberText(n), Text(n)} : n \in 0..7}
ASSUME NormalizedStays ==
  \A spec \in AllTypes : \A v \in AllValues :
    \A w \in Validate(spec, v) : Validate(spec, w) = {w} /\ Validate(spec, v) = {w}
=============================================================================
