----------------------------- MODULE BmsUplink -----------------------------
(***************************************************************************)
(* The telemetry path of the air780epm firmware: bms_data turns each       *)
(* finished collection round (JK_ROUND) into a sample and pushes it into   *)
(* the cache; bms_uplink's task_report takes what is new since its cursor, *)
(* encodes it and publishes it on the MQTT connection, or counts it lost.  *)
(*                                                                         *)
(* Coroutines interleave only where they yield.  The one yield inside a    *)
(* report is the encoder's on_slice callback, so build_batch is one step   *)
(* and the rest of report_once another, with rounds and connection events  *)
(* in between.                                                             *)
(*                                                                         *)
(* Not modelled: flush(), a debug entry that no firmware module calls; the *)
(* statistics no property reads (batches, published, dropped,              *)
(* empty_frames, samples, the last ones); the columns other than cell      *)
(* count and time, and the bytes of the encoding.                          *)
(***************************************************************************)
EXTENDS BmsCache, FiniteSetsExt, Sequences

CONSTANTS
  Snapshot,       (* the cell counts and collection times the BMS driver   *)
                  (* may report; the clock may step in both directions     *)
  NoSnapshot,     (* an event or state that is not a table                 *)
  MAX_CELLS,      (* slots of a normalized sample (32)                     *)
  CELL_COUNT,     (* fixed cell count of the config, 0 = automatic         *)
  MaxOffset,      (* largest time offset of a batch (uint8: 255)           *)
  MaxPushed,      (* bound: samples collected                              *)
  MaxEncodeFail   (* bound: failed encodings                               *)

ASSUME UplinkAssumption ==
  /\ Snapshot \subseteq [cellCount : Int, ts : Nat]
  /\ NoSnapshot \notin Snapshot
  /\ MAX_CELLS \in Nat /\ CELL_COUNT \in Nat
  /\ MaxOffset \in Nat /\ MaxPushed \in Nat /\ MaxEncodeFail \in Nat
  /\ Sample = [cellCount : 0..MAX_CELLS, ts : {s.ts : s \in Snapshot}]

VARIABLES
  mqttc,              (* TRUE once mqtt.create succeeded                   *)
  mqtt_ready,         (* CONNACK seen, no disconnect or error event since  *)
  sock_ready,         (* what mqttc:ready() answers                        *)
  ntp_ready,          (* task_report saw the clock synchronized            *)
  last_reported_seq,  (* the report cursor                                 *)
  lost,               (* stats.lost                                        *)
  encode_fail,        (* stats.encode_fail                                 *)
  encoding,           (* a report is suspended inside codec.encode         *)
  batch,              (* its window, copied out of the cache               *)
  collected,          (* history: every sample pushed, by sequence number  *)
  sent                (* history: the non-empty payloads published         *)

linkVars == <<mqttc, mqtt_ready, sock_ready>>
reportVars == <<last_reported_seq, lost, encode_fail, encoding, batch, sent>>
vars == <<cacheVars, linkVars, ntp_ready, reportVars, collected>>

Item == [seq : Nat, off : 0..MaxOffset]
Batch == [items : SUBSET Item, cellCount : 0..MAX_CELLS, base : Nat, latest : Nat]
NoBatch == [items |-> {}, cellCount |-> 0, base |-> 0, latest |-> 0]

SeqsOf(items) == {it.seq : it \in items}

(* Every sample that ever left in a payload.                               *)
SentSeqs == UNION {SeqsOf(sent[i].items) : i \in DOMAIN sent}

-----------------------------------------------------------------------------
(* Collection: bms_data                                                    *)

(* bms_data.normalize on the two fields kept here.                         *)
Normalize(s) ==
  LET clamped == IF s.cellCount < 0 THEN 0
                 ELSE IF s.cellCount > MAX_CELLS THEN MAX_CELLS ELSE s.cellCount
      fixed == IF CELL_COUNT > MAX_CELLS THEN MAX_CELLS ELSE CELL_COUNT
  IN  [cellCount |-> IF CELL_COUNT > 0 THEN fixed ELSE clamped, ts |-> s.ts]

(* One JK_ROUND event.  `snap' is its payload or, when that is not a       *)
(* table, what jk.get_state() answers at that moment.                      *)
Round(snap) ==
  /\ snap # NoSnapshot          \* otherwise only stats.skipped moves
  /\ pushed < MaxPushed
  /\ Push(Normalize(snap))
  /\ collected' = Append(collected, Normalize(snap))
  /\ UNCHANGED <<linkVars, ntp_ready, reportVars>>

-----------------------------------------------------------------------------
(* The MQTT connection, as its event callback sees it                      *)

(* net_ready reached and mqtt.create succeeded; connect() follows.  When   *)
(* create fails the connect task ends and mqttc stays nil.                 *)
CreateClient ==
  /\ ~mqttc
  /\ mqttc' = TRUE
  /\ UNCHANGED <<cacheVars, mqtt_ready, sock_ready, ntp_ready, reportVars, collected>>

Conack ==
  /\ mqttc
  /\ mqtt_ready' = TRUE
  /\ sock_ready' = TRUE
  /\ UNCHANGED <<cacheVars, mqttc, ntp_ready, reportVars, collected>>

(* The library loses the connection before its callback runs.              *)
LinkDown ==
  /\ sock_ready
  /\ sock_ready' = FALSE
  /\ UNCHANGED <<cacheVars, mqttc, mqtt_ready, ntp_ready, reportVars, collected>>

(* The "disconnect" and "error" events.                                    *)
DisconnectOrError ==
  /\ mqttc /\ ~sock_ready
  /\ mqtt_ready' = FALSE
  /\ UNCHANGED <<cacheVars, mqttc, sock_ready, ntp_ready, reportVars, collected>>

-----------------------------------------------------------------------------
(* Reports                                                                 *)

SampleOf(q) == slots[Idx(q)]

(* Mutated form: a batch that mixes cell counts.                           *)
FitsTimeOnly(q, base) == base - SampleOf(q).ts <= MaxOffset

(* A sample fits a batch with that base time when it has the newest        *)
(* sample's cell count and its offset can be encoded.                      *)
Fits(q, base) ==
  /\ SampleOf(q).cellCount = Latest.cellCount
  /\ base - SampleOf(q).ts <= MaxOffset

(* build_batch: the window after the cursor, its newest time and the       *)
(* samples that fit; the others are counted lost.                          *)
BuildBatch ==
  LET w == Since(last_reported_seq)
      base == Max({0} \cup {SampleOf(q).ts : q \in w.seqs})
      kept == {q \in w.seqs : Fits(q, base)}
  IN  [items     |-> {[seq |-> q, off |-> base - SampleOf(q).ts] : q \in kept},
       cellCount |-> IF count = 0 THEN 0 ELSE Latest.cellCount,
       base      |-> base,
       latest    |-> IF w.latest < last_reported_seq THEN last_reported_seq ELSE w.latest,
       uncounted |-> w.lost + Cardinality(w.seqs \ kept)]

BatchOf(b) == [items |-> b.items, cellCount |-> b.cellCount,
               base |-> b.base, latest |-> b.latest]

CanPublish == mqttc /\ mqtt_ready /\ sock_ready

Payload(b) == [items |-> b.items, cellCount |-> b.cellCount, base |-> b.base]

(* Mutated form: what cannot be published is dropped uncounted.            *)
FinishUncounted(b, lost0) ==
  /\ last_reported_seq' = b.latest
  /\ lost' = lost0
  /\ sent' = IF CanPublish /\ b.items # {} THEN Append(sent, Payload(b)) ELSE sent
  /\ encoding' = FALSE /\ batch' = NoBatch

(* Mutated form: the cursor waits for a connection.                        *)
FinishIfPublished(b, lost0) ==
  /\ last_reported_seq' = IF CanPublish THEN b.latest ELSE last_reported_seq
  /\ lost' = lost0
  /\ sent' = IF CanPublish /\ b.items # {} THEN Append(sent, Payload(b)) ELSE sent
  /\ encoding' = FALSE /\ batch' = NoBatch

(* The rest of report_once once a payload of batch b exists.  lost0 is     *)
(* stats.lost when it starts.  An empty frame carries no sample.           *)
Finish(b, lost0) ==
  /\ last_reported_seq' = b.latest
  /\ lost' = IF CanPublish THEN lost0 ELSE lost0 + Cardinality(b.items)
  /\ sent' = IF CanPublish /\ b.items # {} THEN Append(sent, Payload(b)) ELSE sent
  /\ encoding' = FALSE /\ batch' = NoBatch

(* The clock becomes trustworthy: ntp_synced, or a plausible os.time().    *)
ClockReady ==
  /\ ~ntp_ready
  /\ ntp_ready' = TRUE
  /\ UNCHANGED <<cacheVars, linkVars, reportVars, collected>>

(* A report whose window has nothing to encode sends the 13-byte frame at  *)
(* once; otherwise the encoder starts and yields.                          *)
ReportEmpty ==
  LET b == BuildBatch IN
  /\ ntp_ready /\ ~encoding
  /\ b.items = {}
  /\ Finish(BatchOf(b), lost + b.uncounted)
  /\ UNCHANGED <<cacheVars, linkVars, ntp_ready, encode_fail, collected>>

(* Mutated form: the cursor moves when the encoding starts.                *)
ReportStartMoves ==
  LET b == BuildBatch IN
  /\ ntp_ready /\ ~encoding
  /\ b.items # {}
  /\ encoding' = TRUE
  /\ batch' = BatchOf(b)
  /\ lost' = lost + b.uncounted
  /\ last_reported_seq' = b.latest
  /\ UNCHANGED <<cacheVars, linkVars, ntp_ready, encode_fail, collected, sent>>

ReportStart ==
  LET b == BuildBatch IN
  /\ ntp_ready /\ ~encoding
  /\ b.items # {}
  /\ encoding' = TRUE
  /\ batch' = BatchOf(b)
  /\ lost' = lost + b.uncounted
  /\ UNCHANGED <<cacheVars, linkVars, ntp_ready, last_reported_seq, encode_fail,
                 collected, sent>>

ReportFinish ==
  /\ encoding
  /\ Finish(batch, lost)
  /\ UNCHANGED <<cacheVars, linkVars, ntp_ready, encode_fail, collected>>

(* pcall(codec.encode) fails (out of memory): the cursor stays, so the     *)
(* next report builds the window again.                                    *)
EncodeFails ==
  /\ encoding
  /\ encode_fail < MaxEncodeFail
  /\ encode_fail' = encode_fail + 1
  /\ encoding' = FALSE
  /\ batch' = NoBatch
  /\ UNCHANGED <<cacheVars, linkVars, ntp_ready, last_reported_seq, lost, collected, sent>>

-----------------------------------------------------------------------------

Init ==
  /\ CacheInit
  /\ mqttc = FALSE /\ mqtt_ready = FALSE /\ sock_ready = FALSE
  /\ ntp_ready = FALSE
  /\ last_reported_seq = 0 /\ lost = 0 /\ encode_fail = 0
  /\ encoding = FALSE /\ batch = NoBatch
  /\ collected = <<>> /\ sent = <<>>

Collect ==
  \E snap \in Snapshot \cup {NoSnapshot} : Round(snap)

Next ==
  \/ Collect
  \/ CreateClient \/ Conack \/ LinkDown \/ DisconnectOrError
  \/ ClockReady \/ ReportEmpty \/ ReportStart \/ ReportFinish \/ EncodeFails

Spec == Init /\ [][Next]_vars

(* The coroutine task_report always gets to its next step: its timer fires *)
(* again and a suspended encoder resumes.  Nothing is assumed of the       *)
(* network, the BMS or the clock.                                          *)
FairSpec == Spec /\ WF_vars(ReportEmpty \/ ReportStart \/ ReportFinish)

-----------------------------------------------------------------------------
(* Properties                                                              *)

TypeOK ==
  /\ CacheTypeOK
  /\ mqttc \in BOOLEAN /\ mqtt_ready \in BOOLEAN /\ sock_ready \in BOOLEAN
  /\ ntp_ready \in BOOLEAN
  /\ last_reported_seq \in Nat /\ lost \in Nat /\ encode_fail \in Nat
  /\ encoding \in BOOLEAN
  /\ batch \in Batch
  /\ collected \in Seq(Sample)
  /\ sent \in Seq([items : SUBSET Item, cellCount : 0..MAX_CELLS, base : Nat])

(* No sample leaves in two payloads, and payloads leave in collection      *)
(* order, although rounds are pushed while the encoder is suspended and    *)
(* failed encodings rebuild their window (bms_uplink.lua:426 "the cursor   *)
(* advances first, so that windows never overlap").                        *)
WindowsOrdered ==
  \A i, j \in DOMAIN sent : i < j =>
    \A a \in SeqsOf(sent[i].items), b \in SeqsOf(sent[j].items) : a < b

(* What a payload says of a sample is what was collected under its number: *)
(* base time minus offset is its time and the batch's cell count is its    *)
(* own, whatever the ring overwrote meanwhile and however the clock moved. *)
PayloadFaithful ==
  \A i \in DOMAIN sent : \A it \in sent[i].items :
    /\ it.seq \in DOMAIN collected
    /\ collected[it.seq].ts = sent[i].base - it.off
    /\ collected[it.seq].cellCount = sent[i].cellCount

(* No sample disappears silently: those behind the cursor left in a        *)
(* payload or are counted in stats.lost; while no encoding has failed the  *)
(* count is exact (it counts again what a failed report had counted).      *)
NoSilentLoss ==
  /\ Cardinality(SentSeqs) + lost >= last_reported_seq
  /\ encode_fail = 0 /\ ~encoding =>
        Cardinality(SentSeqs) + lost = last_reported_seq

(* The uplink implements SampleDelivery: behind the cursor a sample is     *)
(* settled, for good, as sent or lost.                                     *)
FateOf == [q \in 1..pushed |-> IF q > last_reported_seq THEN "waiting"
                               ELSE IF q \in SentSeqs THEN "sent" ELSE "lost"]

Delivery == INSTANCE SampleDelivery WITH collected <- pushed, fate <- FateOf

ImplementsDelivery == Delivery!Spec

(* Once the clock is set, every collected sample is eventually settled, if *)
(* encodings do not fail forever, whatever the connection does.            *)
EventuallySettled ==
  \A q \in 1..MaxPushed :
    (ntp_ready /\ pushed >= q) ~> (last_reported_seq >= q)
=============================================================================
