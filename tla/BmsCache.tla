------------------------------ MODULE BmsCache ------------------------------
(***************************************************************************)
(* The shared sample cache of the air780epm firmware (bms_cache.lua): a    *)
(* ring of CAPACITY slots, written by bms_data and read by bms_uplink and  *)
(* jinjian_slave.  A sample gets the sequence number pushed + 1; sequence  *)
(* number q lives in slot Idx(q) until q + CAPACITY overwrites it.         *)
(*                                                                         *)
(* Lua is cooperative and no operation of the cache yields, so every       *)
(* operation is atomic.                                                    *)
(***************************************************************************)
EXTENDS Integers, FiniteSets

CONSTANTS
  CAPACITY,     (* number of slots (config BMS_CACHE_SAMPLES, at least 1)  *)
  Sample,       (* the normalized samples                                  *)
  NoSample      (* the content of a slot that was never written            *)

ASSUME CapacityAssumption ==
  /\ CAPACITY \in Nat \ {0}
  /\ NoSample \notin Sample

VARIABLES
  slots,        (* slot index -> sample                                    *)
  slot_seq,     (* slot index -> sequence number, 0 for nil                *)
  pushed,       (* samples ever written = newest sequence number           *)
  count,        (* valid slots                                             *)
  overwritten   (* stats.overwritten                                       *)

cacheVars == <<slots, slot_seq, pushed, count, overwritten>>

Slot == 1..CAPACITY

(* The slot of a sequence number.                                          *)
Idx(seq) == ((seq - 1) % CAPACITY) + 1

CacheInit ==
  /\ slots = [i \in Slot |-> NoSample]
  /\ slot_seq = [i \in Slot |-> 0]
  /\ pushed = 0
  /\ count = 0
  /\ overwritten = 0

OldestSeq == IF count = 0 THEN 0 ELSE pushed - count + 1

(* Mutated form: the slot follows the valid slots, not the pushes.         *)
PushAtCount(sample) ==
  LET idx == Idx(count + 1) IN
  /\ pushed' = pushed + 1
  /\ overwritten' = IF slot_seq[idx] # 0 THEN overwritten + 1 ELSE overwritten
  /\ slots' = [slots EXCEPT ![idx] = sample]
  /\ slot_seq' = [slot_seq EXCEPT ![idx] = pushed + 1]
  /\ count' = IF count < CAPACITY THEN count + 1 ELSE count

Push(sample) ==
  LET idx == Idx(pushed + 1) IN
  /\ pushed' = pushed + 1
  /\ overwritten' = IF slot_seq[idx] # 0 THEN overwritten + 1 ELSE overwritten
  /\ slots' = [slots EXCEPT ![idx] = sample]
  /\ slot_seq' = [slot_seq EXCEPT ![idx] = pushed + 1]
  /\ count' = IF count < CAPACITY THEN count + 1 ELSE count

Latest == IF count = 0 THEN NoSample ELSE slots[Idx(pushed)]

(* The sequence numbers from..to that their slots still hold: the loop     *)
(* shared by since() and history().                                        *)
Held(from, to) == {seq \in from..to : slot_seq[Idx(seq)] = seq}

(* Mutated form: the sample under the cursor is read again.                *)
SinceInclusive(after) ==
  IF count = 0 \/ pushed < after
  THEN [seqs |-> {}, latest |-> after, lost |-> 0]
  ELSE [seqs   |-> Held(IF after > OldestSeq THEN after ELSE OldestSeq, pushed),
        latest |-> pushed,
        lost   |-> IF after < OldestSeq - 1 THEN OldestSeq - 1 - after ELSE 0]

(* since(after): what was collected after the cursor `after', the new      *)
(* cursor and how many samples the ring overwrote before they were read.   *)
Since(after) ==
  IF count = 0 \/ pushed < after
  THEN [seqs |-> {}, latest |-> after, lost |-> 0]
  ELSE [seqs   |-> Held(IF after + 1 > OldestSeq THEN after + 1 ELSE OldestSeq, pushed),
        latest |-> pushed,
        lost   |-> IF after < OldestSeq - 1 THEN OldestSeq - 1 - after ELSE 0]

-----------------------------------------------------------------------------

CacheTypeOK ==
  /\ slots \in [Slot -> Sample \cup {NoSample}]
  /\ slot_seq \in [Slot -> Nat]
  /\ pushed \in Nat
  /\ count \in 0..CAPACITY
  /\ overwritten \in Nat

(* The ring holds exactly the newest `count' samples: each of them is in   *)
(* its slot under its own number, nothing else is counted as valid, and    *)
(* the samples no longer held are the ones counted as overwritten.         *)
(* (bms_cache.lua: push writes "the slot to be overwritten next").         *)
RingHoldsNewest ==
  /\ \A seq \in (pushed - count + 1)..pushed :
        /\ slot_seq[Idx(seq)] = seq
        /\ slots[Idx(seq)] # NoSample
  /\ overwritten = pushed - count
  /\ count < CAPACITY => count = pushed
=============================================================================
