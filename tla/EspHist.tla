------------------------------ MODULE EspHist ------------------------------
(***************************************************************************)
(* The batches of the esp32 firmware (bms_hist.c): snapshots are gathered  *)
(* column by column, encoded in the shorter of two layouts with a mode per *)
(* column, and published by uplink_task.                                   *)
(*                                                                         *)
(* An encoded batch is the sequence of its numbers, since each number ends *)
(* itself; its size is in bytes.  The table of modes is one sequence.  Of  *)
(* the nine fixed columns three are kept, one signed, one that is clamped  *)
(* at zero, one the time.                                                  *)
(***************************************************************************)
EXTENDS Integers, Sequences

CONSTANTS
  Samples,          (* what the driver may have: [bat_current, cap_remain, *)
                    (* time, cell_mv], with the epoch it is taken at       *)
  BatchSettings,    (* batch_samples as configured                         *)
  MAX_SAMPLES,      (* BMS_HIST_MAX_SAMPLES                                *)
  MAX_CELLS,        (* BMS_MAX_CELLS                                       *)
  MAX_SIZE          (* BMS_HIST_MAX_SIZE, of both buffers                  *)

ASSUME HistAssumption ==
  /\ Samples \subseteq [bat_current : Int, cap_remain : Int, time : Nat, cell_mv : Seq(Nat)]
  /\ BatchSettings \subseteq Nat
  /\ {MAX_SAMPLES, MAX_CELLS, MAX_SIZE} \subseteq Nat \ {0}

VARIABLES
  batch_samples,
  rows,             (* the batch: [fixed, cells], count being its length   *)
  cell_count,
  taken,            (* history: the snapshots of the batch                 *)
  published         (* history: what the last step published, of which     *)
                    (* snapshots, if any                                   *)

histVars == <<batch_samples, rows, cell_count, taken, published>>

Smaller(a, b) == IF a < b THEN a ELSE b

-----------------------------------------------------------------------------
(* Numbers                                                                 *)

uvarint_len(v) ==
  LET len[u \in 0..v] == IF u >= 128 THEN 1 + len[u \div 128] ELSE 1
  IN  len[v]

Size(numbers) ==
  LET size[i \in 0..Len(numbers)] ==
        IF i = 0 THEN 0 ELSE size[i - 1] + uvarint_len(numbers[i])
  IN  size[Len(numbers)]

zigzag(n) == IF n >= 0 THEN 2 * n ELSE 2 * (-n) - 1

w_delta_code(delta) == IF delta = 0 THEN 1 ELSE zigzag(delta) + 2

Differences(v) == [i \in 1..(Len(v) - 1) |-> v[i + 1] - v[i]]

(* How often the number at i comes before another one.                     *)
Run(deltas, i) ==
  CHOOSE n \in 1..(Len(deltas) - i + 1) :
    /\ \A k \in 0..(n - 1) : deltas[i + k] = deltas[i]
    /\ i + n <= Len(deltas) => deltas[i + n] # deltas[i]

(* Mutated form: the codes of small numbers and of runs overlap.           *)
RunCodesClose(delta, run) ==
  LET single == [i \in 1..run |-> zigzag(delta) + 1]
      packed == <<2, zigzag(delta), run>>
  IN  IF delta = 0 THEN IF run = 1 THEN <<1>> ELSE <<0, run>>
      ELSE IF Size(packed) < Size(single) THEN packed ELSE single

RunCodes(delta, run) ==
  LET single == [i \in 1..run |-> zigzag(delta) + 2]
      packed == <<2, zigzag(delta), run>>
  IN  IF delta = 0 THEN IF run = 1 THEN <<1>> ELSE <<0, run>>
      ELSE IF Size(packed) < Size(single) THEN packed ELSE single

encode_delta_sequence(deltas) ==
  LET from[i \in 1..(Len(deltas) + 1)] ==
        IF i > Len(deltas) THEN <<>>
        ELSE RunCodes(deltas[i], Run(deltas, i)) \o from[i + Run(deltas, i)]
  IN  from[1]

-----------------------------------------------------------------------------
(* Columns                                                                 *)

Delta == 0
Delta2 == 1
Constant == 2
Linear == 3

encode_column(v, is_signed, mode) ==
  LET d1 == Differences(v) IN
  <<IF is_signed THEN zigzag(v[1]) ELSE v[1]>> \o
    (IF mode = Constant \/ d1 = <<>> THEN <<>>
     ELSE IF mode = Linear THEN <<w_delta_code(d1[1])>>
     ELSE encode_delta_sequence(IF mode = Delta2 THEN <<d1[1]>> \o Differences(d1) ELSE d1))

Unvarying(v) == \A i \in DOMAIN v : v[i] = v[1]

(* The modes that can hold the column.                                     *)
Modes(v) ==
  {Delta, Delta2} \cup (IF Unvarying(v) THEN {Constant} ELSE {})
    \cup (IF Unvarying(Differences(v)) THEN {Linear} ELSE {})

(* They are tried in the order of their numbers, but Delta2 comes last; the *)
(* first of the shortest is taken.                                         *)
Turn(mode) == IF mode = Delta2 THEN 4 ELSE mode

choose_column_mode(v, is_signed) ==
  LET column_length(mode) == Size(encode_column(v, is_signed, mode)) IN
  CHOOSE best \in Modes(v) : \A mode \in Modes(v) :
    \/ column_length(best) < column_length(mode)
    \/ column_length(best) = column_length(mode) /\ Turn(best) <= Turn(mode)

(* Of the fixed columns bat_current is; of the cells all but the first.    *)
IsSigned(idx) == idx = 1 \/ idx > 4

(* The first cell as it is, the others as what they differ from it by, or, *)
(* in the spatial layout, from the cell before.                            *)
build_column(batch, idx, spatial) ==
  [i \in DOMAIN batch |->
     LET cells == batch[i].cells
         j == idx - 3
     IN  IF idx <= 3 THEN batch[i].fixed[idx]
         ELSE IF j = 1 THEN cells[1]
         ELSE cells[j] - cells[IF spatial THEN j - 1 ELSE 1]]

-----------------------------------------------------------------------------
(* Batches                                                                 *)

Header(cells, spatial, modes) ==
  4 * cells + (IF spatial THEN 2 ELSE 0) + (IF modes # <<>> THEN 1 ELSE 0)

ModeSize(modes) == (2 * Len(modes) + 7) \div 8

HeaderSize(m) == uvarint_len(Header(m.cells, m.spatial, m.modes))

Bytes(m) == uvarint_len(m.count) + HeaderSize(m) + ModeSize(m.modes) + Size(m.data)

(* Mutated form: the table of modes is taken for free.                     *)
UseModesFreely(saved, with, without) == saved > 0

(* One layout with the modes that pay for their table.                     *)
UseModes(saved, with, without) ==
  saved > ModeSize(with.modes) + HeaderSize(with) - HeaderSize(without)

Column(batch, spatial, modes, idx) ==
  encode_column(build_column(batch, idx, spatial), IsSigned(idx),
                IF modes = <<>> THEN Delta ELSE modes[idx])

Layout(batch, cells, spatial, modes) ==
  LET upto[idx \in 0..(3 + cells)] ==
        IF idx = 0 THEN <<>> ELSE upto[idx - 1] \o Column(batch, spatial, modes, idx)
  IN  [count |-> Len(batch) - 1, cells |-> cells, spatial |-> spatial, modes |-> modes,
       data |-> upto[3 + cells]]

encode_layout(batch, cells, spatial) ==
  LET cols == 3 + cells
      best == [idx \in 1..cols |-> choose_column_mode(build_column(batch, idx, spatial), IsSigned(idx))]
      with == Layout(batch, cells, spatial, best)
      without == Layout(batch, cells, spatial, <<>>)
      saved == Size(without.data) - Size(with.data)
  IN  IF UseModes(saved, with, without) THEN with ELSE without

(* The shorter layout, if it fits; no payload otherwise.                   *)
bms_hist_encode(batch, cells) ==
  LET offset == encode_layout(batch, cells, FALSE)
      spatial == encode_layout(batch, cells, TRUE)
      fits == {m \in IF cells = 0 THEN {offset} ELSE {offset, spatial} : Bytes(m) <= MAX_SIZE}
  IN  {m \in fits : IF m.spatial THEN offset \notin fits \/ Bytes(m) < Bytes(offset)
                    ELSE spatial \notin fits \/ Bytes(m) <= Bytes(spatial)}

Row(snap, cells) ==
  [fixed |-> <<snap.bat_current, IF snap.cap_remain < 0 THEN 0 ELSE snap.cap_remain, snap.time>>,
   cells |-> [j \in 1..MAX_CELLS |->
                IF j <= Smaller(cells, Len(snap.cell_mv)) THEN snap.cell_mv[j] ELSE 0]]

(* A snapshot with the first cells decides how many the batch has.         *)
bms_hist_add(snap) ==
  LET cells == IF cell_count = 0 THEN Smaller(Len(snap.cell_mv), MAX_CELLS) ELSE cell_count
  IN  [rows |-> Append(rows, Row(snap, cells)), cell_count |-> cells]

-----------------------------------------------------------------------------

HistInit ==
  /\ \E n \in BatchSettings :
       batch_samples = IF n < 1 THEN 1 ELSE Smaller(n, MAX_SAMPLES)
  /\ rows = <<>> /\ cell_count = 0
  /\ taken = <<>> /\ published = {}

(* The sampling of uplink_task: the batch is published when it is full or  *)
(* asked for, and cleared whether or not it could be encoded.              *)
Gather(snap) ==
  LET h == bms_hist_add(snap) IN
  /\ Len(h.rows) < batch_samples
  /\ rows' = h.rows /\ cell_count' = h.cell_count
  /\ taken' = Append(taken, snap)
  /\ published' = {}
  /\ UNCHANGED batch_samples

Publish(snap) ==
  LET h == bms_hist_add(snap) IN
  /\ rows' = <<>> /\ cell_count' = 0 /\ taken' = <<>>
  /\ published' = {[of |-> Append(taken, snap), rows |-> h.rows,
                    message |-> bms_hist_encode(h.rows, h.cell_count)]}
  /\ UNCHANGED batch_samples

HistNext == \E snap \in Samples : Gather(snap) \/ Publish(snap)

HistSpec == HistInit /\ [][HistNext]_histVars

-----------------------------------------------------------------------------
(* What the receiver makes of it, from the format alone                    *)

Unzigzag(u) == IF u % 2 = 0 THEN u \div 2 ELSE -((u + 1) \div 2)

(* How many numbers a code has, and the differences it stands for.         *)
CodeLength(data, p) == CASE data[p] = 0 -> 2 [] data[p] = 2 -> 3 [] OTHER -> 1

CodeMeans(data, p) ==
  CASE data[p] = 0 -> [i \in 1..data[p + 1] |-> 0]
    [] data[p] = 1 -> <<0>>
    [] data[p] = 2 -> [i \in 1..data[p + 2] |-> Unzigzag(data[p + 1])]
    [] OTHER -> <<Unzigzag(data[p] - 2)>>

(* One more code, if it is all there.                                      *)
ReadCode(data, s) ==
  IF s.next > Len(data) \/ s.next + CodeLength(data, s.next) - 1 > Len(data)
  THEN s
  ELSE [deltas |-> s.deltas \o CodeMeans(data, s.next),
        next |-> s.next + CodeLength(data, s.next)]

(* n differences, each code having one or more of them.                    *)
ReadDeltas(data, p, n) ==
  LET read[k \in 0..n] ==
        IF k = 0 THEN [deltas |-> <<>>, next |-> p]
        ELSE LET s == read[k - 1] IN IF Len(s.deltas) < n THEN ReadCode(data, s) ELSE s
  IN  read[n]

(* first, and then the sum of it and each prefix of deltas.                *)
Sums(first, deltas) ==
  LET sum[i \in 1..(Len(deltas) + 1)] ==
        IF i = 1 THEN first ELSE sum[i - 1] + deltas[i - 1]
  IN  sum

ReadColumn(data, p, n, is_signed, mode) ==
  LET need == CASE mode = Constant -> 0 [] mode = Linear -> Smaller(n - 1, 1) [] OTHER -> n - 1
      d == ReadDeltas(data, p + 1, need)
      steps == CASE mode = Constant -> [i \in 1..(n - 1) |-> 0]
                 [] mode = Linear -> [i \in 1..(n - 1) |-> d.deltas[1]]
                 [] mode = Delta2 /\ n > 1 -> Sums(d.deltas[1], Tail(d.deltas))
                 [] OTHER -> d.deltas
  IN  IF p > Len(data) \/ Len(d.deltas) # need
      THEN [values |-> [i \in 1..n |-> 0], next |-> p, whole |-> FALSE]
      ELSE [values |-> Sums(IF is_signed THEN Unzigzag(data[p]) ELSE data[p], steps),
            next |-> d.next, whole |-> TRUE]

(* The columns of a message, each behind the one before it.                *)
ReadColumns(m) ==
  LET column[idx \in 0..(3 + m.cells)] ==
        IF idx = 0 THEN [values |-> <<>>, next |-> 1, whole |-> TRUE]
        ELSE ReadColumn(m.data, column[idx - 1].next, m.count + 1, IsSigned(idx),
                        IF m.modes = <<>> THEN Delta ELSE m.modes[idx])
  IN  column

(* The voltage of cell j in row i.                                         *)
ReadCell(m, read, i, j) ==
  LET At(k) == read[3 + k].values[i] IN
  IF m.spatial THEN Sums(At(1), [k \in 1..(m.cells - 1) |-> At(k + 1)])[j]
  ELSE IF j = 1 THEN At(1) ELSE At(1) + At(j)

-----------------------------------------------------------------------------
(* Properties                                                              *)

(* What the receiver reads in a message is what the snapshots said: their  *)
(* number, current, time, capacity if not negative, and the voltage of     *)
(* each cell the batch has, zero where the snapshot had fewer; nothing is  *)
(* left over (main/bms_hist.h:10, README.md:87).                           *)
MessageIsBatch ==
  \A p \in published : \A m \in p.message :
    LET read == ReadColumns(m) IN
    /\ m.count + 1 = Len(p.of)
    /\ \A idx \in 1..(3 + m.cells) : read[idx].whole
    /\ read[3 + m.cells].next = Len(m.data) + 1
    /\ \A i \in DOMAIN p.of :
         /\ read[1].values[i] = p.of[i].bat_current
         /\ read[2].values[i] = IF p.of[i].cap_remain < 0 THEN 0 ELSE p.of[i].cap_remain
         /\ read[3].values[i] = p.of[i].time
         /\ \A j \in 1..m.cells :
              ReadCell(m, read, i, j) =
                IF j <= Len(p.of[i].cell_mv) THEN p.of[i].cell_mv[j] ELSE 0
    /\ \A i \in DOMAIN p.of : m.cells = 0 => p.of[i].cell_mv = <<>>

(* A message fits, no plain layout would have been shorter, and a batch is *)
(* given up only if no plain layout fits: what the modes save pays for     *)
(* their table (bms_hist.c:320-324).                                       *)
NoPlainIsShorter ==
  \A p \in published :
    LET with == {i \in DOMAIN p.of : p.of[i].cell_mv # <<>>}
        first == CHOOSE i \in with : \A k \in with : i <= k
        cells == IF with = {} THEN 0 ELSE Smaller(Len(p.of[first].cell_mv), MAX_CELLS)
    IN  \A spatial \in IF cells = 0 THEN {FALSE} ELSE BOOLEAN :
          LET plain == Bytes(Layout(p.rows, cells, spatial, <<>>))
          IN  /\ p.message = {} => plain > MAX_SIZE
              /\ \A m \in p.message : Bytes(m) <= MAX_SIZE /\ Bytes(m) <= plain
=============================================================================
