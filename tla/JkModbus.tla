------------------------------ MODULE JkModbus ------------------------------
(***************************************************************************)
(* The Modbus master of the air780epm firmware that collects from the JK   *)
(* BMS (jk_modbus.lua): one task asks for the blocks of a round one after  *)
(* the other, each answered, refused or timed out, and publishes the round *)
(* when its required blocks are there.                                     *)
(*                                                                         *)
(* The callback of the UART cuts frames out of the receive buffer and      *)
(* publishes them; a published message waits in the queue of the message   *)
(* pump, which is emptied before the next callback or timer runs, and is   *)
(* lost when the task does not wait for it (bms_data.lua:151).             *)
(*                                                                         *)
(* A frame is carried as its two halves, enough to be cut anywhere; bytes  *)
(* that belong to no frame, an echo of the request among them, are Noise.  *)
(* A half remembers whether it answers the request in flight (own): the    *)
(* code cannot see this.  Times are in units of JK_MODBUS_TIMEOUT_MS.      *)
(*                                                                         *)
(* Not modelled: the values of the registers but for the cell count, the   *)
(* counters no property reads, feed() and stop() of the self test.         *)
(***************************************************************************)
EXTENDS Integers, Sequences, SequencesExt

CONSTANTS
  READS,                    (* the blocks of a round, in order:            *)
                            (* [num, required], num being their registers  *)
  ALARM,                    (* which of them is the alarm bit map          *)
  MAX_CELLS,
  JK_CELL_CHANGE_DEBOUNCE,
  JK_MODBUS_RX_BUFF_SIZE,   (* in halves                                   *)
  JK_MODBUS_TIMEOUT,
  JK_MODBUS_POLL,
  JK_MODBUS_RETRY,
  JK_DATA_TIMEOUT,
  OpenRetry,                (* the pause after a failed uart.setup         *)
  BusCap,                   (* bound: halves on the wire                   *)
  PendingCap                (* bound: requests the slave still works on    *)

ASSUME PollAssumption ==
  /\ READS \in Seq([num : Nat \ {0}, required : BOOLEAN]) /\ READS # <<>>
  /\ ALARM \in DOMAIN READS
  /\ {MAX_CELLS, JK_MODBUS_POLL, JK_MODBUS_RETRY, JK_DATA_TIMEOUT, OpenRetry} \subseteq Nat
  /\ {JK_CELL_CHANGE_DEBOUNCE, JK_MODBUS_RX_BUFF_SIZE, JK_MODBUS_TIMEOUT,
      BusCap, PendingCap} \subseteq Nat \ {0}

VARIABLES
  phase,            (* closed; waiting for an answer (awaiting); pausing   *)
  got,              (* what the reads of this round gave so far            *)
  timer,            (* until the task is resumed by its time-out           *)
  rxb,
  queue,            (* JK_MB_RX messages published, not yet dispatched     *)
  state,            (* the last round, or NoRound                          *)
  last_cell_count,
  shrink_hits,
  age,              (* now_ms() - stats.last_round_ms while state is fresh *)
  detections,       (* history: cell counts of the last rounds, the newest *)
                    (* last, JK_CELL_CHANGE_DEBOUNCE of them               *)
  late,             (* history: in this round an answer to an earlier      *)
                    (* request came in that could be taken for one to the  *)
                    (* request then in flight                              *)
  pending,          (* external: requests the slave has not answered       *)
  bus               (* external: halves on their way to the UART           *)

cellVars == <<last_cell_count, shrink_hits, detections>>
roundVars == <<state, cellVars>>
vars == <<phase, got, timer, rxb, queue, roundVars, age, late, pending, bus>>

Reads == DOMAIN READS
Kinds == {"regs", "exception"}
Frame == [read : Reads, kind : Kinds, own : BOOLEAN]
Half == [read : Reads, kind : Kinds, own : BOOLEAN, part : {1, 2}]
Noise == [part |-> 0]

(* own: its own answer; foreign: an answer to another request              *)
Results == {"own", "foreign", "refused", "timeout"}
Present == {"own", "foreign"}
NoRound == [blocks |-> <<>>, complete |-> FALSE, sysAlarmValid |-> FALSE, stale |-> TRUE]

awaiting == phase = "waiting"
asked == Len(got) + 1
expected_num == READS[asked].num
fresh == ~state.stale

(* The longest that a fresh state can be old.                              *)
Pause == IF JK_MODBUS_POLL > JK_MODBUS_RETRY THEN JK_MODBUS_POLL ELSE JK_MODBUS_RETRY
MaxAge == JK_DATA_TIMEOUT + Pause + Len(READS) * JK_MODBUS_TIMEOUT

Init ==
  /\ phase = "closed" /\ got = <<>> /\ timer = 0
  /\ rxb = <<>> /\ queue = <<>>
  /\ state = NoRound /\ age = 0
  /\ last_cell_count = 0 /\ shrink_hits = 0 /\ detections = <<>>
  /\ late = FALSE /\ pending = <<>> /\ bus = <<>>

-----------------------------------------------------------------------------
(* Receiving                                                               *)

Halves(f) == [i \in 1..2 |-> [read |-> f.read, kind |-> f.kind, own |-> f.own, part |-> i]]
FrameOf(h) == [read |-> h.read, kind |-> h.kind, own |-> h.own]

(* A half that extract_frames takes for the start of a frame: while a      *)
(* request is in flight only one of the length it asked for, or an         *)
(* exception, which has no length.                                         *)
Starts(h) ==
  /\ h.part = 1
  /\ awaiting => h.kind = "exception" \/ READS[h.read].num = expected_num

FramesAt(s) == {p \in 1..Len(s) - 1 : Starts(s[p]) /\ s[p + 1] = [s[p] EXCEPT !.part = 2]}

(* The frames of s whose check sum is right, in their order.               *)
FramesIn(s) ==
  LET at == FramesAt(s)
      Nth(i) == CHOOSE p \in at : Cardinality({q \in at : q < p}) = i - 1
  IN  [i \in 1..Cardinality(at) |-> FrameOf(s[Nth(i)])]

(* What extract_frames leaves in the buffer: a start it has to wait for,   *)
(* and, with no request in flight, what stands before it since the last    *)
(* frame.                                                                  *)
RestOf(s) ==
  IF s = <<>> \/ ~Starts(s[Len(s)]) THEN <<>>
  ELSE IF awaiting THEN <<s[Len(s)]>>
  ELSE LET at == FramesAt(s)
           after == IF at = {} THEN 1 ELSE 2 + CHOOSE p \in at : \A q \in at : q <= p
       IN  SubSeq(s, after, Len(s))

(* The newest JK_MODBUS_RX_BUFF_SIZE halves of s.                          *)
Kept(s) == IF Len(s) <= JK_MODBUS_RX_BUFF_SIZE THEN s
           ELSE SubSeq(s, Len(s) - JK_MODBUS_RX_BUFF_SIZE + 1, Len(s))

(* The first n halves of the wire bring an answer to an earlier request    *)
(* that the code cannot tell from one to the request in flight.            *)
ComesLate(n) == \E i \in 1..n : awaiting /\ Starts(bus[i]) /\ ~bus[i].own

(* Mutated form: bytes coming in start the time-out anew.                  *)
OnReceiveProlongs(n) ==
  LET s == Kept(rxb \o SubSeq(bus, 1, n))
  IN  /\ phase # "closed" /\ queue = <<>>
      /\ bus' = SubSeq(bus, n + 1, Len(bus))
      /\ rxb' = RestOf(s)
      /\ queue' = IF awaiting THEN FramesIn(s) ELSE <<>>
      /\ timer' = IF awaiting THEN JK_MODBUS_TIMEOUT ELSE timer
      /\ late' = (late \/ ComesLate(n))
      /\ UNCHANGED <<phase, got, roundVars, age, pending>>

(* on_receive with the first n halves of the wire.                         *)
OnReceive(n) ==
  LET s == Kept(rxb \o SubSeq(bus, 1, n))
  IN  /\ phase # "closed" /\ queue = <<>>
      /\ bus' = SubSeq(bus, n + 1, Len(bus))
      /\ rxb' = RestOf(s)
      /\ queue' = IF awaiting THEN FramesIn(s) ELSE <<>>
      /\ late' = (late \/ ComesLate(n))
      /\ UNCHANGED <<phase, got, timer, roundVars, age, pending>>

-----------------------------------------------------------------------------
(* The polling task                                                        *)

(* Nothing that is under way answers the next request.                     *)
Foreign(s) == [i \in DOMAIN s |-> IF s[i] = Noise THEN Noise ELSE [s[i] EXCEPT !.own = FALSE]]

(* Mutated form: the buffer keeps what came before the request.            *)
AskKeeping(results) ==
  /\ phase' = "waiting" /\ got' = results
  /\ timer' = JK_MODBUS_TIMEOUT
  /\ rxb' = Foreign(rxb)
  /\ bus' = Foreign(bus)
  /\ late' = IF results = <<>> THEN FALSE ELSE late
  /\ \/ pending' = Foreign(pending)
     \/ /\ Len(pending) < PendingCap
        /\ pending' = Append(Foreign(pending), [read |-> Len(results) + 1, own |-> TRUE])
  /\ UNCHANGED <<roundVars, age>>

(* request_read up to its wait; `results' are those of the reads before.   *)
(* The request may be lost on the wire.                                    *)
Ask(results) ==
  /\ phase' = "waiting" /\ got' = results
  /\ timer' = JK_MODBUS_TIMEOUT
  /\ rxb' = <<>>
  /\ bus' = Foreign(bus)
  /\ late' = IF results = <<>> THEN FALSE ELSE late
  /\ \/ pending' = Foreign(pending)
     \/ /\ Len(pending) < PendingCap
        /\ pending' = Append(Foreign(pending), [read |-> Len(results) + 1, own |-> TRUE])
  /\ UNCHANGED <<roundVars, age>>

(* History: a round detected so many cells.                                *)
Detected(n) ==
  detections' = IF Len(detections) < JK_CELL_CHANGE_DEBOUNCE THEN Append(detections, n)
                ELSE Append(Tail(detections), n)

Grown(n) == n > last_cell_count
Shrunk(n) == n < last_cell_count

(* Mutated form: rounds with the confirmed count do not end a streak.      *)
CountCellsOverall(n) ==
  LET confirmed == shrink_hits + 1 >= JK_CELL_CHANGE_DEBOUNCE
  IN  /\ last_cell_count' = IF Grown(n) \/ (Shrunk(n) /\ confirmed) THEN n ELSE last_cell_count
      /\ shrink_hits' = IF Shrunk(n) /\ ~confirmed THEN shrink_hits + 1
                        ELSE IF n = last_cell_count THEN shrink_hits ELSE 0
      /\ Detected(n)

(* build_state's cell count for a round that detected n cells.             *)
CountCells(n) ==
  LET confirmed == shrink_hits + 1 >= JK_CELL_CHANGE_DEBOUNCE
  IN  /\ last_cell_count' = IF Grown(n) \/ (Shrunk(n) /\ confirmed) THEN n ELSE last_cell_count
      /\ shrink_hits' = IF Shrunk(n) /\ ~confirmed THEN shrink_hits + 1 ELSE 0
      /\ Detected(n)

RequiredIn(results) == \A i \in Reads : READS[i].required => results[i] \in Present

(* The end of poll_once with its required blocks: build_state.             *)
Publish(results) ==
  /\ RequiredIn(results)
  /\ state' = [blocks |-> results, complete |-> \A i \in Reads : results[i] \in Present,
               sysAlarmValid |-> TRUE, stale |-> FALSE]
  /\ \E n \in 0..MAX_CELLS : CountCells(n)
  /\ age' = 0 /\ timer' = JK_MODBUS_POLL

(* Mutated form: data goes stale in rounds without any answer only.        *)
FailSilent(results) ==
  /\ ~RequiredIn(results)
  /\ state' = [state EXCEPT !.stale = @ \/ (age > JK_DATA_TIMEOUT /\ \A i \in Reads : results[i] = "timeout")]
  /\ timer' = JK_MODBUS_RETRY
  /\ UNCHANGED <<age, cellVars>>

(* The end of poll_once without them.                                      *)
Fail(results) ==
  /\ ~RequiredIn(results)
  /\ state' = [state EXCEPT !.stale = @ \/ age > JK_DATA_TIMEOUT]
  /\ timer' = JK_MODBUS_RETRY
  /\ UNCHANGED <<age, cellVars>>

(* The task resumes with the result of the read it waited for: the next    *)
(* request, or the end of the round.                                       *)
Resume(result) ==
  LET results == Append(got, result)
  IN  \/ Len(results) < Len(READS) /\ Ask(results)
      \/ /\ Len(results) = Len(READS)
         /\ phase' = "pausing" /\ got' = results
         /\ rxb' = Foreign(rxb) /\ bus' = Foreign(bus) /\ pending' = Foreign(pending)
         /\ UNCHANGED late
         /\ Publish(results) \/ Fail(results)

(* parse_read_response on a frame whose check sum is right.                *)
Parsed(f) ==
  IF f.kind = "exception" \/ READS[f.read].num # expected_num THEN "refused"
  ELSE IF f.own THEN "own" ELSE "foreign"

(* The message pump hands the first message to the task, if it waits.      *)
Dispatch ==
  /\ queue # <<>>
  /\ queue' = Foreign(Tail(queue))
  /\ IF awaiting THEN Resume(Parsed(Head(queue)))
     ELSE UNCHANGED <<phase, got, timer, rxb, roundVars, age, late, pending, bus>>

TimedOut ==
  /\ awaiting /\ timer = 0 /\ queue = <<>>
  /\ Resume("timeout")
  /\ UNCHANGED queue

(* The pause is over: the next round begins.                               *)
Wake ==
  /\ phase = "pausing" /\ timer = 0 /\ queue = <<>>
  /\ Ask(<<>>)
  /\ UNCHANGED queue

OpenUart ==
  /\ phase = "closed" /\ timer = 0
  /\ Ask(<<>>)
  /\ UNCHANGED queue

OpenFails ==
  /\ phase = "closed" /\ timer = 0
  /\ timer' = OpenRetry
  /\ UNCHANGED <<phase, got, rxb, queue, roundVars, age, late, pending, bus>>

(* One unit of time; whoever is due runs first.                            *)
Tick ==
  /\ timer > 0 /\ queue = <<>>
  /\ timer' = timer - 1
  /\ age' = IF fresh /\ age <= MaxAge THEN age + 1 ELSE age
  /\ UNCHANGED <<phase, got, rxb, queue, roundVars, late, pending, bus>>

-----------------------------------------------------------------------------
(* The slave and the wire (external)                                       *)

wireUnchanged == UNCHANGED <<phase, got, timer, rxb, queue, roundVars, age, late>>

(* The slave answers its oldest request, or refuses it.                    *)
SlaveAnswers ==
  /\ pending # <<>> /\ Len(bus) + 2 <= BusCap
  /\ \E kind \in Kinds :
       LET request == Head(pending)
       IN  bus' = bus \o Halves([read |-> request.read, kind |-> kind, own |-> request.own])
  /\ pending' = Tail(pending)
  /\ wireUnchanged

(* It does not know the register: it keeps silent.                         *)
SlaveIgnores ==
  /\ pending # <<>> /\ pending' = Tail(pending)
  /\ UNCHANGED bus
  /\ wireUnchanged

(* Noise or an echo comes on, or destroys a half, or a half gets lost.     *)
Disturbed ==
  /\ \/ Len(bus) < BusCap /\ bus' = Append(bus, Noise)
     \/ \E i \in DOMAIN bus : bus' \in {[bus EXCEPT ![i] = Noise], RemoveAt(bus, i)}
  /\ UNCHANGED pending
  /\ wireUnchanged

(* However much of what is on the wire has come in.                        *)
Receive == \E n \in DOMAIN bus : OnReceive(n)

Task == Dispatch \/ TimedOut \/ Wake \/ OpenUart
Wire == SlaveAnswers \/ SlaveIgnores \/ Disturbed \/ Receive
Next == Task \/ OpenFails \/ Tick \/ Wire

(* Time passes and the scheduler runs a task that is due.  uart.setup that *)
(* keeps failing, a silent slave and a noisy line are all allowed.         *)
Spec == Init /\ [][Next]_vars /\ WF_vars(Dispatch) /\ WF_vars(TimedOut) /\ WF_vars(Wake) /\ WF_vars(Tick)

-----------------------------------------------------------------------------
(* Properties                                                              *)

HalfOrNoise == Half \cup {Noise}
Round == [blocks : {<<>>} \cup [Reads -> Results], complete : BOOLEAN,
          sysAlarmValid : BOOLEAN, stale : BOOLEAN]

(* Buffers keep to their sizes and a streak of smaller counts to its       *)
(* length (jk_modbus.lua:348, :471).                                       *)
TypeOK ==
  /\ phase \in {"closed", "waiting", "pausing"}
  /\ got \in Seq(Results) /\ Len(got) <= Len(READS) /\ (awaiting => Len(got) < Len(READS))
  /\ timer \in Nat /\ age \in 0..MaxAge + 1
  /\ rxb \in Seq(HalfOrNoise) /\ Len(rxb) <= JK_MODBUS_RX_BUFF_SIZE
  /\ queue \in Seq(Frame)
  /\ state \in Round
  /\ last_cell_count \in 0..MAX_CELLS
  /\ shrink_hits \in 0..JK_CELL_CHANGE_DEBOUNCE - 1
  /\ detections \in Seq(0..MAX_CELLS) /\ Len(detections) <= JK_CELL_CHANGE_DEBOUNCE
  /\ late \in BOOLEAN
  /\ pending \in Seq([read : Reads, own : BOOLEAN]) /\ Len(pending) <= PendingCap
  /\ bus \in Seq(HalfOrNoise) /\ Len(bus) <= BusCap

(* A round takes the answer to another request for one of its blocks only  *)
(* if that answer began to come in while the round waited for another one  *)
(* that looks the same: the half of an answer in the buffer, its other     *)
(* half after the next request, a message that was queued or went to a     *)
(* task in its pause never become a block (jk_modbus.lua:253, :357).       *)
OnlyLateIsTaken == (\E i \in DOMAIN got : got[i] = "foreign") => late

(* What jk_modbus.lua:253-254 says: no late frame is given to the next     *)
(* request, so that every block of a published round answers its own.      *)
(* A late answer of the length now asked for is taken all the same.        *)
RoundIsOwn == \A i \in DOMAIN state.blocks : state.blocks[i] # "foreign"

(* Data that is_fresh() vouches for is no older than JK_DATA_TIMEOUT_MS    *)
(* and one more pause and failed round, since a round that fails is what   *)
(* looks at the age (jk_modbus.lua:619).                                   *)
FreshIsRecent == fresh => age <= MaxAge

(* The cell count shrinks when, and only when, the last                    *)
(* JK_CELL_CHANGE_DEBOUNCE rounds all saw fewer cells                      *)
(* (air780epm/README.md:207).                                              *)
AllBelow(counts, n) ==
  Len(counts) = JK_CELL_CHANGE_DEBOUNCE /\ \A i \in DOMAIN counts : counts[i] < n
ShrinkIsConfirmed ==
  [][last_cell_count' < last_cell_count <=> AllBelow(detections', last_cell_count)]_vars

(* Whatever comes in, or does not, every round that was begun ends.        *)
RoundEnds == awaiting ~> phase = "pausing"

(* A round that says its alarm bits are valid has read them                *)
(* (jk_display.lua:320-321, bms_data.lua:134).                             *)
AlarmIsRead == state.sysAlarmValid => state.blocks[ALARM] \in Present
=============================================================================
