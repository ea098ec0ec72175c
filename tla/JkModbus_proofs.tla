---------------------------- MODULE JkModbus_proofs ----------------------------
(***************************************************************************)
(* Results about the JK BMS poller that hold for every list of reads,      *)
(* every debounce and every time-out: when the cell count shrinks, how old *)
(* the data are that count as fresh, and that a round takes no answers but *)
(* those to its own requests unless one comes late enough to look like it. *)
(***************************************************************************)
EXTENDS JkModbus, SequenceTheorems, FiniteSetTheorems, WellFoundedInduction, TLAPS

D == JK_CELL_CHANGE_DEBOUNCE

LEMMA Constants ==
  /\ D \in Nat \ {0} /\ MAX_CELLS \in Nat
  /\ JK_MODBUS_TIMEOUT \in Nat /\ JK_MODBUS_POLL \in Nat /\ JK_MODBUS_RETRY \in Nat
  /\ JK_DATA_TIMEOUT \in Nat /\ OpenRetry \in Nat
  /\ Len(READS) \in Nat \ {0} /\ Reads = 1 .. Len(READS)
<1>1. Len(READS) \in Nat \ {0} /\ Reads = 1 .. Len(READS)
  BY PollAssumption, EmptySeq, LenProperties DEF Reads
<1> QED BY <1>1, PollAssumption DEF D

-----------------------------------------------------------------------------
(* The streak of smaller counts: shrink_hits is how many of the last       *)
(* rounds, counted back from the newest, detected fewer cells than are     *)
(* confirmed; the round before them, if it is remembered, did not.         *)
CellType ==
  /\ last_cell_count \in Nat /\ shrink_hits \in 0 .. D - 1
  /\ detections \in Seq(Nat) /\ Len(detections) \in shrink_hits .. D

CellInv ==
  /\ CellType
  /\ \A i \in Len(detections) - shrink_hits + 1 .. Len(detections) :
       detections[i] < last_cell_count
  /\ shrink_hits < Len(detections) =>
       detections[Len(detections) - shrink_hits] >= last_cell_count

(* Only the end of a round counts cells.                                   *)
LEMMA OnlyRoundsCount ==
  ASSUME [Next]_vars
  PROVE  UNCHANGED cellVars \/ \E n \in 0 .. MAX_CELLS : CountCells(n)
<1> USE DEF roundVars
<1>1. ASSUME NEW results, Ask(results) PROVE UNCHANGED cellVars
  BY <1>1 DEF Ask
<1>2. ASSUME NEW result, Resume(result)
      PROVE  UNCHANGED cellVars \/ \E n \in 0 .. MAX_CELLS : CountCells(n)
  BY <1>1, <1>2 DEF Resume, Publish, Fail
<1>3. CASE Task
  BY <1>1, <1>2, <1>3 DEF Task, Dispatch, TimedOut, Wake, OpenUart
<1>4. CASE OpenFails \/ Tick
  BY <1>4 DEF OpenFails, Tick
<1>5. CASE Wire
  BY <1>5 DEF Wire, SlaveAnswers, SlaveIgnores, Disturbed, Receive, OnReceive, wireUnchanged
<1>6. CASE UNCHANGED vars
  BY <1>6 DEF vars
<1> QED BY <1>3, <1>4, <1>5, <1>6 DEF Next

(* What a round's count does to the remembered ones: they move up by one   *)
(* when there is no room, and the new one is the last.                     *)
LEMMA Remembered ==
  ASSUME CellType, NEW n \in Nat, Detected(n)
  PROVE  \E s \in {0, 1} :
           /\ s = 1 <=> Len(detections) = D
           /\ detections' \in Seq(Nat)
           /\ Len(detections') = Len(detections) - s + 1
           /\ detections'[Len(detections')] = n
           /\ \A i \in 1 .. Len(detections) - s : detections'[i] = detections[i + s]
<1> USE DEF CellType
<1>1. CASE Len(detections) < D
  <2>1. detections' = Append(detections, n)
    BY <1>1 DEF Detected, D
  <2> QED BY <1>1, <2>1, AppendProperties
<1>2. CASE Len(detections) = D
  <2>1. detections' = Append(Tail(detections), n)
    BY <1>2, Constants DEF Detected, D
  <2>2. detections # <<>>
    BY <1>2, Constants
  <2>3. /\ Tail(detections) \in Seq(Nat) /\ Len(Tail(detections)) = Len(detections) - 1
        /\ \A i \in 1 .. Len(detections) - 1 : Tail(detections)[i] = detections[i + 1]
    BY <2>2, HeadTailProperties
  <2> QED BY <1>2, <2>1, <2>3, AppendProperties, LenProperties
<1> QED BY <1>1, <1>2, Constants

(* A round that counts keeps the streak, and lets the confirmed count      *)
(* shrink just when all that is remembered is below it.                    *)
LEMMA CountCellsKeeps ==
  ASSUME CellInv, NEW n \in 0 .. MAX_CELLS, CountCells(n)
  PROVE  /\ CellInv'
         /\ last_cell_count' < last_cell_count <=> AllBelow(detections', last_cell_count)
<1> DEFINE confirmed == shrink_hits + 1 >= D
           L == Len(detections)
<1>1. /\ n \in Nat /\ D \in Nat \ {0} /\ last_cell_count \in Nat
      /\ shrink_hits \in 0 .. D - 1 /\ L \in shrink_hits .. D
  BY Constants DEF CellInv, CellType
<1>2. PICK s \in {0, 1} :
        /\ s = 1 <=> L = D
        /\ detections' \in Seq(Nat)
        /\ Len(detections') = L - s + 1
        /\ detections'[Len(detections')] = n
        /\ \A i \in 1 .. L - s : detections'[i] = detections[i + s]
  BY <1>1, Remembered DEF CellInv, CountCells
<1>3. /\ \A i \in L - shrink_hits + 1 .. L : detections[i] < last_cell_count
      /\ shrink_hits < L => detections[L - shrink_hits] >= last_cell_count
  BY DEF CellInv
<1>4. /\ last_cell_count' = IF n > last_cell_count \/ (n < last_cell_count /\ confirmed)
                              THEN n ELSE last_cell_count
      /\ shrink_hits' = IF n < last_cell_count /\ ~confirmed THEN shrink_hits + 1 ELSE 0
  BY DEF CountCells, Grown, Shrunk, D
<1> HIDE DEF L
<1>5. CASE n < last_cell_count /\ ~confirmed
  <2>1. last_cell_count' = last_cell_count /\ shrink_hits' = shrink_hits + 1
    BY <1>1, <1>4, <1>5
  <2>2. ASSUME NEW i \in Len(detections') - shrink_hits' + 1 .. Len(detections')
        PROVE  detections'[i] < last_cell_count
    <3>1. CASE i = Len(detections')
      BY <1>2, <1>5, <3>1
    <3>2. CASE i # Len(detections')
      <4>1. i \in 1 .. L - s /\ i + s \in L - shrink_hits + 1 .. L
        BY <1>1, <1>2, <1>5, <2>1, <3>2
      <4> QED BY <1>2, <1>3, <4>1
    <3> QED BY <3>1, <3>2
  <2>3. ASSUME shrink_hits' < Len(detections')
        PROVE  detections'[Len(detections') - shrink_hits'] >= last_cell_count
    <3>1. /\ shrink_hits < L /\ Len(detections') - shrink_hits' \in 1 .. L - s
          /\ Len(detections') - shrink_hits' + s = L - shrink_hits
      BY <1>1, <1>2, <1>5, <2>1, <2>3
    <3> QED BY <1>2, <1>3, <3>1
  <2>4. CellType'
    BY <1>1, <1>2, <1>5, <2>1 DEF CellType
  <2>5. ~AllBelow(detections', last_cell_count)
    <3> SUFFICES ASSUME Len(detections') = D PROVE \E i \in DOMAIN detections' : ~(detections'[i] < last_cell_count)
      BY DEF AllBelow, D
    <3>1. shrink_hits' < Len(detections') /\ Len(detections') - shrink_hits' \in 1 .. Len(detections')
      BY <1>1, <1>2, <1>5, <2>1
    <3>2. Len(detections') - shrink_hits' \in DOMAIN detections'
      BY <1>2, <3>1, LenProperties
    <3>3. detections'[Len(detections') - shrink_hits'] \in Nat
      BY <1>2, <3>1, ElementOfSeq
    <3> QED BY <1>1, <2>3, <3>1, <3>2, <3>3
  <2> QED BY <1>1, <2>1, <2>2, <2>3, <2>4, <2>5 DEF CellInv
<1>6. CASE ~(n < last_cell_count /\ ~confirmed)
  <2>1. /\ shrink_hits' = 0 /\ n >= last_cell_count'
        /\ last_cell_count' \in Nat
        /\ last_cell_count' < last_cell_count <=> n < last_cell_count
    BY <1>1, <1>4, <1>6
  <2>2. CellInv'
    BY <1>1, <1>2, <2>1 DEF CellInv, CellType
  <2>3. Len(detections') \in DOMAIN detections'
    BY <1>1, <1>2, LenProperties
  <2>4. ASSUME n < last_cell_count PROVE AllBelow(detections', last_cell_count)
    <3>1. /\ shrink_hits = D - 1 /\ Len(detections') = D
      BY <1>1, <1>2, <1>6, <2>4
    <3>2. ASSUME NEW i \in 1 .. D PROVE detections'[i] < last_cell_count
      <4>1. CASE i = D
        BY <1>2, <2>4, <3>1, <4>1
      <4>2. CASE i # D
        <5>1. i \in 1 .. L - s /\ i + s \in L - shrink_hits + 1 .. L
          BY <1>1, <1>2, <3>1, <4>2
        <5> QED BY <1>2, <1>3, <5>1
      <4> QED BY <4>1, <4>2
    <3>3. DOMAIN detections' = 1 .. D
      BY <1>2, <3>1, LenProperties
    <3> QED BY <3>1, <3>2, <3>3 DEF AllBelow, D
  <2> QED BY <1>1, <1>2, <2>1, <2>2, <2>3, <2>4 DEF AllBelow
<1> QED BY <1>5, <1>6

(* The confirmed cell count shrinks when, and only when, the last          *)
(* JK_CELL_CHANGE_DEBOUNCE rounds all saw fewer cells: build_state counts  *)
(* them in shrink_hits and begins anew with every other round.             *)
THEOREM ShrinksWhenConfirmed == Spec => ShrinkIsConfirmed
<1>1. Init => CellInv
  BY Constants, EmptySeq DEF Init, CellInv, CellType
<1>2. ASSUME CellInv, UNCHANGED cellVars
      PROVE  /\ CellInv'
             /\ last_cell_count' < last_cell_count <=> AllBelow(detections', last_cell_count)
  <2>1. UNCHANGED <<last_cell_count, shrink_hits, detections>>
    BY <1>2 DEF cellVars
  <2>2. ASSUME Len(detections) = D PROVE ~AllBelow(detections, last_cell_count)
    <3> DEFINE i == Len(detections) - shrink_hits
    <3>1. i \in 1 .. Len(detections) /\ i \in DOMAIN detections /\ detections[i] \in Nat
      BY <1>2, <2>2, Constants, LenProperties, ElementOfSeq DEF CellInv, CellType
    <3>2. detections[i] >= last_cell_count /\ last_cell_count \in Nat
      BY <1>2, <2>2, Constants DEF CellInv, CellType
    <3> QED BY <3>1, <3>2 DEF AllBelow
  <2> QED BY <1>2, <2>1, <2>2 DEF CellInv, CellType, AllBelow, D
<1>3. CellInv /\ [Next]_vars => CellInv'
  BY <1>2, OnlyRoundsCount, CountCellsKeeps
<1>4. CellInv /\ [Next]_vars =>
        [last_cell_count' < last_cell_count <=> AllBelow(detections', last_cell_count)]_vars
  BY <1>2, OnlyRoundsCount, CountCellsKeeps
<1> QED BY <1>1, <1>3, <1>4, PTL DEF Spec, ShrinkIsConfirmed

-----------------------------------------------------------------------------
(* How old fresh data can be, by what is left until the task is resumed:   *)
(* in a pause what the last round's end allowed, in the k-th read of a     *)
(* round up to k time-outs more.                                           *)
Budget(k) == JK_DATA_TIMEOUT + Pause + k * JK_MODBUS_TIMEOUT

AgeInv ==
  /\ phase \in {"closed", "waiting", "pausing"}
  /\ timer \in Nat /\ age \in Nat
  /\ got \in Seq(Results) /\ state \in Round
  /\ phase = "closed" => state.stale
  /\ phase = "waiting" => Len(got) < Len(READS)
  /\ phase = "waiting" /\ fresh => age + timer <= Budget(Len(got) + 1)
  /\ phase = "pausing" /\ fresh => age + timer <= JK_DATA_TIMEOUT + Pause

LEMMA Pauses ==
  /\ Pause \in Nat /\ Pause >= JK_MODBUS_POLL /\ Pause >= JK_MODBUS_RETRY
  /\ JK_DATA_TIMEOUT + Pause \in Nat
BY Constants DEF Pause

LEMMA Budgets ==
  /\ MaxAge \in Nat
  /\ \A k \in Nat : /\ Budget(k) \in Nat /\ Budget(k) >= JK_DATA_TIMEOUT + Pause
                    /\ Budget(k + 1) = Budget(k) + JK_MODBUS_TIMEOUT
                    /\ k <= Len(READS) => Budget(k) <= MaxAge
<1>1. ASSUME NEW k \in Nat
      PROVE  /\ k * JK_MODBUS_TIMEOUT \in Nat
             /\ (k + 1) * JK_MODBUS_TIMEOUT = k * JK_MODBUS_TIMEOUT + JK_MODBUS_TIMEOUT
             /\ k <= Len(READS) => k * JK_MODBUS_TIMEOUT <= Len(READS) * JK_MODBUS_TIMEOUT
  BY Constants
<1>2. Len(READS) * JK_MODBUS_TIMEOUT \in Nat
  BY Constants
<1> QED BY <1>1, <1>2, Pauses, Constants DEF Budget, MaxAge

(* Fresh data are within the bound.                                        *)
LEMMA AgeBounded == ASSUME AgeInv PROVE FreshIsRecent
<1>1. CASE phase = "waiting"
  <2>1. Len(got) + 1 \in Nat /\ Len(got) + 1 <= Len(READS)
    BY <1>1, Constants, LenProperties DEF AgeInv
  <2>2. Budget(Len(got) + 1) <= MaxAge /\ Budget(Len(got) + 1) \in Nat /\ MaxAge \in Nat
    BY <2>1, Budgets
  <2> QED BY <1>1, <2>2 DEF AgeInv, FreshIsRecent
<1>2. CASE phase = "pausing"
  <2>1. Budget(0) <= MaxAge /\ Budget(0) >= JK_DATA_TIMEOUT + Pause
        /\ Budget(0) \in Nat /\ MaxAge \in Nat
    BY Budgets, Constants
  <2> QED BY <1>2, <2>1, Pauses DEF AgeInv, FreshIsRecent
<1>3. CASE phase = "closed"
  BY <1>3 DEF AgeInv, FreshIsRecent, fresh
<1> QED BY <1>1, <1>2, <1>3 DEF AgeInv

(* A request that the data are young enough for.                           *)
LEMMA AskKeepsAge ==
  ASSUME AgeInv, NEW results \in Seq(Results), Len(results) < Len(READS), Ask(results),
         fresh => age <= Budget(Len(results))
  PROVE  AgeInv'
<1>1. /\ phase' = "waiting" /\ got' = results /\ timer' = JK_MODBUS_TIMEOUT
      /\ UNCHANGED <<state, age>>
  BY DEF Ask, roundVars
<1>2. /\ Budget(Len(results) + 1) = Budget(Len(results)) + JK_MODBUS_TIMEOUT
      /\ Budget(Len(results)) \in Nat
  BY Budgets, LenProperties
<1> QED BY <1>1, <1>2, Constants DEF AgeInv, fresh

(* A read that has ended: its round goes on or has its end, where data as  *)
(* old as JK_DATA_TIMEOUT cease to be fresh.                               *)
LEMMA ResumeKeepsAge ==
  ASSUME AgeInv, phase = "waiting", NEW result \in Results, Resume(result)
  PROVE  AgeInv'
<1> DEFINE results == Append(got, result)
<1>1. /\ results \in Seq(Results) /\ Len(results) = Len(got) + 1
      /\ results \in [1 .. Len(results) -> Results]
  <2>1. results \in Seq(Results) /\ Len(results) = Len(got) + 1
    BY AppendProperties DEF AgeInv
  <2> HIDE DEF results
  <2> QED BY <2>1
<1>2. fresh => age <= Budget(Len(results))
  <2>1. Budget(Len(got) + 1) \in Nat
    BY Budgets, LenProperties DEF AgeInv
  <2> QED BY <1>1, <2>1 DEF AgeInv
<1>3. CASE Len(results) < Len(READS) /\ Ask(results)
  BY <1>1, <1>2, <1>3, AskKeepsAge
<1>4. CASE /\ Len(results) = Len(READS) /\ phase' = "pausing" /\ got' = results
           /\ Publish(results)
  <2>1. /\ state' = [blocks |-> results, complete |-> \A i \in Reads : results[i] \in Present,
                     sysAlarmValid |-> TRUE, stale |-> FALSE]
        /\ age' = 0 /\ timer' = JK_MODBUS_POLL
    BY <1>4 DEF Publish
  <2>2. results \in [Reads -> Results]
    BY <1>1, <1>4, Constants
  <2> HIDE DEF results
  <2>3. state' \in Round
    BY <2>1, <2>2 DEF Round
  <2> QED BY <1>1, <1>4, <2>1, <2>3, Pauses, Constants DEF AgeInv, fresh
<1>5. CASE /\ Len(results) = Len(READS) /\ phase' = "pausing" /\ got' = results
           /\ Fail(results)
  <2>1. /\ state' = [state EXCEPT !.stale = @ \/ age > JK_DATA_TIMEOUT]
        /\ age' = age /\ timer' = JK_MODBUS_RETRY
    BY <1>5 DEF Fail
  <2> DEFINE old == age > JK_DATA_TIMEOUT
  <2>2. old \in BOOLEAN /\ (~old => age <= JK_DATA_TIMEOUT)
    BY Constants DEF AgeInv
  <2> HIDE DEF old
  <2>3. state' \in Round /\ (~state'.stale => ~old)
    BY <2>1, <2>2 DEF AgeInv, Round, old
  <2> HIDE DEF results
  <2> QED BY <1>1, <1>5, <2>1, <2>2, <2>3, Pauses, Constants DEF AgeInv, fresh
<1> QED BY <1>3, <1>4, <1>5 DEF Resume

LEMMA AgeInvStep == ASSUME AgeInv, [Next]_vars PROVE AgeInv'
<1>1. ASSUME UNCHANGED <<phase, got, timer, state, age>> PROVE AgeInv'
  BY <1>1 DEF AgeInv, fresh
<1>2. CASE Dispatch
  <2>1. CASE awaiting
    <3>1. Parsed(Head(queue)) \in Results
      BY DEF Parsed, Results
    <3> QED BY <1>2, <2>1, <3>1, ResumeKeepsAge DEF Dispatch, awaiting
  <2>2. CASE ~awaiting
    BY <1>1, <1>2, <2>2 DEF Dispatch, roundVars
  <2> QED BY <2>1, <2>2
<1>3. CASE TimedOut
  <2>1. "timeout" \in Results
    BY DEF Results
  <2> QED BY <1>3, <2>1, ResumeKeepsAge DEF TimedOut, awaiting
<1>4. CASE Wake \/ OpenUart
  <2>1. Ask(<<>>) /\ phase \in {"pausing", "closed"}
    BY <1>4 DEF Wake, OpenUart
  <2>2. fresh => age <= JK_DATA_TIMEOUT + Pause
    BY <2>1, Pauses DEF AgeInv, fresh
  <2>3. Budget(0) >= JK_DATA_TIMEOUT + Pause /\ Budget(0) \in Nat
    BY Budgets
  <2>4. fresh => age <= Budget(0)
    BY <2>2, <2>3, Pauses DEF AgeInv
  <2> DEFINE none == <<>>
  <2>5. none \in Seq(Results) /\ Len(none) = 0
    BY EmptySeq
  <2> HIDE DEF none
  <2>6. Ask(none)
    BY <2>1 DEF none
  <2>7. fresh => age <= Budget(Len(none))
    BY <2>4, <2>5
  <2>8. Len(none) < Len(READS)
    BY <2>5, Constants
  <2> QED BY <2>5, <2>6, <2>7, <2>8, AskKeepsAge
<1>5. CASE OpenFails
  <2>1. /\ phase = "closed" /\ timer' = OpenRetry /\ UNCHANGED <<phase, got, state, age>>
    BY <1>5 DEF OpenFails, roundVars
  <2> QED BY <2>1, Constants DEF AgeInv, fresh
<1>6. CASE Tick
  <2>1. /\ timer > 0 /\ timer' = timer - 1 /\ UNCHANGED <<phase, got, state>>
        /\ age' \in {age, age + 1}
    BY <1>6 DEF Tick, roundVars
  <2>2. timer' \in Nat /\ age' \in Nat /\ age' + timer' <= age + timer
    <3>1. timer \in Nat /\ age \in Nat
      BY DEF AgeInv
    <3>2. timer > 0 /\ timer' = timer - 1 /\ (age' = age \/ age' = age + 1)
      BY <2>1
    <3> QED BY <3>1, <3>2
  <2>3. Budget(Len(got) + 1) \in Nat
    BY Budgets, LenProperties DEF AgeInv
  <2> QED BY <2>1, <2>2, <2>3, Pauses DEF AgeInv, fresh
<1>7. CASE Wire
  BY <1>1, <1>7 DEF Wire, SlaveAnswers, SlaveIgnores, Disturbed, Receive, OnReceive,
                    wireUnchanged, roundVars
<1>8. CASE UNCHANGED vars
  BY <1>1, <1>8 DEF vars, roundVars
<1> QED BY <1>2, <1>3, <1>4, <1>5, <1>6, <1>7, <1>8 DEF Next, Task

(* Data that is_fresh() vouches for are no older than the data time-out,   *)
(* one pause and one round of time-outs, whatever the slave and the wire   *)
(* do: poll_once looks at the age at the end of every round that fails.    *)
THEOREM FreshDataAreRecent == Spec => []FreshIsRecent
<1>1. Init => AgeInv
  BY EmptySeq DEF Init, AgeInv, NoRound, Round, fresh
<1>2. AgeInv /\ [Next]_vars => AgeInv'
  BY AgeInvStep
<1>3. AgeInv => FreshIsRecent
  BY AgeBounded
<1> QED BY <1>1, <1>2, <1>3, PTL DEF Spec

-----------------------------------------------------------------------------
(* Which request an answer answers.  A half may be the start of an answer  *)
(* to the request in flight; there is one such half, or such a frame, or   *)
(* such a request with the slave, and no more than one of the three.       *)
OwnAt(s, i) == i \in 1 .. Len(s) /\ s[i].part = 1 /\ s[i].own
NoneOwn(s) == \A i \in 1 .. Len(s) : ~OwnAt(s, i)
OneOwn(s) == \A i, j \in 1 .. Len(s) : OwnAt(s, i) /\ OwnAt(s, j) => i = j

Halfs == Seq(HalfOrNoise)
Request == [read : Reads, own : BOOLEAN]

Unasked == \A i \in 1 .. Len(pending) : ~pending[i].own

LineType == rxb \in Halfs /\ bus \in Halfs /\ pending \in Seq(Request)

WireType ==
  /\ rxb \in Halfs /\ bus \in Halfs
  /\ pending \in Seq(Request) /\ queue \in Seq(Frame)

(* A frame that is queued is the answer the task waits for.                *)
QueueInv == queue # <<>> => awaiting /\ Len(queue) = 1 /\ queue[1].own

(* What the callback may cut a frame from is of this request.              *)
StartsOwn == awaiting => \A i \in 1 .. Len(rxb) : Starts(rxb[i]) => rxb[i].own

(* There is one answer to the request in flight: still to be made, on the  *)
(* wire, in the buffer or queued; and none to come when none is awaited.   *)
SingleInv ==
  /\ OneOwn(rxb) /\ OneOwn(bus)
  /\ \A i, j \in 1 .. Len(pending) : pending[i].own /\ pending[j].own => i = j
  /\ NoneOwn(rxb) \/ (NoneOwn(bus) /\ Unasked)
  /\ NoneOwn(bus) \/ Unasked
  /\ (queue # <<>> \/ ~awaiting) => NoneOwn(rxb) /\ NoneOwn(bus) /\ Unasked

RoundInv == \A i \in 1 .. Len(got) : got[i] # "foreign"

OwnInv == AgeInv /\ WireType /\ QueueInv /\ StartsOwn /\ SingleInv /\ RoundInv

(* All of this holds in a round until an answer comes late that looks like *)
(* its own; what remains then lets the next round begin with it again.     *)
LateInv ==
  /\ AgeInv /\ LineType /\ late \in BOOLEAN
  /\ phase = "closed" => queue = <<>>
  /\ ~late => OwnInv

(* A set of positions that is not empty has a last one.                    *)
LEMMA GreatestOf ==
  ASSUME NEW n \in Nat, NEW T \in SUBSET (1 .. n - 1), T # {}
  PROVE  \E p \in T : \A q \in T : q <= p
<1> DEFINE R == {p \in Nat \X Nat : p[1] < p[2]}
           U == {n - p : p \in T}
<1>1. IsWellFoundedOn(R, Nat)
  BY NatLessThanWellFounded DEF OpToRel
<1>2. U \subseteq Nat /\ U # {}
  <2>1. \A p \in T : n - p \in Nat
    OBVIOUS
  <2> QED BY <2>1
<1>3. PICK x \in U : \A y \in U : ~(<<y, x>> \in R)
  <2> HIDE DEF R, U
  <2> QED BY <1>1, <1>2, WFMin
<1>4. PICK p \in T : x = n - p
  OBVIOUS
<1>5. ASSUME NEW q \in T PROVE q <= p
  <2>1. n - q \in U /\ n - q \in Nat /\ x \in Nat
    BY <1>2
  <2>2. ~(n - q < x)
    BY <1>3, <2>1
  <2> QED BY <1>4, <2>2
<1> QED BY <1>5

LEMMA HalfFacts ==
  ASSUME NEW h \in HalfOrNoise
  PROVE  /\ h.part = 1 => h \in Half
         /\ h = Noise => h.part # 1
BY DEF HalfOrNoise, Half, Noise

(* Pieces of a sequence of halves, and two of them together.               *)
LEMMA PieceOwns ==
  ASSUME NEW s \in Halfs, NEW m \in 1 .. Len(s) + 1, NEW n \in 0 .. Len(s)
  PROVE  /\ SubSeq(s, m, n) \in Halfs
         /\ \A i \in 1 .. Len(SubSeq(s, m, n)) :
              m + i - 1 \in 1 .. n /\ SubSeq(s, m, n)[i] = s[m + i - 1]
         /\ NoneOwn(s) => NoneOwn(SubSeq(s, m, n))
         /\ OneOwn(s) => OneOwn(SubSeq(s, m, n))
<1>0. Len(s) \in Nat
  BY LenProperties DEF Halfs
<1> DEFINE t == SubSeq(s, m, n)
<1>1. /\ t \in Halfs /\ Len(t) = IF m <= n THEN n - m + 1 ELSE 0
      /\ \A i \in 1 .. n - m + 1 : t[i] = s[m + i - 1]
  <2>1. \A i \in m .. n : s[i] \in HalfOrNoise
    BY <1>0, ElementOfSeq DEF Halfs
  <2> QED BY <1>0, <2>1, SubSeqProperties DEF Halfs
<1>2. \A i \in 1 .. Len(t) : t[i] = s[m + i - 1] /\ m + i - 1 \in 1 .. n /\ n <= Len(s)
  BY <1>0, <1>1
<1> HIDE DEF t
<1>3. \A i \in 1 .. Len(t) : OwnAt(t, i) => OwnAt(s, m + i - 1)
  BY <1>2 DEF OwnAt
<1>4. NoneOwn(s) => NoneOwn(t)
  BY <1>2, <1>3 DEF NoneOwn
<1>5. OneOwn(s) => OneOwn(t)
  <2> SUFFICES ASSUME OneOwn(s), NEW i \in 1 .. Len(t), NEW j \in 1 .. Len(t), OwnAt(t, i), OwnAt(t, j)
               PROVE  i = j
    BY DEF OneOwn
  <2>1. m + i - 1 = m + j - 1
    BY <1>2, <1>3 DEF OneOwn
  <2> QED BY <2>1, <1>0
<1> QED BY <1>1, <1>2, <1>4, <1>5 DEF t

LEMMA BothOwn ==
  ASSUME NEW s \in Halfs, NEW t \in Halfs
  PROVE  /\ s \o t \in Halfs
         /\ NoneOwn(s) /\ NoneOwn(t) => NoneOwn(s \o t)
         /\ OneOwn(s) /\ OneOwn(t) /\ (NoneOwn(s) \/ NoneOwn(t)) => OneOwn(s \o t)
<1>0. Len(s) \in Nat /\ Len(t) \in Nat
  BY LenProperties DEF Halfs
<1> DEFINE u == s \o t
<1>1. /\ u \in Halfs /\ Len(u) = Len(s) + Len(t)
      /\ \A i \in 1 .. Len(u) : u[i] = IF i <= Len(s) THEN s[i] ELSE t[i - Len(s)]
  BY ConcatProperties DEF Halfs
<1> HIDE DEF u
<1>2. \A i \in 1 .. Len(u) : OwnAt(u, i) =>
        IF i <= Len(s) THEN i \in 1 .. Len(s) /\ OwnAt(s, i)
                       ELSE i - Len(s) \in 1 .. Len(t) /\ OwnAt(t, i - Len(s))
  BY <1>0, <1>1 DEF OwnAt
<1>3. NoneOwn(s) /\ NoneOwn(t) => NoneOwn(u)
  BY <1>2 DEF NoneOwn
<1>4. OneOwn(s) /\ OneOwn(t) /\ (NoneOwn(s) \/ NoneOwn(t)) => OneOwn(u)
  <2> SUFFICES ASSUME OneOwn(s), OneOwn(t), NoneOwn(s) \/ NoneOwn(t),
                      NEW i \in 1 .. Len(u), NEW j \in 1 .. Len(u), OwnAt(u, i), OwnAt(u, j)
               PROVE  i = j
    BY DEF OneOwn
  <2>1. CASE i <= Len(s)
    <3>1. OwnAt(s, i) /\ i \in 1 .. Len(s)
      BY <1>2, <2>1
    <3>2. j <= Len(s)
      BY <1>2, <3>1 DEF NoneOwn
    <3> QED BY <1>2, <3>1, <3>2 DEF OneOwn
  <2>2. CASE ~(i <= Len(s))
    <3>1. OwnAt(t, i - Len(s)) /\ i - Len(s) \in 1 .. Len(t)
      BY <1>2, <2>2
    <3>2. ~(j <= Len(s))
      BY <1>2, <3>1 DEF NoneOwn
    <3>3. i - Len(s) = j - Len(s)
      BY <1>2, <3>1, <3>2 DEF OneOwn
    <3> QED BY <1>0, <1>1, <3>3
  <2> QED BY <2>1, <2>2
<1> QED BY <1>1, <1>3, <1>4 DEF u

(* What was under way answers no later request.                            *)
LEMMA ForeignOwns ==
  /\ \A s \in Halfs : Foreign(s) \in Halfs /\ NoneOwn(Foreign(s))
  /\ \A s \in Seq(Request) : /\ Foreign(s) \in Seq(Request) /\ Len(Foreign(s)) = Len(s)
                             /\ \A i \in 1 .. Len(s) : ~Foreign(s)[i].own
<1>1. ASSUME NEW s \in Halfs PROVE Foreign(s) \in Halfs /\ NoneOwn(Foreign(s))
  <2>1. Len(s) \in Nat /\ DOMAIN s = 1 .. Len(s)
    BY LenProperties DEF Halfs
  <2>2. \A i \in 1 .. Len(s) : s[i] \in HalfOrNoise
    BY ElementOfSeq DEF Halfs
  <2> DEFINE e(i) == IF s[i] = Noise THEN Noise ELSE [s[i] EXCEPT !.own = FALSE]
  <2>3. ASSUME NEW i \in 1 .. Len(s) PROVE e(i) \in HalfOrNoise /\ ~(e(i).part = 1 /\ e(i).own)
    <3>1. CASE s[i] = Noise
      BY <3>1 DEF HalfOrNoise, Noise
    <3>2. CASE s[i] # Noise
      <4>1. s[i] \in Half
        BY <2>2, <3>2 DEF HalfOrNoise
      <4>2. e(i) = [s[i] EXCEPT !.own = FALSE]
        BY <3>2
      <4>3. e(i) \in Half /\ ~e(i).own
        BY <4>1, <4>2 DEF Half
      <4> HIDE DEF e
      <4> QED BY <4>3 DEF HalfOrNoise
    <3> QED BY <3>1, <3>2
  <2>4. Foreign(s) = [i \in 1 .. Len(s) |-> e(i)]
    BY <2>1 DEF Foreign
  <2> HIDE DEF e
  <2>5. Foreign(s) \in Halfs /\ Len(Foreign(s)) = Len(s)
    BY <2>1, <2>3, <2>4 DEF Halfs
  <2> QED BY <2>3, <2>4, <2>5 DEF NoneOwn, OwnAt
<1>2. ASSUME NEW s \in Seq(Request)
      PROVE  /\ Foreign(s) \in Seq(Request) /\ Len(Foreign(s)) = Len(s)
             /\ \A i \in 1 .. Len(s) : ~Foreign(s)[i].own
  <2>1. Len(s) \in Nat /\ DOMAIN s = 1 .. Len(s)
    BY LenProperties
  <2>2. \A i \in 1 .. Len(s) : s[i] \in Request
    BY ElementOfSeq
  <2> DEFINE e(i) == IF s[i] = Noise THEN Noise ELSE [s[i] EXCEPT !.own = FALSE]
  <2>3. \A r \in Request : r # Noise
    <3>1. \A r \in Request : DOMAIN r = {"read", "own"}
      BY DEF Request
    <3>2. DOMAIN Noise = {"part"}
      BY DEF Noise
    <3>3. "own" \notin {"part"}
      OBVIOUS
    <3> QED BY <3>1, <3>2, <3>3
  <2>4. \A i \in 1 .. Len(s) : e(i) \in Request /\ ~e(i).own
    BY <2>2, <2>3 DEF Request
  <2>5. Foreign(s) = [i \in 1 .. Len(s) |-> e(i)]
    BY <2>1 DEF Foreign
  <2> HIDE DEF e
  <2> QED BY <2>1, <2>4, <2>5
<1> QED BY <1>1, <1>2

(* What comes on the wire.                                                 *)
LEMMA HalvesOwn ==
  ASSUME NEW f \in Frame
  PROVE  /\ Halves(f) \in Halfs /\ OneOwn(Halves(f))
         /\ ~f.own => NoneOwn(Halves(f))
<1>1. Halves(f) = [i \in 1 .. 2 |-> [read |-> f.read, kind |-> f.kind, own |-> f.own, part |-> i]]
  BY DEF Halves
<1>2. \A i \in 1 .. 2 : [read |-> f.read, kind |-> f.kind, own |-> f.own, part |-> i] \in HalfOrNoise
  BY DEF HalfOrNoise, Half, Frame
<1>3. Halves(f) \in Halfs /\ Len(Halves(f)) = 2
  BY <1>1, <1>2 DEF Halfs
<1>4. \A i \in 1 .. 2 : OwnAt(Halves(f), i) => i = 1 /\ f.own
  BY <1>1 DEF OwnAt
<1> QED BY <1>3, <1>4 DEF OneOwn, NoneOwn

LEMMA DisturbedOwns ==
  ASSUME NEW s \in Halfs
  PROVE  /\ Append(s, Noise) \in Halfs
         /\ NoneOwn(s) => NoneOwn(Append(s, Noise))
         /\ OneOwn(s) => OneOwn(Append(s, Noise))
         /\ \A k \in 1 .. Len(s) :
              \A t \in {[s EXCEPT ![k] = Noise], RemoveAt(s, k)} :
                t \in Halfs /\ (NoneOwn(s) => NoneOwn(t)) /\ (OneOwn(s) => OneOwn(t))
<1>0. Len(s) \in Nat /\ Noise \in HalfOrNoise /\ Noise.part # 1
  BY LenProperties DEF Halfs, HalfOrNoise, Noise
<1>1. /\ Append(s, Noise) \in Halfs
      /\ NoneOwn(s) => NoneOwn(Append(s, Noise))
      /\ OneOwn(s) => OneOwn(Append(s, Noise))
  <2> DEFINE t == Append(s, Noise)
  <2>1. /\ t \in Halfs /\ Len(t) = Len(s) + 1 /\ t[Len(t)] = Noise
        /\ \A i \in 1 .. Len(s) : t[i] = s[i]
    BY <1>0, AppendProperties DEF Halfs
  <2> HIDE DEF t
  <2>2. \A i \in 1 .. Len(t) : OwnAt(t, i) => i \in 1 .. Len(s) /\ OwnAt(s, i)
    BY <1>0, <2>1 DEF OwnAt
  <2> QED BY <2>1, <2>2 DEF NoneOwn, OneOwn, t
<1>2. ASSUME NEW k \in 1 .. Len(s)
      PROVE  /\ [s EXCEPT ![k] = Noise] \in Halfs
             /\ NoneOwn(s) => NoneOwn([s EXCEPT ![k] = Noise])
             /\ OneOwn(s) => OneOwn([s EXCEPT ![k] = Noise])
  <2> DEFINE t == [s EXCEPT ![k] = Noise]
  <2>1. /\ t \in Halfs /\ Len(t) = Len(s)
        /\ \A i \in 1 .. Len(s) : t[i] = IF i = k THEN Noise ELSE s[i]
    BY <1>0, ExceptSeq DEF Halfs
  <2> HIDE DEF t
  <2>2. \A i \in 1 .. Len(t) : OwnAt(t, i) => i \in 1 .. Len(s) /\ OwnAt(s, i)
    BY <1>0, <2>1 DEF OwnAt
  <2> QED BY <2>1, <2>2 DEF NoneOwn, OneOwn, t
<1>3. ASSUME NEW k \in 1 .. Len(s)
      PROVE  /\ RemoveAt(s, k) \in Halfs
             /\ NoneOwn(s) => NoneOwn(RemoveAt(s, k))
             /\ OneOwn(s) => OneOwn(RemoveAt(s, k))
  <2> DEFINE a == SubSeq(s, 1, k - 1)
             b == SubSeq(s, k + 1, Len(s))
             t == a \o b
  <2>1. /\ Len(a) = k - 1 /\ \A i \in 1 .. k - 1 : a[i] = s[i]
        /\ Len(b) = Len(s) - k /\ \A i \in 1 .. Len(s) - k : b[i] = s[k + i]
        /\ a \in Halfs /\ b \in Halfs
    <3>1. \A i \in 1 .. Len(s) : s[i] \in HalfOrNoise
      BY ElementOfSeq DEF Halfs
    <3> QED BY <1>0, <3>1, SubSeqProperties DEF Halfs
  <2>2. /\ t \in Halfs /\ Len(t) = Len(s) - 1
        /\ \A i \in 1 .. Len(t) : t[i] = IF i < k THEN s[i] ELSE s[i + 1]
    <3> HIDE DEF a, b
    <3>1. /\ t \in Halfs /\ Len(t) = Len(a) + Len(b)
          /\ \A i \in 1 .. Len(t) : t[i] = IF i <= Len(a) THEN a[i] ELSE b[i - Len(a)]
      <4> HIDE DEF t
      <4>1. a \in Seq(HalfOrNoise) /\ b \in Seq(HalfOrNoise)
        BY <2>1 DEF Halfs
      <4>2. /\ a \o b \in Seq(HalfOrNoise) /\ Len(a \o b) = Len(a) + Len(b)
            /\ \A i \in 1 .. Len(a) + Len(b) : (a \o b)[i] = IF i <= Len(a) THEN a[i] ELSE b[i - Len(a)]
        BY <4>1, ConcatProperties
      <4> QED BY <4>2 DEF Halfs, t
    <3> HIDE DEF t
    <3>2. Len(t) = Len(s) - 1
      BY <1>0, <2>1, <3>1
    <3>3. ASSUME NEW i \in 1 .. Len(t) PROVE t[i] = IF i < k THEN s[i] ELSE s[i + 1]
      <4>1. CASE i < k
        BY <1>0, <2>1, <3>1, <4>1
      <4>2. CASE ~(i < k)
        <5>1. i - Len(a) \in 1 .. Len(s) - k /\ k + (i - Len(a)) = i + 1
          BY <1>0, <2>1, <3>2, <4>2
        <5> QED BY <1>0, <2>1, <3>1, <4>2, <5>1
      <4> QED BY <4>1, <4>2
    <3> QED BY <3>1, <3>2, <3>3
  <2> HIDE DEF t
  <2> DEFINE at(i) == IF i < k THEN i ELSE i + 1
  <2>3. \A i \in 1 .. Len(t) : at(i) \in 1 .. Len(s) /\ t[i] = s[at(i)]
    BY <1>0, <2>2
  <2>4. \A i, j \in 1 .. Len(t) : at(i) = at(j) => i = j
    BY <1>0, <2>2
  <2> HIDE DEF at
  <2>5. \A i \in 1 .. Len(t) : OwnAt(t, i) => OwnAt(s, at(i))
    BY <2>3 DEF OwnAt
  <2>6. RemoveAt(s, k) = t
    BY DEF RemoveAt, t
  <2> QED BY <2>2, <2>3, <2>4, <2>5, <2>6 DEF NoneOwn, OneOwn
<1> QED BY <1>1, <1>2, <1>3

(* What a receiver takes off the wire, and what it leaves there.           *)
LEMMA CutOwns ==
  ASSUME NEW s \in Halfs, OneOwn(s), NEW n \in 0 .. Len(s)
  PROVE  NoneOwn(SubSeq(s, 1, n)) \/ NoneOwn(SubSeq(s, n + 1, Len(s)))
<1>0. Len(s) \in Nat
  BY LenProperties DEF Halfs
<1> DEFINE a == SubSeq(s, 1, n)
           b == SubSeq(s, n + 1, Len(s))
<1>1. \A i \in 1 .. Len(a) : i \in 1 .. n /\ a[i] = s[i]
  <2>1. 1 \in 1 .. Len(s) + 1
    BY <1>0
  <2>2. \A i \in 1 .. Len(a) : 1 + i - 1 \in 1 .. n /\ a[i] = s[1 + i - 1]
    BY <2>1, PieceOwns
  <2>3. \A i \in 1 .. Len(a) : i \in Int /\ 1 + i - 1 = i
    OBVIOUS
  <2> QED BY <2>2, <2>3
<1>2. \A i \in 1 .. Len(b) : (n + 1) + i - 1 \in 1 .. Len(s) /\ b[i] = s[(n + 1) + i - 1]
  <2>1. n + 1 \in 1 .. Len(s) + 1 /\ Len(s) \in 0 .. Len(s)
    BY <1>0
  <2> QED BY <2>1, PieceOwns
<1> HIDE DEF a, b
<1> SUFFICES ASSUME NEW i \in 1 .. Len(a), OwnAt(a, i), NEW j \in 1 .. Len(b), OwnAt(b, j)
             PROVE  FALSE
  BY DEF NoneOwn, a, b
<1>3. i \in 1 .. Len(s) /\ OwnAt(s, i)
  BY <1>0, <1>1 DEF OwnAt
<1>4. (n + 1) + j - 1 \in 1 .. Len(s) /\ OwnAt(s, (n + 1) + j - 1)
  BY <1>2 DEF OwnAt
<1>5. i = (n + 1) + j - 1
  BY <1>3, <1>4 DEF OneOwn
<1>6. i <= n /\ j >= 1 /\ i \in Int /\ j \in Int
  BY <1>1
<1> QED BY <1>0, <1>5, <1>6

(* The newest halves.                                                      *)
LEMMA KeptOwns ==
  ASSUME NEW s \in Halfs
  PROVE  /\ Kept(s) \in Halfs
         /\ \A i \in 1 .. Len(Kept(s)) : \E j \in 1 .. Len(s) : Kept(s)[i] = s[j]
         /\ NoneOwn(s) => NoneOwn(Kept(s))
         /\ OneOwn(s) => OneOwn(Kept(s))
<1>0. Len(s) \in Nat /\ JK_MODBUS_RX_BUFF_SIZE \in Nat \ {0}
  BY PollAssumption, LenProperties DEF Halfs
<1>1. CASE Len(s) <= JK_MODBUS_RX_BUFF_SIZE
  BY <1>1 DEF Kept
<1>2. CASE ~(Len(s) <= JK_MODBUS_RX_BUFF_SIZE)
  <2> DEFINE m == Len(s) - JK_MODBUS_RX_BUFF_SIZE + 1
  <2>1. m \in 1 .. Len(s) + 1 /\ Len(s) \in 0 .. Len(s)
    BY <1>0, <1>2
  <2>2. Kept(s) = SubSeq(s, m, Len(s))
    BY <1>2 DEF Kept
  <2> HIDE DEF m
  <2> QED BY <2>1, <2>2, PieceOwns
<1> QED BY <1>1, <1>2

(* With a request in flight a start is all that stays in the buffer.       *)
LEMMA RestAwaited ==
  ASSUME awaiting, NEW s \in Halfs
  PROVE  /\ RestOf(s) \in Halfs /\ (Len(RestOf(s)) = 0 \/ Len(RestOf(s)) = 1)
         /\ Len(RestOf(s)) = 1 => Len(s) # 0 /\ Starts(s[Len(s)]) /\ RestOf(s)[1] = s[Len(s)]
<1>0. /\ Len(s) \in Nat /\ s = <<>> <=> Len(s) = 0
      /\ \A i \in 1 .. Len(s) : s[i] \in HalfOrNoise
  BY LenProperties, EmptySeq, ElementOfSeq DEF Halfs
<1>1. CASE s = <<>> \/ ~Starts(s[Len(s)])
  <2>1. RestOf(s) = <<>>
    BY <1>1 DEF RestOf
  <2> QED BY <2>1, EmptySeq DEF Halfs
<1>2. CASE ~(s = <<>> \/ ~Starts(s[Len(s)]))
  <2>1. RestOf(s) = <<s[Len(s)]>>
    BY <1>2 DEF RestOf
  <2>2. s[Len(s)] \in HalfOrNoise
    BY <1>0, <1>2
  <2> QED BY <1>0, <1>2, <2>1, <2>2 DEF Halfs
<1> QED BY <1>1, <1>2

(* While a request is in flight and nothing but its answer looks like one: *)
(* a frame that is found is that answer, and leaves none behind.           *)
LEMMA AwaitedOwns ==
  ASSUME awaiting, NEW s \in Halfs, OneOwn(s), \A i \in 1 .. Len(s) : Starts(s[i]) => s[i].own
  PROVE  /\ RestOf(s) \in Halfs /\ OneOwn(RestOf(s))
         /\ NoneOwn(s) => NoneOwn(RestOf(s))
         /\ \A i \in 1 .. Len(RestOf(s)) : Starts(RestOf(s)[i]) => RestOf(s)[i].own
         /\ \/ FramesIn(s) = <<>>
            \/ /\ FramesIn(s) \in Seq(Frame) /\ Len(FramesIn(s)) = 1 /\ FramesIn(s)[1].own
               /\ ~NoneOwn(s) /\ NoneOwn(RestOf(s))
<1>0. /\ Len(s) \in Nat /\ s = <<>> <=> Len(s) = 0
      /\ \A i \in 1 .. Len(s) : s[i] \in HalfOrNoise
  BY LenProperties, EmptySeq, ElementOfSeq DEF Halfs
<1>1. \A i \in 1 .. Len(s) : Starts(s[i]) => OwnAt(s, i)
  BY DEF Starts, OwnAt
<1>2. /\ RestOf(s) \in Halfs /\ (Len(RestOf(s)) = 0 \/ Len(RestOf(s)) = 1)
      /\ Len(RestOf(s)) = 1 => Len(s) # 0 /\ Starts(s[Len(s)]) /\ RestOf(s)[1] = s[Len(s)]
  BY RestAwaited
<1>3. ASSUME Len(RestOf(s)) = 1 PROVE OwnAt(s, Len(s)) /\ Len(s) \in 1 .. Len(s)
  BY <1>0, <1>1, <1>2, <1>3
<1>4. /\ OneOwn(RestOf(s))
      /\ NoneOwn(s) => NoneOwn(RestOf(s))
      /\ \A i \in 1 .. Len(RestOf(s)) : Starts(RestOf(s)[i]) => RestOf(s)[i].own
  <2>1. ASSUME NEW i \in 1 .. Len(RestOf(s)) PROVE i = 1 /\ Len(RestOf(s)) = 1
    <3>1. Len(RestOf(s)) = 0 \/ Len(RestOf(s)) = 1
      BY <1>2
    <3> DEFINE l == Len(RestOf(s))
    <3>2. l \in {0, 1} /\ i \in 1 .. l
      BY <3>1
    <3> HIDE DEF l
    <3>3. i = 1 /\ l = 1
      BY <3>2
    <3> QED BY <3>3 DEF l
  <2>2. OneOwn(RestOf(s))
    BY <2>1 DEF OneOwn
  <2>3. NoneOwn(s) => NoneOwn(RestOf(s))
    BY <1>3, <2>1 DEF NoneOwn
  <2>4. \A i \in 1 .. Len(RestOf(s)) : RestOf(s)[i].own
    BY <1>2, <1>3, <2>1 DEF OwnAt
  <2> QED BY <2>2, <2>3, <2>4
<1> DEFINE at == FramesAt(s)
           Nth(i) == CHOOSE p \in at : Cardinality({q \in at : q < p}) = i - 1
<1>5. \A p \in at : /\ p \in 1 .. Len(s) /\ p # Len(s) /\ p \in Int /\ Starts(s[p])
                    /\ OwnAt(s, p) /\ s[p] \in Half
  <2>1. \A p \in at : p \in 1 .. Len(s) - 1 /\ Starts(s[p])
    BY DEF FramesAt
  <2>2. \A p \in 1 .. Len(s) - 1 : p \in 1 .. Len(s) /\ p # Len(s) /\ p \in Int
    BY <1>0
  <2>3. \A p \in at : s[p] \in HalfOrNoise /\ s[p].part = 1
    BY <1>0, <2>1, <2>2 DEF Starts
  <2> QED BY <1>1, <2>1, <2>2, <2>3, HalfFacts
<1>6. FramesIn(s) = [i \in 1 .. Cardinality(at) |-> FrameOf(s[Nth(i)])]
  BY DEF FramesIn
<1>7. CASE at = {}
  <2>1. Cardinality(at) = 0
    BY <1>7, FS_EmptySet
  <2> HIDE DEF at, Nth
  <2>2. FramesIn(s) = <<>>
    BY <1>6, <2>1
  <2> QED BY <1>2, <1>4, <2>2
<1>8. CASE at # {}
  <2>1. PICK p : p \in at
    BY <1>8
  <2>2. at = {p}
    BY <1>5, <2>1 DEF OneOwn
  <2>3. Cardinality(at) = 1
    BY <2>2, FS_Singleton
  <2>4. Nth(1) = p
    <3>1. {q \in at : q < p} = {}
      BY <1>5, <2>1, <2>2
    <3>2. Cardinality({q \in at : q < p}) = 1 - 1
      BY <3>1, FS_EmptySet
    <3>3. Nth(1) \in at
      BY <2>1, <3>2
    <3> QED BY <2>2, <3>3
  <2> HIDE DEF at, Nth
  <2>5. FrameOf(s[p]) \in Frame /\ FrameOf(s[p]).own
    BY <1>5, <2>1 DEF FrameOf, Half, Frame, OwnAt
  <2>6. \A i \in 1 .. 1 : i = 1
    OBVIOUS
  <2>7. FramesIn(s) = [i \in 1 .. 1 |-> FrameOf(s[Nth(i)])]
    BY <1>6, <2>3
  <2>8. FramesIn(s) \in [1 .. 1 -> Frame] /\ FramesIn(s)[1].own
    BY <2>4, <2>5, <2>6, <2>7
  <2>9. FramesIn(s) \in Seq(Frame) /\ Len(FramesIn(s)) = 1
    BY <2>8, <2>7
  <2>10. ~NoneOwn(s)
    BY <1>5, <2>1 DEF NoneOwn
  <2>11. Len(RestOf(s)) # 1
    BY <1>3, <1>5, <2>1 DEF OneOwn
  <2>12. NoneOwn(RestOf(s))
    BY <1>2, <2>11 DEF NoneOwn
  <2> QED BY <1>2, <1>4, <2>8, <2>9, <2>10, <2>12
<1> QED BY <1>7, <1>8

(* With no request in flight nothing that is kept was an answer to one.    *)
LEMMA IdleOwns ==
  ASSUME ~awaiting, NEW s \in Halfs
  PROVE  RestOf(s) \in Halfs /\ (NoneOwn(s) => NoneOwn(RestOf(s)))
<1>0. Len(s) \in Nat
  BY LenProperties DEF Halfs
<1> DEFINE none == <<>>
<1>1. none \in Halfs /\ NoneOwn(none)
  <2>1. none \in Halfs /\ Len(none) = 0
    BY EmptySeq DEF Halfs
  <2> HIDE DEF none
  <2> QED BY <2>1 DEF NoneOwn
<1>2. CASE s = <<>> \/ ~Starts(s[Len(s)])
  BY <1>1, <1>2 DEF RestOf
<1>3. CASE ~(s = <<>> \/ ~Starts(s[Len(s)]))
  <2> DEFINE at == FramesAt(s)
             last == CHOOSE p \in at : \A q \in at : q <= p
             after == IF at = {} THEN 1 ELSE 2 + last
  <2>1. RestOf(s) = SubSeq(s, after, Len(s))
    BY <1>3 DEF RestOf
  <2>2. after \in 1 .. Len(s) + 1
    <3>1. CASE at = {}
      BY <1>0, <3>1
    <3>2. CASE at # {}
      <4>1. at \subseteq 1 .. Len(s) - 1
        BY DEF FramesAt
      <4> HIDE DEF at
      <4>2. \E p \in at : \A q \in at : q <= p
        BY <1>0, <3>2, <4>1, GreatestOf
      <4>3. last \in at
        BY <4>2
      <4> HIDE DEF last
      <4>4. last \in Int /\ 1 <= last /\ last <= Len(s) - 1
        BY <1>0, <4>1, <4>3
      <4> QED BY <1>0, <3>2, <4>4
    <3> QED BY <3>1, <3>2
  <2> HIDE DEF after
  <2>3. Len(s) \in 0 .. Len(s)
    BY <1>0
  <2> QED BY <2>1, <2>2, <2>3, PieceOwns
<1> QED BY <1>2, <1>3

-----------------------------------------------------------------------------
(* A request: what is under way is none's any more, and the request itself *)
(* is the only one that will be answered.                                  *)
OwnWire == WireType /\ QueueInv /\ StartsOwn /\ SingleInv

LEMMA AskOwns ==
  ASSUME LineType, NEW results \in Seq(Results), Len(results) < Len(READS), Ask(results)
  PROVE  LineType' /\ (queue' = <<>> => OwnWire')
<1>1. /\ phase' = "waiting" /\ got' = results /\ rxb' = <<>> /\ bus' = Foreign(bus)
  BY DEF Ask
<1>2. rxb' \in Halfs /\ Len(rxb') = 0 /\ (queue' = <<>> => queue' \in Seq(Frame))
  BY <1>1, EmptySeq DEF Halfs
<1>3. bus' \in Halfs /\ NoneOwn(bus')
  BY <1>1, ForeignOwns DEF LineType
<1> DEFINE f == Foreign(pending)
           r == [read |-> Len(results) + 1, own |-> TRUE]
<1>4. f \in Seq(Request) /\ \A i \in 1 .. Len(f) : ~f[i].own
  BY ForeignOwns DEF LineType
<1>5. r \in Request
  <2>1. Len(results) + 1 \in 1 .. Len(READS)
    BY Constants, LenProperties
  <2> QED BY <2>1, Constants DEF Request
<1>6. pending' = f \/ pending' = Append(f, r)
  BY DEF Ask
<1> HIDE DEF f, r
<1>7. /\ pending' \in Seq(Request)
      /\ \A i, j \in 1 .. Len(pending') : pending'[i].own /\ pending'[j].own => i = j
  <2>1. CASE pending' = f
    BY <1>4, <2>1
  <2>2. CASE pending' = Append(f, r)
    <3>1. /\ pending' \in Seq(Request) /\ Len(pending') = Len(f) + 1
          /\ \A i \in 1 .. Len(f) : pending'[i] = f[i]
      BY <1>4, <1>5, <2>2, AppendProperties
    <3>2. Len(f) \in Nat
      BY <1>4, LenProperties
    <3>3. \A i \in 1 .. Len(pending') : pending'[i].own => i = Len(pending')
      BY <1>4, <3>1, <3>2
    <3> QED BY <3>1, <3>3
  <2> QED BY <1>6, <2>1, <2>2
<1>8. NoneOwn(rxb') /\ OneOwn(rxb')
  BY <1>2 DEF NoneOwn, OneOwn
<1>9. OneOwn(bus')
  BY <1>3 DEF NoneOwn, OneOwn
<1>10. LineType' /\ (queue' = <<>> => WireType' /\ QueueInv')
  BY <1>2, <1>3, <1>7 DEF LineType, WireType, QueueInv
<1>11. StartsOwn'
  BY <1>2 DEF StartsOwn
<1>12. queue' = <<>> => SingleInv'
  BY <1>1, <1>3, <1>7, <1>8, <1>9 DEF SingleInv, NoneOwn, OneOwn, Unasked, OwnAt, awaiting
<1> QED BY <1>10, <1>11, <1>12 DEF OwnWire

(* A read ends with anything but somebody else's answer.                   *)
LEMMA ResumeOwns ==
  ASSUME OwnInv, awaiting, NEW result \in Results \ {"foreign"}, Resume(result), queue' = <<>>
  PROVE  OwnWire' /\ RoundInv'
<1> DEFINE results == Append(got, result)
<1>1. /\ results \in Seq(Results) /\ Len(results) = Len(got) + 1
      /\ results \in [1 .. Len(results) -> Results]
      /\ \A i \in 1 .. Len(results) : results[i] # "foreign"
  <2>1. /\ results \in Seq(Results) /\ Len(results) = Len(got) + 1
        /\ results[Len(got) + 1] = result
        /\ \A i \in 1 .. Len(got) : results[i] = got[i]
        /\ Len(got) \in Nat
    BY AppendProperties, LenProperties DEF OwnInv, AgeInv
  <2> HIDE DEF results
  <2>2. \A i \in 1 .. Len(got) : got[i] # "foreign"
    BY DEF OwnInv, RoundInv
  <2>3. \A i \in 1 .. Len(results) : results[i] # "foreign"
    BY <2>1, <2>2
  <2> QED BY <2>1, <2>3
<1>2. CASE Len(results) < Len(READS) /\ Ask(results)
  <2>1. got' = results /\ state' = state
    BY <1>2 DEF Ask, roundVars
  <2> HIDE DEF results
  <2>2. OwnWire'
    <3>1. LineType
      BY DEF OwnInv, WireType, LineType
    <3> QED BY <1>1, <1>2, <3>1, AskOwns
  <2> QED BY <1>1, <2>1, <2>2 DEF OwnInv, RoundInv
<1>3. CASE /\ Len(results) = Len(READS) /\ phase' = "pausing" /\ got' = results
           /\ rxb' = Foreign(rxb) /\ bus' = Foreign(bus) /\ pending' = Foreign(pending)
           /\ Publish(results) \/ Fail(results)
  <2>2. got' = results
    BY <1>3
  <2> HIDE DEF results
  <2>3. RoundInv'
    BY <1>1, <2>2 DEF RoundInv
  <2>4. /\ rxb' \in Halfs /\ NoneOwn(rxb') /\ bus' \in Halfs /\ NoneOwn(bus')
        /\ pending' \in Seq(Request) /\ \A i \in 1 .. Len(pending') : ~pending'[i].own
        /\ queue' \in Seq(Frame)
    BY <1>3, ForeignOwns, EmptySeq DEF OwnInv, WireType
  <2>5. phase' = "pausing"
    BY <1>3
  <2>6. WireType' /\ QueueInv'
    BY <2>4 DEF WireType, QueueInv
  <2>7. StartsOwn'
    BY <2>5 DEF StartsOwn, awaiting
  <2>8. SingleInv'
    BY <2>4, <2>5 DEF SingleInv, NoneOwn, OneOwn, Unasked, OwnAt, awaiting
  <2> QED BY <2>3, <2>6, <2>7, <2>8 DEF OwnWire
<1> QED BY <1>2, <1>3 DEF Resume

(* The message that waits is the answer of the request in flight.          *)
LEMMA DispatchOwns == ASSUME OwnInv, Dispatch PROVE OwnWire' /\ RoundInv'
<1>1. awaiting /\ Len(queue) = 1 /\ queue[1].own
  BY DEF OwnInv, QueueInv, Dispatch
<1>2. queue \in Seq(Frame) /\ queue # <<>>
  BY DEF OwnInv, WireType, Dispatch
<1>3. Parsed(Head(queue)) \in Results \ {"foreign"}
  <2>1. Head(queue) = queue[1]
    BY <1>2, HeadTailProperties
  <2> QED BY <1>1, <2>1 DEF Parsed, Results
<1>4. queue' = <<>>
  <2>1. queue' = Foreign(Tail(queue)) /\ Tail(queue) \in Seq(Frame) /\ Len(Tail(queue)) = 0
    BY <1>1, <1>2, HeadTailProperties DEF Dispatch
  <2>2. Tail(queue) = <<>>
    BY <2>1, EmptySeq
  <2>3. Foreign(<<>>) = <<>>
    BY DEF Foreign
  <2> QED BY <2>1, <2>2, <2>3
<1>5. Resume(Parsed(Head(queue)))
  BY <1>1 DEF Dispatch
<1> QED BY <1>1, <1>3, <1>4, <1>5, ResumeOwns

(* The callback of the UART.                                               *)
LEMMA ReceiveOwns ==
  ASSUME OwnInv, NEW n \in DOMAIN bus, OnReceive(n),
         \A i \in 1 .. n : awaiting /\ Starts(bus[i]) => bus[i].own
  PROVE  OwnWire' /\ RoundInv'
<1> DEFINE a == SubSeq(bus, 1, n)
           b == SubSeq(bus, n + 1, Len(bus))
           s == Kept(rxb \o a)
<1>1. /\ queue = <<>> /\ bus' = b /\ rxb' = RestOf(s)
      /\ queue' = IF awaiting THEN FramesIn(s) ELSE <<>>
      /\ UNCHANGED <<phase, got, timer, state, age, pending>>
  BY DEF OnReceive, roundVars
<1>2. /\ rxb \in Halfs /\ bus \in Halfs /\ OneOwn(rxb) /\ OneOwn(bus)
      /\ pending \in Seq(Request)
  BY DEF OwnInv, WireType, SingleInv
<1>3. Len(bus) \in Nat /\ n \in 1 .. Len(bus) /\ DOMAIN bus = 1 .. Len(bus)
  BY <1>2, LenProperties DEF Halfs
<1>4. /\ a \in Halfs /\ OneOwn(a) /\ (NoneOwn(bus) => NoneOwn(a))
      /\ \A i \in 1 .. Len(a) : i \in 1 .. n /\ a[i] = bus[i]
  <2>1. 1 \in 1 .. Len(bus) + 1 /\ n \in 0 .. Len(bus)
    BY <1>3
  <2>2. \A i \in 1 .. Len(a) : 1 + i - 1 \in 1 .. n /\ a[i] = bus[1 + i - 1]
    BY <1>2, <2>1, PieceOwns
  <2>3. \A i \in 1 .. Len(a) : i \in Int /\ 1 + i - 1 = i
    OBVIOUS
  <2> QED BY <1>2, <2>1, <2>2, <2>3, PieceOwns
<1>5. b \in Halfs /\ OneOwn(b) /\ (NoneOwn(bus) => NoneOwn(b))
  <2>1. n + 1 \in 1 .. Len(bus) + 1 /\ Len(bus) \in 0 .. Len(bus)
    BY <1>3
  <2> QED BY <1>2, <2>1, PieceOwns
<1>6. NoneOwn(a) \/ NoneOwn(b)
  <2>1. n \in 0 .. Len(bus)
    BY <1>3
  <2> QED BY <1>2, <2>1, CutOwns
<1> HIDE DEF a, b
<1>7. NoneOwn(rxb) \/ (NoneOwn(bus) /\ Unasked)
  BY DEF OwnInv, SingleInv
<1>8. /\ s \in Halfs /\ OneOwn(s)
      /\ NoneOwn(rxb) /\ NoneOwn(a) => NoneOwn(s)
      /\ \A i \in 1 .. Len(s) : \E j \in 1 .. Len(rxb \o a) : s[i] = (rxb \o a)[j]
  BY <1>2, <1>4, <1>7, BothOwn, KeptOwns
<1>9. awaiting => \A i \in 1 .. Len(s) : Starts(s[i]) => s[i].own
  <2> SUFFICES ASSUME awaiting, NEW i \in 1 .. Len(s), Starts(s[i]) PROVE s[i].own
    OBVIOUS
  <2>1. PICK j \in 1 .. Len(rxb \o a) : s[i] = (rxb \o a)[j]
    BY <1>8
  <2>2. /\ Len(rxb) \in Nat /\ Len(a) \in Nat /\ Len(rxb \o a) = Len(rxb) + Len(a)
        /\ (rxb \o a)[j] = IF j <= Len(rxb) THEN rxb[j] ELSE a[j - Len(rxb)]
    BY <1>2, <1>4, ConcatProperties, LenProperties DEF Halfs
  <2>3. CASE j <= Len(rxb)
    <3>1. j \in 1 .. Len(rxb) /\ s[i] = rxb[j]
      BY <2>1, <2>2, <2>3
    <3> QED BY <3>1 DEF OwnInv, StartsOwn
  <2>4. CASE ~(j <= Len(rxb))
    <3>1. j - Len(rxb) \in 1 .. Len(a) /\ s[i] = a[j - Len(rxb)]
      BY <2>1, <2>2, <2>4
    <3>2. j - Len(rxb) \in 1 .. n /\ s[i] = bus[j - Len(rxb)]
      BY <1>4, <3>1
    <3> QED BY <3>2
  <2> QED BY <2>3, <2>4
<1> HIDE DEF s
<1>10. RoundInv'
  BY <1>1 DEF OwnInv, RoundInv
<1>11. ~NoneOwn(s) => NoneOwn(b) /\ Unasked
  <2>1. CASE ~NoneOwn(rxb)
    BY <1>5, <1>7, <2>1
  <2>2. CASE ~NoneOwn(a)
    <3>1. ~NoneOwn(bus)
      BY <1>4, <2>2
    <3>2. Unasked
      BY <3>1 DEF OwnInv, SingleInv
    <3> QED BY <1>6, <2>2, <3>2
  <2> QED BY <1>8, <2>1, <2>2
<1>12. NoneOwn(b) \/ Unasked
  BY <1>5 DEF OwnInv, SingleInv
<1>13. CASE awaiting
  <2>1. /\ rxb' \in Halfs /\ OneOwn(rxb')
        /\ NoneOwn(s) => NoneOwn(rxb')
        /\ \A i \in 1 .. Len(rxb') : Starts(rxb'[i]) => rxb'[i].own
        /\ \/ queue' = <<>>
           \/ /\ queue' \in Seq(Frame) /\ Len(queue') = 1 /\ queue'[1].own
              /\ ~NoneOwn(s) /\ NoneOwn(rxb')
    BY <1>1, <1>8, <1>9, <1>13, AwaitedOwns
  <2>2. WireType'
    BY <1>1, <1>2, <1>5, <2>1, EmptySeq DEF WireType
  <2>3. QueueInv'
    BY <1>1, <1>13, <2>1 DEF QueueInv, awaiting
  <2>4. StartsOwn'
    BY <1>1, <2>1 DEF StartsOwn, Starts, awaiting, expected_num, asked
  <2>5. \A i, j \in 1 .. Len(pending) : pending[i].own /\ pending[j].own => i = j
    BY DEF OwnInv, SingleInv
  <2>6. /\ NoneOwn(rxb') \/ (NoneOwn(b) /\ Unasked)
        /\ queue' # <<>> => NoneOwn(rxb') /\ NoneOwn(b) /\ Unasked
    BY <1>11, <2>1
  <2>7. phase' = "waiting"
    BY <1>1, <1>13 DEF awaiting
  <2>8. SingleInv'
    BY <1>1, <1>5, <1>12, <2>1, <2>5, <2>6, <2>7 DEF SingleInv, NoneOwn, OneOwn, OwnAt, Unasked, awaiting
  <2> QED BY <1>10, <2>2, <2>3, <2>4, <2>8 DEF OwnWire
<1>14. CASE ~awaiting
  <2>1. NoneOwn(rxb) /\ NoneOwn(bus) /\ Unasked
    BY <1>14 DEF OwnInv, SingleInv
  <2>2. NoneOwn(s) /\ NoneOwn(b)
    BY <1>4, <1>5, <1>8, <2>1
  <2>3. rxb' \in Halfs /\ NoneOwn(rxb') /\ queue' = <<>>
    BY <1>1, <1>8, <1>14, <2>2, IdleOwns
  <2>4. WireType' /\ QueueInv'
    BY <1>1, <1>2, <1>5, <2>3, EmptySeq DEF WireType, QueueInv
  <2>5. StartsOwn'
    BY <1>1, <1>14 DEF StartsOwn, awaiting
  <2>6. SingleInv'
    BY <1>1, <2>1, <2>2, <2>3 DEF SingleInv, NoneOwn, OneOwn, OwnAt, Unasked
  <2> QED BY <1>10, <2>4, <2>5, <2>6 DEF OwnWire
<1> QED BY <1>13, <1>14

(* The slave and the wire.                                                 *)
LEMMA WireOwns ==
  ASSUME OwnInv, SlaveAnswers \/ SlaveIgnores \/ Disturbed
  PROVE  OwnWire' /\ RoundInv'
<1>1. UNCHANGED <<phase, got, timer, rxb, queue, state, age>>
  BY DEF SlaveAnswers, SlaveIgnores, Disturbed, wireUnchanged, roundVars
<1>2. RoundInv' /\ QueueInv' /\ StartsOwn'
  BY <1>1 DEF OwnInv, RoundInv, QueueInv, StartsOwn, Starts, awaiting, expected_num, asked
<1>3. /\ rxb \in Halfs /\ bus \in Halfs /\ OneOwn(bus) /\ pending \in Seq(Request)
      /\ \A i, j \in 1 .. Len(pending) : pending[i].own /\ pending[j].own => i = j
  BY DEF OwnInv, WireType, SingleInv
<1>4. ASSUME /\ bus' \in Halfs /\ OneOwn(bus')
             /\ pending' \in Seq(Request)
             /\ \A i, j \in 1 .. Len(pending') : pending'[i].own /\ pending'[j].own => i = j
             /\ NoneOwn(bus') \/ Unasked'
             /\ NoneOwn(bus) /\ Unasked => NoneOwn(bus') /\ Unasked'
      PROVE  OwnWire' /\ RoundInv'
  <2>1. WireType'
    BY <1>1, <1>4 DEF OwnInv, WireType
  <2>2. SingleInv'
    BY <1>1, <1>4 DEF OwnInv, SingleInv, NoneOwn, OneOwn, OwnAt, Unasked, awaiting
  <2> QED BY <1>2, <2>1, <2>2 DEF OwnWire
<1>5. ASSUME pending # <<>>, pending' = Tail(pending)
      PROVE  /\ pending' \in Seq(Request)
             /\ \A i, j \in 1 .. Len(pending') : pending'[i].own /\ pending'[j].own => i = j
             /\ Unasked => Unasked'
             /\ pending[1].own => Unasked'
             /\ Head(pending) = pending[1] /\ pending[1] \in Request
             /\ Unasked => ~pending[1].own
  <2>1. /\ pending' \in Seq(Request) /\ Len(pending') = Len(pending) - 1
        /\ \A i \in 1 .. Len(pending) - 1 : pending'[i] = pending[i + 1]
        /\ Head(pending) = pending[1] /\ Len(pending) \in Nat /\ Len(pending) # 0
    BY <1>3, <1>5, HeadTailProperties, LenProperties, EmptySeq
  <2>2. \A i \in 1 .. Len(pending') : pending'[i] = pending[i + 1] /\ i + 1 \in 1 .. Len(pending) /\ i + 1 # 1
    BY <2>1
  <2>3. 1 \in 1 .. Len(pending)
    BY <2>1
  <2>4. pending[1] \in Request
    BY <1>3, <2>3, ElementOfSeq
  <2>5. \A i, j \in 1 .. Len(pending') : pending'[i].own /\ pending'[j].own => i = j
    <3> SUFFICES ASSUME NEW i \in 1 .. Len(pending'), NEW j \in 1 .. Len(pending'),
                        pending'[i].own, pending'[j].own
                 PROVE  i = j
      OBVIOUS
    <3>1. i + 1 = j + 1
      BY <1>3, <2>2
    <3> QED BY <3>1
  <2>6. Unasked => Unasked'
    BY <2>2 DEF Unasked
  <2>7. pending[1].own => Unasked'
    BY <1>3, <2>2, <2>3 DEF Unasked
  <2>8. Unasked => ~pending[1].own
    BY <2>3 DEF Unasked
  <2> QED BY <2>1, <2>4, <2>5, <2>6, <2>7, <2>8
<1>6. CASE SlaveAnswers
  <2>1. PICK kind \in Kinds :
          bus' = bus \o Halves([read |-> Head(pending).read, kind |-> kind, own |-> Head(pending).own])
    BY <1>6 DEF SlaveAnswers
  <2>2. pending # <<>> /\ pending' = Tail(pending)
    BY <1>6 DEF SlaveAnswers
  <2> DEFINE f == [read |-> Head(pending).read, kind |-> kind, own |-> Head(pending).own]
             h == Halves(f)
  <2>3. f \in Frame /\ f.own = pending[1].own
    BY <1>5, <2>2 DEF Frame, Request
  <2> HIDE DEF f
  <2>4. h \in Halfs /\ OneOwn(h) /\ (~pending[1].own => NoneOwn(h))
    BY <2>3, HalvesOwn
  <2>5. bus' = bus \o h
    BY <2>1 DEF f
  <2> HIDE DEF h
  <2>6. pending[1].own => NoneOwn(bus)
    BY <1>5, <2>2 DEF OwnInv, SingleInv
  <2>7. bus' \in Halfs /\ OneOwn(bus') /\ (NoneOwn(bus) /\ NoneOwn(h) => NoneOwn(bus'))
    BY <1>3, <2>4, <2>5, <2>6, BothOwn
  <2>8. NoneOwn(bus) \/ Unasked
    BY DEF OwnInv, SingleInv
  <2>9. NoneOwn(bus') \/ Unasked'
    <3>1. CASE pending[1].own
      BY <1>5, <2>2, <3>1
    <3>2. CASE ~pending[1].own
      BY <1>5, <2>2, <2>4, <2>7, <2>8, <3>2
    <3> QED BY <3>1, <3>2
  <2>10. NoneOwn(bus) /\ Unasked => NoneOwn(bus') /\ Unasked'
    BY <1>5, <2>2, <2>4, <2>7
  <2> QED BY <1>4, <1>5, <2>2, <2>7, <2>9, <2>10
<1>7. CASE SlaveIgnores
  <2>1. pending # <<>> /\ pending' = Tail(pending) /\ bus' = bus
    BY <1>7 DEF SlaveIgnores
  <2>2. NoneOwn(bus) \/ Unasked
    BY DEF OwnInv, SingleInv
  <2> QED BY <1>3, <1>4, <1>5, <2>1, <2>2
<1>8. CASE Disturbed
  <2>1. pending' = pending
    BY <1>8 DEF Disturbed
  <2>2. bus' \in Halfs /\ OneOwn(bus') /\ (NoneOwn(bus) => NoneOwn(bus'))
    <3>1. DOMAIN bus = 1 .. Len(bus)
      BY <1>3, LenProperties DEF Halfs
    <3> QED BY <1>3, <1>8, <3>1, DisturbedOwns DEF Disturbed
  <2>3. Unasked' <=> Unasked
    BY <2>1 DEF Unasked
  <2>4. NoneOwn(bus) \/ Unasked
    BY DEF OwnInv, SingleInv
  <2> QED BY <1>3, <1>4, <2>1, <2>2, <2>3, <2>4
<1> QED BY <1>6, <1>7, <1>8

(* The types of what is on the line, whatever comes late.                  *)
LEMMA LineStep == ASSUME AgeInv, LineType, [Next]_vars PROVE LineType'
<1>0. rxb \in Halfs /\ bus \in Halfs /\ pending \in Seq(Request)
  BY DEF LineType
<1>1. ASSUME UNCHANGED <<rxb, bus, pending>> PROVE LineType'
  BY <1>1 DEF LineType
<1>2. ASSUME awaiting, NEW result \in Results, Resume(result) PROVE LineType'
  <2> DEFINE results == Append(got, result)
  <2>1. results \in Seq(Results)
    BY <1>2, AppendProperties DEF AgeInv
  <2>2. CASE Len(results) < Len(READS) /\ Ask(results)
    <3> HIDE DEF results
    <3> QED BY <2>1, <2>2, AskOwns
  <2>3. CASE rxb' = Foreign(rxb) /\ bus' = Foreign(bus) /\ pending' = Foreign(pending)
    BY <1>0, <2>3, ForeignOwns DEF LineType
  <2> QED BY <1>2, <2>2, <2>3 DEF Resume
<1>3. CASE Dispatch
  <2>1. CASE awaiting
    <3>1. Parsed(Head(queue)) \in Results
      BY DEF Parsed, Results
    <3> QED BY <1>2, <1>3, <2>1, <3>1 DEF Dispatch
  <2> QED BY <1>1, <1>3, <2>1 DEF Dispatch
<1>4. CASE TimedOut
  <2>1. "timeout" \in Results
    BY DEF Results
  <2> QED BY <1>2, <1>4, <2>1 DEF TimedOut
<1>5. CASE Wake \/ OpenUart
  <2> DEFINE none == <<>>
  <2>1. none \in Seq(Results) /\ Len(none) = 0 /\ Ask(none)
    BY <1>5, EmptySeq DEF Wake, OpenUart
  <2> HIDE DEF none
  <2>2. Len(none) < Len(READS)
    BY <2>1, Constants
  <2> QED BY <2>1, <2>2, AskOwns
<1>6. CASE OpenFails \/ Tick
  BY <1>1, <1>6 DEF OpenFails, Tick
<1>7. CASE Receive
  <2>1. PICK n \in DOMAIN bus : OnReceive(n)
    BY <1>7 DEF Receive
  <2> DEFINE a == SubSeq(bus, 1, n)
             b == SubSeq(bus, n + 1, Len(bus))
             s == Kept(rxb \o a)
  <2>2. bus' = b /\ rxb' = RestOf(s) /\ pending' = pending
    BY <2>1 DEF OnReceive
  <2>3. Len(bus) \in Nat /\ n \in 1 .. Len(bus)
    BY <1>0, LenProperties DEF Halfs
  <2>4. a \in Halfs /\ b \in Halfs
    <3>1. /\ 1 \in 1 .. Len(bus) + 1 /\ n \in 0 .. Len(bus)
          /\ n + 1 \in 1 .. Len(bus) + 1 /\ Len(bus) \in 0 .. Len(bus)
      BY <2>3
    <3> QED BY <1>0, <3>1, PieceOwns
  <2> HIDE DEF a, b
  <2>5. s \in Halfs
    BY <1>0, <2>4, BothOwn, KeptOwns
  <2> HIDE DEF s
  <2>6. RestOf(s) \in Halfs
    BY <2>5, RestAwaited, IdleOwns
  <2> QED BY <1>0, <2>2, <2>4, <2>6 DEF LineType
<1>8. CASE SlaveAnswers \/ SlaveIgnores
  <2>1. rxb' = rxb /\ pending # <<>> /\ pending' = Tail(pending)
    BY <1>8 DEF SlaveAnswers, SlaveIgnores, wireUnchanged
  <2>2. pending' \in Seq(Request) /\ Head(pending) \in Request
    BY <1>0, <2>1, HeadTailProperties
  <2>3. bus' \in Halfs
    <3>1. CASE SlaveIgnores
      BY <1>0, <3>1 DEF SlaveIgnores
    <3>2. CASE SlaveAnswers
      <4>1. PICK kind \in Kinds :
              bus' = bus \o Halves([read |-> Head(pending).read, kind |-> kind, own |-> Head(pending).own])
        BY <3>2 DEF SlaveAnswers
      <4> DEFINE f == [read |-> Head(pending).read, kind |-> kind, own |-> Head(pending).own]
                 h == Halves(f)
      <4>2. f \in Frame
        BY <2>2 DEF Frame, Request
      <4> HIDE DEF f
      <4>3. h \in Halfs
        BY <4>2, HalvesOwn
      <4>4. bus' = bus \o h
        BY <4>1 DEF f
      <4> HIDE DEF h
      <4> QED BY <1>0, <4>3, <4>4, BothOwn
    <3> QED BY <1>8, <3>1, <3>2
  <2> QED BY <1>0, <2>1, <2>2, <2>3 DEF LineType
<1>9. CASE Disturbed
  <2>1. DOMAIN bus = 1 .. Len(bus)
    BY <1>0, LenProperties DEF Halfs
  <2>2. bus' \in Halfs
    BY <1>0, <1>9, <2>1, DisturbedOwns DEF Disturbed
  <2> QED BY <1>0, <1>9, <2>2 DEF Disturbed, wireUnchanged, LineType
<1>10. CASE UNCHANGED vars
  BY <1>1, <1>10 DEF vars
<1> QED BY <1>3, <1>4, <1>5, <1>6, <1>7, <1>8, <1>9, <1>10 DEF Next, Task, Wire

(* A round that begins does so with nothing but its own request.           *)
LEMMA BeginOwns == ASSUME LateInv, Wake \/ OpenUart PROVE OwnInv'
<1>1. AgeInv'
  BY AgeInvStep DEF LateInv, Next, Task
<1>2. Ask(<<>>) /\ queue' = queue /\ queue = <<>>
  BY DEF Wake, OpenUart, LateInv
<1> DEFINE none == <<>>
<1>3. none \in Seq(Results) /\ Len(none) = 0 /\ Ask(none) /\ queue' = none
  BY <1>2, EmptySeq
<1>4. got' = none
  BY <1>3 DEF Ask
<1>5. OwnWire'
  <2>1. Len(none) < Len(READS)
    BY <1>3, Constants
  <2>2. queue' = <<>>
    BY <1>2
  <2> HIDE DEF none
  <2> QED BY <1>3, <2>1, <2>2, AskOwns DEF LateInv
<1> HIDE DEF none
<1>6. RoundInv'
  BY <1>3, <1>4 DEF RoundInv
<1> QED BY <1>1, <1>5, <1>6 DEF OwnInv, OwnWire

(* Within a round, until an answer comes late that looks like its own.     *)
LEMMA OwnStep ==
  ASSUME OwnInv, [Next]_vars, ~(Wake \/ OpenUart), ~late'
  PROVE  OwnInv'
<1>1. AgeInv'
  BY AgeInvStep DEF OwnInv
<1> SUFFICES OwnWire' /\ RoundInv'
  BY <1>1 DEF OwnInv, OwnWire
<1>2. ASSUME UNCHANGED <<phase, got, rxb, queue, state, pending, bus>>
      PROVE  OwnWire' /\ RoundInv'
  BY <1>2 DEF OwnInv, OwnWire, WireType, QueueInv, StartsOwn, SingleInv, RoundInv,
              Starts, NoneOwn, OneOwn, OwnAt, Unasked, awaiting, expected_num, asked
<1>3. CASE Dispatch
  BY <1>3, DispatchOwns
<1>4. CASE TimedOut
  <2>1. "timeout" \in Results \ {"foreign"}
    BY DEF Results
  <2> QED BY <1>4, <2>1, ResumeOwns DEF TimedOut
<1>5. CASE OpenFails \/ Tick
  BY <1>2, <1>5 DEF OpenFails, Tick, roundVars
<1>6. CASE Receive
  <2>1. PICK n \in DOMAIN bus : OnReceive(n)
    BY <1>6 DEF Receive
  <2>2. ~ComesLate(n)
    BY <2>1 DEF OnReceive
  <2> QED BY <2>1, <2>2, ReceiveOwns DEF ComesLate
<1>7. CASE SlaveAnswers \/ SlaveIgnores \/ Disturbed
  BY <1>7, WireOwns
<1>8. CASE UNCHANGED vars
  BY <1>2, <1>8 DEF vars, roundVars
<1> QED BY <1>3, <1>4, <1>5, <1>6, <1>7, <1>8 DEF Next, Task, Wire

(* What comes late in a round has come until the next one begins.          *)
LEMMA LateStays ==
  ASSUME AgeInv, late \in BOOLEAN, [Next]_vars, ~(Wake \/ OpenUart)
  PROVE  late' \in BOOLEAN /\ (late => late')
<1>1. ASSUME NEW result \in Results, Resume(result) PROVE late' = late
  <2>1. Append(got, result) # <<>>
    <3>1. got \in Seq(Results) /\ Len(got) \in Nat
      BY LenProperties DEF AgeInv
    <3>2. Len(Append(got, result)) = Len(got) + 1
      BY <3>1, AppendProperties
    <3>3. Len(<<>>) = 0
      BY EmptySeq
    <3> DEFINE results == Append(got, result)
               none == <<>>
    <3>4. Len(results) # Len(none)
      BY <3>1, <3>2, <3>3
    <3> HIDE DEF results, none
    <3>5. results # none
      BY <3>4
    <3> QED BY <3>5 DEF results, none
  <2>2. CASE Ask(Append(got, result))
    BY <2>1, <2>2 DEF Ask
  <2> QED BY <1>1, <2>2 DEF Resume
<1>2. CASE Dispatch \/ TimedOut
  <2>1. Parsed(Head(queue)) \in Results /\ "timeout" \in Results
    BY DEF Parsed, Results
  <2> QED BY <1>1, <1>2, <2>1 DEF Dispatch, TimedOut
<1>3. CASE OpenFails \/ Tick \/ UNCHANGED vars
  BY <1>3 DEF OpenFails, Tick, vars
<1>4. CASE Wire
  BY <1>4 DEF Wire, SlaveAnswers, SlaveIgnores, Disturbed, Receive, OnReceive, ComesLate, wireUnchanged
<1> QED BY <1>2, <1>3, <1>4 DEF Next, Task

LEMMA LateInvStep == ASSUME LateInv, [Next]_vars PROVE LateInv'
<1>1. AgeInv' /\ LineType'
  BY AgeInvStep, LineStep DEF LateInv
<1>2. CASE Wake \/ OpenUart
  <2>1. late' = FALSE /\ phase' = "waiting"
    BY <1>2 DEF Wake, OpenUart, Ask
  <2> QED BY <1>1, <1>2, <2>1, BeginOwns DEF LateInv
<1>3. CASE ~(Wake \/ OpenUart)
  <2>1. late' \in BOOLEAN /\ (late => late')
    BY <1>3, LateStays DEF LateInv
  <2>2. ~late' => OwnInv'
    BY <1>3, <2>1, OwnStep DEF LateInv
  <2>3. phase' = "closed" => queue' = <<>>
    <3>1. ASSUME NEW result, Resume(result) PROVE phase' # "closed"
      BY <3>1 DEF Resume, Ask
    <3>2. CASE Dispatch \/ TimedOut
      BY <3>1, <3>2 DEF LateInv, Dispatch, TimedOut, awaiting
    <3>3. CASE OpenFails \/ Tick \/ UNCHANGED vars
      BY <3>3 DEF LateInv, OpenFails, Tick, vars
    <3>4. CASE Wire
      BY <3>4 DEF LateInv, Wire, SlaveAnswers, SlaveIgnores, Disturbed, Receive, OnReceive, wireUnchanged
    <3> QED BY <1>3, <3>2, <3>3, <3>4 DEF Next, Task
  <2> QED BY <1>1, <2>1, <2>2, <2>3 DEF LateInv
<1> QED BY <1>2, <1>3

(* A round takes another request's answer only if that one begins to come  *)
(* in while the round waits for one that looks the same: the buffer is     *)
(* emptied before every request, a frame must have the length that was     *)
(* asked for, and a message that nobody waits for is lost.  What came late *)
(* in one round does no harm to the next.                                  *)
THEOREM OnlyLateAnswersAreTaken == Spec => []OnlyLateIsTaken
<1>1. Init => LateInv
  <2> SUFFICES ASSUME Init PROVE LateInv
    OBVIOUS
  <2> DEFINE none == <<>>
  <2>1. /\ none \in Halfs /\ none \in Seq(Request) /\ none \in Seq(Frame) /\ none \in Seq(Results)
        /\ Len(none) = 0 /\ DOMAIN none = {}
    BY EmptySeq DEF Halfs
  <2>2. /\ rxb = none /\ bus = none /\ pending = none /\ queue = none /\ got = none
        /\ phase = "closed" /\ state = NoRound /\ late = FALSE
    BY DEF Init
  <2> HIDE DEF none
  <2>3. AgeInv
    BY EmptySeq DEF Init, AgeInv, NoRound, Round, fresh
  <2>4. WireType /\ StartsOwn /\ LineType
    BY <2>1, <2>2 DEF WireType, LineType, StartsOwn
  <2>5. QueueInv
    BY <2>2 DEF QueueInv, none
  <2>6. SingleInv
    BY <2>1, <2>2 DEF SingleInv, NoneOwn, OneOwn, Unasked
  <2>7. RoundInv
    BY <2>1, <2>2 DEF RoundInv
  <2> QED BY <2>2, <2>3, <2>4, <2>5, <2>6, <2>7 DEF OwnInv, LateInv, none
<1>2. LateInv /\ [Next]_vars => LateInv'
  BY LateInvStep
<1>3. LateInv => OnlyLateIsTaken
  <2> SUFFICES ASSUME LateInv, ~late, NEW i \in DOMAIN got PROVE got[i] # "foreign"
    BY DEF OnlyLateIsTaken, LateInv
  <2>1. i \in 1 .. Len(got)
    BY LenProperties DEF LateInv, AgeInv
  <2> QED BY <2>1 DEF LateInv, OwnInv, RoundInv
<1> QED BY <1>1, <1>2, <1>3, PTL DEF Spec
=============================================================================
